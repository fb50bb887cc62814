---------------------------- MODULE ChunkProofs -----------------------------
(***************************************************************************)
(* Proofs about the transfer of chunks.  ChunkLink, for any set of         *)
(* requests, any number of chunks and lost puts and both modes: the        *)
(* inductive invariant LinkInv, the safety properties that follow from it, *)
(* and the refinement of ChunkChannel.  ChunkGeneration, for any requests, *)
(* chunks, aborts and places, and for any token budget: the inductive      *)
(* invariant GenerationInv on top of LinkInv, what the two loops of        *)
(* schedule() select (TakenInv), and, for a budget of a chunk for each     *)
(* running request, how far the outputs of each request are (ProgressInv)  *)
(* and what each of them comes from (SentInv).                             *)
(***************************************************************************)
EXTENDS ChunkGeneration, SequenceLemmas

(* How many chunks of r the save thread has put or tried to put.           *)
Handed(r) ==
  put_req_chunk[r] - Len(pending_save_reqs[r]) - (IF save_task[1] = r THEN 1 ELSE 0)

(* The queue of r and the save thread hold the last chunks made, in order. *)
SaveInv ==
  \A r \in Reqs :
    /\ Handed(r) >= 0
    /\ \A i \in 1..Len(pending_save_reqs[r]) :
         pending_save_reqs[r][i] = put_req_chunk[r] - Len(pending_save_reqs[r]) + i - 1
    /\ save_task[1] = r => save_task[2] = Handed(r)

(* The connector and the lost chunks make up exactly the gap between what  *)
(* was put and what was received.                                          *)
StoreInv ==
  /\ store \intersect lost = {}
  /\ \A r \in Reqs :
       /\ get_req_chunk[r] <= Handed(r)
       /\ \A c \in Nat : <<r, c>> \in store \union lost <=>
                           get_req_chunk[r] <= c /\ c < Handed(r)

RecvInv ==
  /\ recv_pc = "scan" <=> recv_req = NoReq
  /\ recv_req # NoReq => get_req_chunk[recv_req] > 0
  /\ PolledIsRegistered

(* A poll that is between the counter and the data.                        *)
Unfilled(r) ==
  r = recv_req /\ (recv_pc = "fill" \/ (recv_pc = "mark" /\ Generation))

DataOf(n) == IF n = 0 THEN <<>>
             ELSE IF Generation THEN <<n - 1>> ELSE [i \in 1..n |-> i - 1]

HeldInv ==
  \A r \in Reqs :
    held[r] = DataOf(IF Unfilled(r) THEN get_req_chunk[r] - 1 ELSE get_req_chunk[r])

LinkInv ==
  LinkTypeOK /\ SaveInv /\ StoreInv /\ RecvInv /\ HeldInv /\ FinishedIsDrained
-----------------------------------------------------------------------------
(* What appending to and taking from a queue of chunk ids does.            *)
LEMMA AppendFacts ==
  ASSUME NEW S, NEW q \in Seq(S), NEW e \in S
  PROVE  /\ Append(q, e) \in Seq(S)
         /\ Len(q) \in Nat /\ Len(Append(q, e)) = Len(q) + 1
         /\ \A i \in 1..Len(q) : Append(q, e)[i] = q[i]
         /\ Append(q, e)[Len(q) + 1] = e
OBVIOUS

(* What taking the first chunk id leaves.                                  *)
LEMMA TailFacts ==
  ASSUME NEW S, NEW q \in Seq(S), q # <<>>
  PROVE  /\ Tail(q) \in Seq(S)
         /\ Head(q) \in S /\ Head(q) = q[1]
         /\ Len(q) \in Nat \ {0} /\ Len(Tail(q)) = Len(q) - 1
         /\ \A i \in 1..Len(Tail(q)) : Tail(q)[i] = q[i + 1]
OBVIOUS

(* The save thread's task as a request and a chunk.                        *)
LEMMA TaskFacts ==
  ASSUME LinkTypeOK
  PROVE  /\ save_task = NoTask => save_task[1] = NoReq
         /\ save_task # NoTask =>
              /\ save_task = <<save_task[1], save_task[2]>>
              /\ save_task[1] \in Reqs /\ save_task[2] \in Nat
BY DEF LinkTypeOK, Chunk, NoTask

(* The initial state: no chunk exists anywhere.                            *)
LEMMA InitInv == LinkInit => LinkInv
<1> SUFFICES ASSUME LinkInit PROVE LinkInv
  OBVIOUS
<1> USE LinkAssumption DEF LinkInit, NoTask
<1>1. LinkTypeOK
  BY DEF LinkTypeOK, Chunk
<1>2. SaveInv
  BY DEF SaveInv, Handed
<1>3. StoreInv
  BY DEF StoreInv, Handed
<1>4. RecvInv
  BY DEF RecvInv, PolledIsRegistered
<1>5. HeldInv
  BY DEF HeldInv, DataOf, Unfilled
<1>6. FinishedIsDrained
  BY DEF FinishedIsDrained
<1> QED
  BY <1>1, <1>2, <1>3, <1>4, <1>5, <1>6 DEF LinkInv

(* A new chunk joins the end of its queue, behind the ones before it.      *)
LEMMA SaveAsyncInv ==
  ASSUME LinkInv, NEW r \in Reqs, NEW last \in BOOLEAN, SaveAsync(r, last)
  PROVE  LinkInv'
<1> USE LinkAssumption DEF LinkInv, SaveAsync, loadVars, recvVars
<1>1. LinkTypeOK'
  <2>1. put_req_chunk' \in [Reqs -> Nat]
    BY DEF LinkTypeOK
  <2>2. pending_save_reqs' \in [Reqs -> Seq(Nat)]
    <3>1. pending_save_reqs \in [Reqs -> Seq(Nat)] /\ put_req_chunk[r] \in Nat
      BY DEF LinkTypeOK
    <3>2. Append(pending_save_reqs[r], put_req_chunk[r]) \in Seq(Nat)
      BY <3>1
    <3> QED
      BY <3>1, <3>2
  <2>3. producer' \in [Reqs -> {"running", "finished", "silent"}]
    BY DEF LinkTypeOK
  <2>4. save_keys' \in Seq(Reqs)
    BY DEF LinkTypeOK
  <2> QED
    BY <2>1, <2>2, <2>3, <2>4 DEF LinkTypeOK
<1>2. SaveInv' /\ \A q \in Reqs : Handed(q)' = Handed(q)
  <2> SUFFICES ASSUME NEW q \in Reqs
               PROVE  /\ Handed(q)' = Handed(q)
                      /\ \A i \in 1..Len(pending_save_reqs'[q]) :
                           pending_save_reqs'[q][i] =
                             put_req_chunk'[q] - Len(pending_save_reqs'[q]) + i - 1
    BY DEF SaveInv
  <2>1. CASE q = r
    <3> DEFINE Q == pending_save_reqs[r]
               n == put_req_chunk[r]
    <3>1. Q \in Seq(Nat) /\ n \in Nat
      BY DEF LinkTypeOK
    <3>2. pending_save_reqs'[r] = Append(Q, n) /\ put_req_chunk'[r] = n + 1
      BY DEF LinkTypeOK
    <3>3. \A i \in 1..Len(Q) : Q[i] = n - Len(Q) + i - 1
      BY DEF SaveInv
    <3> HIDE DEF Q, n
    <3>4. \A i \in 1..Len(Append(Q, n)) :
            Append(Q, n)[i] = n + 1 - Len(Append(Q, n)) + i - 1
      BY <3>1, <3>3, AppendFacts
    <3>5. Handed(r)' = Handed(r)
      BY <3>1, <3>2, AppendFacts DEF Handed, Q, n
    <3> HIDE DEF SaveAsync, LinkInv
    <3>6. Handed(q)' = Handed(q)
      BY <2>1, <3>5 DEF Handed
    <3>7. \A i \in 1..Len(pending_save_reqs'[q]) :
            pending_save_reqs'[q][i] =
              put_req_chunk'[q] - Len(pending_save_reqs'[q]) + i - 1
      <4>1. pending_save_reqs'[q] = Append(Q, n) /\ put_req_chunk'[q] = n + 1
        BY <2>1, <3>2
      <4> QED
        BY ONLY <3>1, <3>4, <4>1, AppendFacts
    <3> QED
      BY <3>6, <3>7
  <2>2. CASE q # r
    BY <2>2 DEF SaveInv, Handed, LinkTypeOK
  <2> QED
    BY <2>1, <2>2
<1>3. StoreInv'
  BY <1>2 DEF StoreInv
<1>4. RecvInv'
  BY DEF RecvInv, PolledIsRegistered
<1>5. HeldInv'
  BY DEF HeldInv, DataOf, Unfilled
<1>6. FinishedIsDrained'
  BY DEF FinishedIsDrained, LinkTypeOK
<1> QED
  BY <1>1, <1>2, <1>3, <1>4, <1>5, <1>6

(* The oldest chunk of the queue becomes the save thread's task.           *)
LEMMA SaveTakeInv ==
  ASSUME LinkInv, SaveTake
  PROVE  LinkInv'
<1> USE LinkAssumption DEF LinkInv, SaveTake, loadVars, recvVars
<1> PICK r \in Reqs : r = Head(save_keys)
  BY TailFacts DEF LinkTypeOK
<1>0. /\ pending_save_reqs[r] \in Seq(Nat) /\ pending_save_reqs[r] # <<>>
      /\ put_req_chunk[r] \in Nat
  BY DEF LinkTypeOK
<1>1. LinkTypeOK'
  <2>1. save_task' \in Chunk
    BY <1>0, TailFacts DEF Chunk
  <2>2. pending_save_reqs' \in [Reqs -> Seq(Nat)]
    BY <1>0, TailFacts DEF LinkTypeOK
  <2>3. save_keys' \in Seq(Reqs)
    BY TailFacts DEF LinkTypeOK
  <2> QED
    BY <2>1, <2>2, <2>3 DEF LinkTypeOK
<1>2. SaveInv' /\ \A q \in Reqs : Handed(q)' = Handed(q)
  <2> SUFFICES ASSUME NEW q \in Reqs
               PROVE  /\ Handed(q)' = Handed(q)
                      /\ \A i \in 1..Len(pending_save_reqs'[q]) :
                           pending_save_reqs'[q][i] =
                             put_req_chunk'[q] - Len(pending_save_reqs'[q]) + i - 1
                      /\ save_task'[1] = q => save_task'[2] = Handed(q)
    BY DEF SaveInv
  <2>1. CASE q = r
    <3> DEFINE Q == pending_save_reqs[r]
               n == put_req_chunk[r]
    <3>1. /\ pending_save_reqs'[r] = Tail(Q) /\ put_req_chunk'[r] = n
          /\ save_task'[1] = r /\ save_task'[2] = Head(Q)
          /\ save_task[1] # r
      BY <1>0, TaskFacts DEF LinkTypeOK, NoTask
    <3>2. \A i \in 1..Len(Q) : Q[i] = n - Len(Q) + i - 1
      BY <1>0 DEF SaveInv
    <3>3. Q \in Seq(Nat) /\ Q # <<>> /\ n \in Nat
      BY <1>0
    <3> HIDE DEF SaveTake, LinkInv
    <3>4. Handed(r) = n - Len(Q) /\ Handed(r)' = n - Len(Tail(Q)) - 1
      BY <3>1, <3>3, TailFacts DEF Handed
    <3> HIDE DEF Q, n
    <3>5. Handed(r)' = Handed(r) /\ Head(Q) = Handed(r)
      BY <3>2, <3>3, <3>4, TailFacts
    <3>6. \A i \in 1..Len(Tail(Q)) : Tail(Q)[i] = n - Len(Tail(Q)) + i - 1
      <4> SUFFICES ASSUME NEW i \in 1..Len(Tail(Q))
                   PROVE  Tail(Q)[i] = n - Len(Tail(Q)) + i - 1
        OBVIOUS
      <4>1. Tail(Q)[i] = Q[i + 1] /\ i + 1 \in 1..Len(Q)
        BY <3>3, TailFacts
      <4> QED
        BY <3>2, <3>3, <4>1, TailFacts
    <3> QED
      BY <2>1, <3>1, <3>5, <3>6
  <2>2. CASE q # r
    <3>1. /\ pending_save_reqs'[q] = pending_save_reqs[q]
          /\ put_req_chunk'[q] = put_req_chunk[q]
          /\ save_task'[1] # q /\ save_task[1] # q
      BY <1>0, <2>2, TaskFacts DEF LinkTypeOK, NoTask
    <3>2. Handed(q)' = Handed(q)
      BY <3>1 DEF Handed
    <3> QED
      BY <3>1, <3>2 DEF SaveInv
  <2> QED
    BY <2>1, <2>2
<1>3. StoreInv'
  BY <1>2 DEF StoreInv
<1>4. RecvInv'
  BY DEF RecvInv, PolledIsRegistered
<1>5. HeldInv'
  BY DEF HeldInv, DataOf, Unfilled
<1>6. FinishedIsDrained'
  BY DEF FinishedIsDrained
<1> QED
  BY <1>1, <1>2, <1>3, <1>4, <1>5, <1>6

(* The put succeeds or fails: either way the chunk is behind the thread.   *)
LEMMA SaveSendInv ==
  ASSUME LinkInv, SaveSend
  PROVE  LinkInv'
<1> USE LinkAssumption DEF LinkInv, SaveSend, loadVars, recvVars, producerVars
<1> PICK r \in Reqs, c \in Nat : save_task = <<r, c>>
  BY TaskFacts
<1>0. c = Handed(r)
  BY DEF SaveInv
<1>1. LinkTypeOK'
  BY <1>0 DEF LinkTypeOK, Chunk
<1>2. /\ Handed(r)' = Handed(r) + 1
      /\ \A q \in Reqs \ {r} : Handed(q)' = Handed(q)
      /\ \A q \in Reqs : Handed(q) \in Int
  <2>1. save_task'[1] = NoReq
    BY DEF NoTask
  <2>2. \A q \in Reqs : put_req_chunk[q] \in Nat /\ Len(pending_save_reqs[q]) \in Nat
    BY DEF LinkTypeOK
  <2> QED
    BY <1>0, <2>1, <2>2 DEF Handed
<1>3. SaveInv'
  <2> SUFFICES ASSUME NEW q \in Reqs
               PROVE  /\ Handed(q)' >= 0
                      /\ save_task'[1] # q
    BY DEF SaveInv
  <2>1. save_task'[1] = NoReq
    BY DEF NoTask
  <2> QED
    BY <1>0, <1>2, <2>1 DEF SaveInv
<1>4. StoreInv'
  <2>1. <<r, c>> \notin store \union lost
    BY <1>0 DEF StoreInv
  <2>2. (store \union lost)' = (store \union lost) \union {<<r, c>>}
    BY <1>0
  <2>3. (store \intersect lost)' = {}
    BY <2>1, <1>0 DEF StoreInv
  <2>4. ASSUME NEW q \in Reqs, NEW d \in Nat
        PROVE  /\ get_req_chunk'[q] <= Handed(q)'
               /\ <<q, d>> \in (store \union lost)' <=>
                    get_req_chunk'[q] <= d /\ d < Handed(q)'
    <3>1. get_req_chunk[q] \in Nat /\ get_req_chunk[q] <= Handed(q)
      BY DEF LinkTypeOK, StoreInv
    <3>2. <<q, d>> \in (store \union lost)' <=>
            (<<q, d>> \in store \union lost \/ (q = r /\ d = c))
      BY <2>2
    <3>3. <<q, d>> \in store \union lost <=> get_req_chunk[q] <= d /\ d < Handed(q)
      BY DEF StoreInv
    <3>4. get_req_chunk'[q] = get_req_chunk[q]
      OBVIOUS
    <3>5. Handed(q) \in Int /\ Handed(q)' = IF q = r THEN Handed(q) + 1 ELSE Handed(q)
      BY <1>2
    <3>6. q = r => c = Handed(q)
      BY <1>0
    <3> HIDE DEF LinkInv, SaveSend
    <3> QED
      BY <3>1, <3>2, <3>3, <3>4, <3>5, <3>6
  <2> QED
    BY <2>3, <2>4 DEF StoreInv
<1>5. RecvInv'
  BY DEF RecvInv, PolledIsRegistered
<1>6. HeldInv'
  BY DEF HeldInv, DataOf, Unfilled
<1>7. FinishedIsDrained'
  BY DEF FinishedIsDrained
<1> QED
  BY <1>1, <1>3, <1>4, <1>5, <1>6, <1>7
(* The producer ends without a final chunk.                                *)
LEMMA SaveNothingInv ==
  ASSUME LinkInv, NEW r \in Reqs, SaveNothing(r)
  PROVE  LinkInv'
<1> USE DEF LinkInv, SaveNothing, loadVars, recvVars
<1>1. LinkTypeOK'
  BY DEF LinkTypeOK
<1>2. SaveInv' /\ \A q \in Reqs : Handed(q)' = Handed(q)
  BY DEF SaveInv, Handed
<1>3. StoreInv'
  BY <1>2 DEF StoreInv
<1>4. RecvInv'
  BY DEF RecvInv, PolledIsRegistered
<1>5. HeldInv'
  BY DEF HeldInv, DataOf, Unfilled
<1>6. FinishedIsDrained'
  BY DEF FinishedIsDrained, LinkTypeOK
<1> QED
  BY <1>1, <1>2, <1>3, <1>4, <1>5, <1>6

(* What the engine thread and the receive loop do to the registered and    *)
(* the loaded requests touches neither chunks nor data.                    *)
LEMMA RegisterInv ==
  ASSUME LinkInv,
         (\E r \in Reqs : Ask(r)) \/ Collect \/ RecvSnapshot
           \/ (\E r \in Reqs : PollMiss(r))
  PROVE  LinkInv'
<1> USE DEF LinkInv, Ask, Collect, RecvSnapshot, PollMiss, LoadAsync,
            GetFinishedRequests, loadVars, recvVars, producerVars
<1>1. LinkTypeOK'
  BY DEF LinkTypeOK
<1>2. SaveInv' /\ \A q \in Reqs : Handed(q)' = Handed(q)
  <2>1. UNCHANGED <<put_req_chunk, pending_save_reqs, save_task>>
    OBVIOUS
  <2> HIDE DEF Ask, Collect, RecvSnapshot, PollMiss, LoadAsync, GetFinishedRequests, LinkInv
  <2> QED BY <2>1 DEF LinkInv, SaveInv, Handed
<1>3. StoreInv'
  BY <1>2 DEF StoreInv
<1>4. RecvInv'
  BY DEF RecvInv, PolledIsRegistered, LinkTypeOK
<1>5. HeldInv'
  BY DEF HeldInv, DataOf, Unfilled
<1>6. FinishedIsDrained'
  BY DEF FinishedIsDrained
<1> QED
  BY <1>1, <1>2, <1>3, <1>4, <1>5, <1>6

(* The next chunk leaves the connector and is counted.                     *)
LEMMA PollHitInv ==
  ASSUME LinkInv, NEW r \in Reqs, PollHit(r)
  PROVE  LinkInv'
<1> USE LinkAssumption DEF LinkInv, PollHit, loadVars, producerVars
<1> DEFINE n == get_req_chunk[r]
<1>0. /\ get_req_chunk' = [get_req_chunk EXCEPT ![r] = n + 1]
      /\ get_req_chunk \in [Reqs -> Nat] /\ n \in Nat
      /\ recv_req = NoReq /\ recv_req' = r /\ r # NoReq
  BY DEF LinkTypeOK, RecvInv
<1>1. LinkTypeOK'
  BY <1>0 DEF LinkTypeOK
<1>2. SaveInv' /\ \A q \in Reqs : Handed(q)' = Handed(q)
  BY DEF SaveInv, Handed
<1>3. n < Handed(r)
  BY <1>0 DEF StoreInv
<1>4. \A q \in Reqs : Handed(q) \in Int /\ Handed(q) <= put_req_chunk[q]
  <2> SUFFICES ASSUME NEW q \in Reqs
               PROVE  Handed(q) \in Int /\ Handed(q) <= put_req_chunk[q]
    OBVIOUS
  <2>1. put_req_chunk[q] \in Nat /\ Len(pending_save_reqs[q]) \in Nat
    BY DEF LinkTypeOK
  <2> QED
    BY <2>1 DEF Handed
<1>5. StoreInv'
  <2>1. (store \intersect lost)' = {}
    BY DEF StoreInv
  <2>2. (store \union lost)' = (store \union lost) \ {<<r, n>>}
    BY DEF StoreInv
  <2>3. ASSUME NEW q \in Reqs, NEW d \in Nat
        PROVE  /\ get_req_chunk'[q] <= Handed(q)'
               /\ <<q, d>> \in (store \union lost)' <=>
                    get_req_chunk'[q] <= d /\ d < Handed(q)'
    <3>1. get_req_chunk[q] \in Nat /\ get_req_chunk[q] <= Handed(q)
      BY <1>0 DEF StoreInv
    <3>2. <<q, d>> \in (store \union lost)' <=>
            (<<q, d>> \in store \union lost /\ ~(q = r /\ d = n))
      BY <2>2
    <3>3. <<q, d>> \in store \union lost <=> get_req_chunk[q] <= d /\ d < Handed(q)
      BY DEF StoreInv
    <3>4. get_req_chunk'[q] = IF q = r THEN n + 1 ELSE get_req_chunk[q]
      BY <1>0
    <3>5. Handed(q)' = Handed(q) /\ Handed(q) \in Int
      BY <1>2, <1>4
    <3> HIDE DEF LinkInv, PollHit
    <3> QED
      BY <1>3, <3>1, <3>2, <3>3, <3>4, <3>5
  <2> QED
    BY <2>1, <2>3 DEF StoreInv
<1>6. RecvInv'
  <2>1. recv_pc' # "scan"
    OBVIOUS
  <2>2. get_req_chunk'[r] > 0
    BY <1>0
  <2> QED
    BY <1>0, <2>1, <2>2 DEF RecvInv, PolledIsRegistered
<1>7. HeldInv'
  <2> SUFFICES ASSUME NEW q \in Reqs
               PROVE  held'[q] = DataOf(IF Unfilled(q)' THEN get_req_chunk'[q] - 1
                                                        ELSE get_req_chunk'[q])
    BY DEF HeldInv
  <2>1. Unfilled(q) = FALSE
    BY <1>0 DEF Unfilled
  <2>2. held'[q] = DataOf(get_req_chunk[q])
    BY <2>1 DEF HeldInv
  <2>3. Unfilled(q)' <=> q = r
    BY <1>0 DEF Unfilled
  <2> QED
    BY <1>0, <2>2, <2>3
<1>8. FinishedIsDrained'
  <2>1. r \notin finished_requests
    BY <1>0, <1>3, <1>4 DEF FinishedIsDrained, LinkTypeOK
  <2> QED
    BY <1>0, <2>1 DEF FinishedIsDrained
<1> QED
  BY <1>1, <1>2, <1>5, <1>6, <1>7, <1>8

(* The finished flag is the flag of the last chunk made.                   *)
LEMMA PollMarkInv ==
  ASSUME LinkInv, PollMark
  PROVE  LinkInv'
<1> USE LinkAssumption DEF LinkInv, PollMark, loadVars, producerVars
<1>1. LinkTypeOK'
  BY DEF LinkTypeOK, RecvInv
<1>2. SaveInv' /\ \A q \in Reqs : Handed(q)' = Handed(q)
  BY DEF SaveInv, Handed
<1>3. StoreInv'
  BY <1>2 DEF StoreInv
<1>4. RecvInv'
  BY DEF RecvInv, PolledIsRegistered
<1>5. HeldInv'
  <2>1. \A q \in Reqs : Unfilled(q)' <=> Unfilled(q)
    BY DEF Unfilled
  <2> QED
    BY <2>1 DEF HeldInv
<1>6. FinishedIsDrained'
  <2>1. ASSUME IsFinal(recv_req, get_req_chunk[recv_req] - 1), recv_req \in Reqs
        PROVE  /\ producer[recv_req] = "finished"
               /\ get_req_chunk[recv_req] = put_req_chunk[recv_req]
    BY <2>1 DEF IsFinal, LinkTypeOK
  <2>2. recv_req \in Reqs
    BY DEF RecvInv, LinkTypeOK
  <2> QED
    BY <2>1, <2>2 DEF FinishedIsDrained
<1> QED
  BY <1>1, <1>2, <1>3, <1>4, <1>5, <1>6

(* The data of the chunk that was counted joins the data before it.        *)
LEMMA PollFillInv ==
  ASSUME LinkInv, PollFill
  PROVE  LinkInv'
<1> USE LinkAssumption DEF LinkInv, PollFill, loadVars, producerVars
<1> PICK r \in Reqs : r = recv_req
  BY DEF RecvInv, LinkTypeOK
<1> PICK c \in Nat : c = get_req_chunk[r] - 1
  BY DEF RecvInv, LinkTypeOK
<1>0. r # NoReq /\ c + 1 = get_req_chunk[r]
  BY DEF LinkTypeOK
<1>1. held[r] = DataOf(c)
  BY DEF HeldInv, Unfilled
<1>2. held' = [held EXCEPT ![r] = DataOf(c + 1)]
  <2>1. CASE Generation
    <3>1. DataOf(c + 1) = <<c>>
      BY <2>1 DEF DataOf
    <3> QED
      BY <2>1, <3>1
  <2>2. CASE ~Generation
    <3>1. DataOf(c) = [i \in 1..c |-> i - 1] /\ DataOf(c + 1) = [i \in 1..(c + 1) |-> i - 1]
      BY <1>0, <2>2 DEF DataOf
    <3>2. Append(DataOf(c), c) = DataOf(c + 1)
      BY <1>0, <3>1
    <3> QED
      BY <1>1, <2>2, <3>2
  <2> QED
    BY <2>1, <2>2
<1>3. DataOf(c + 1) \in Seq(Nat)
  <2>1. CASE Generation
    BY <2>1 DEF DataOf
  <2>2. CASE ~Generation
    <3>1. \A i \in 1..(c + 1) : i - 1 \in Nat
      OBVIOUS
    <3>2. [i \in 1..(c + 1) |-> i - 1] \in Seq(Nat)
      BY <3>1
    <3> QED
      BY <2>2, <3>2 DEF DataOf
  <2> QED
    BY <2>1, <2>2
<1>4. LinkTypeOK'
  BY <1>2, <1>3 DEF LinkTypeOK
<1>5. SaveInv' /\ \A q \in Reqs : Handed(q)' = Handed(q)
  BY DEF SaveInv, Handed
<1>6. StoreInv'
  BY <1>5 DEF StoreInv
<1>7. RecvInv'
  BY DEF RecvInv, PolledIsRegistered
<1>8. HeldInv'
  <2> SUFFICES ASSUME NEW q \in Reqs
               PROVE  held'[q] = DataOf(IF Unfilled(q)' THEN get_req_chunk'[q] - 1
                                                        ELSE get_req_chunk'[q])
    BY DEF HeldInv
  <2>1. ~Unfilled(q)'
    BY DEF Unfilled
  <2>2. CASE q = r
    <3>1. held'[r] = DataOf(c + 1) /\ c + 1 = get_req_chunk[r]
      BY <1>0, <1>2 DEF LinkTypeOK
    <3> QED
      BY <2>1, <2>2, <3>1
  <2>3. CASE q # r
    <3>1. ~Unfilled(q) /\ held'[q] = held[q]
      BY <1>2, <2>3 DEF Unfilled, LinkTypeOK
    <3> QED
      BY <2>1, <3>1 DEF HeldInv
  <2> QED
    BY <2>2, <2>3
<1>9. FinishedIsDrained'
  BY DEF FinishedIsDrained
<1> QED
  BY <1>4, <1>5, <1>6, <1>7, <1>8, <1>9

(* The request is no longer registered and its chunk is complete.          *)
LEMMA PollPublishInv ==
  ASSUME LinkInv, PollPublish
  PROVE  LinkInv'
<1> USE LinkAssumption DEF LinkInv, PollPublish, producerVars
<1>1. LinkTypeOK'
  BY DEF LinkTypeOK, RecvInv
<1>2. SaveInv' /\ \A q \in Reqs : Handed(q)' = Handed(q)
  BY DEF SaveInv, Handed
<1>3. StoreInv'
  BY <1>2 DEF StoreInv
<1>4. RecvInv'
  BY DEF RecvInv, PolledIsRegistered
<1>5. HeldInv'
  <2>1. \A q \in Reqs : ~Unfilled(q)' /\ ~Unfilled(q)
    BY DEF Unfilled
  <2> QED
    BY <2>1 DEF HeldInv
<1>6. FinishedIsDrained'
  BY DEF FinishedIsDrained
<1> QED
  BY <1>1, <1>2, <1>3, <1>4, <1>5, <1>6

-----------------------------------------------------------------------------
(* LinkInv holds in every reachable state: one step per action.            *)
THEOREM LinkInvariant == LinkSafety => []LinkInv
<1>1. LinkInit => LinkInv
  BY InitInv
<1>2. LinkInv /\ [LinkNext]_linkVars => LinkInv'
  <2> SUFFICES ASSUME LinkInv, [LinkNext]_linkVars
               PROVE  LinkInv'
    OBVIOUS
  <2>1. ASSUME NEW r \in Reqs, SaveNothing(r) PROVE LinkInv'
    BY <2>1, SaveNothingInv
  <2>2. ASSUME NEW r \in Reqs, NEW last \in BOOLEAN, SaveAsync(r, last)
        PROVE  LinkInv'
    BY <2>2, SaveAsyncInv
  <2>3. CASE SaveTake
    BY <2>3, SaveTakeInv
  <2>4. CASE SaveSend
    BY <2>4, SaveSendInv
  <2>5. CASE (\E r \in Reqs : Ask(r)) \/ Collect \/ RecvSnapshot
               \/ (\E r \in Reqs : PollMiss(r))
    BY <2>5, RegisterInv
  <2>6. ASSUME NEW r \in Reqs, PollHit(r) PROVE LinkInv'
    BY <2>6, PollHitInv
  <2>7. CASE PollMark
    BY <2>7, PollMarkInv
  <2>8. CASE PollFill
    BY <2>8, PollFillInv
  <2>9. CASE PollPublish
    BY <2>9, PollPublishInv
  <2>10. CASE UNCHANGED linkVars
    <3> USE <2>10 DEF linkVars, producerVars, recvVars, loadVars, LinkInv
    <3>1. LinkTypeOK'
      BY DEF LinkTypeOK
    <3>2. SaveInv' /\ \A q \in Reqs : Handed(q)' = Handed(q)
      BY DEF SaveInv, Handed
    <3>3. StoreInv'
      BY <3>2 DEF StoreInv
    <3>4. RecvInv' /\ HeldInv' /\ FinishedIsDrained'
      BY DEF RecvInv, PolledIsRegistered, HeldInv, Unfilled, DataOf, FinishedIsDrained
    <3> QED
      BY <3>1, <3>2, <3>3, <3>4
  <2> QED
    BY <2>1, <2>2, <2>3, <2>4, <2>5, <2>6, <2>7, <2>8, <2>9, <2>10
    DEF LinkNext, Produce, SaveThread, RecvThread
<1> QED
  BY <1>1, <1>2, PTL DEF LinkSafety
-----------------------------------------------------------------------------
(* Where the chunks of one request are, by their index.                    *)
LEMMA WhereChunksAre ==
  ASSUME LinkInv, NEW r \in Reqs, NEW c \in Nat
  PROVE  /\ get_req_chunk[r] \in Nat /\ put_req_chunk[r] \in Nat
         /\ Handed(r) \in Nat
         /\ get_req_chunk[r] <= Handed(r) /\ Handed(r) <= put_req_chunk[r]
         /\ <<r, c>> \in store \union lost <=> get_req_chunk[r] <= c /\ c < Handed(r)
         /\ ~(<<r, c>> \in store /\ <<r, c>> \in lost)
         /\ save_task = <<r, c>> =>
              c = Handed(r) /\ c < put_req_chunk[r] /\ c \notin Queued(r)
         /\ Handed(r) <= c /\ c < put_req_chunk[r] =>
              c \in Queued(r) \/ save_task = <<r, c>>
         /\ c \in Queued(r) => Handed(r) <= c /\ c < put_req_chunk[r]
<1> DEFINE Q == pending_save_reqs[r]
           n == put_req_chunk[r]
<1>1. get_req_chunk[r] \in Nat /\ n \in Nat /\ Q \in Seq(Nat) /\ Len(Q) \in Nat
  BY DEF LinkInv, LinkTypeOK
<1>2. Handed(r) \in Nat /\ Handed(r) <= n
  BY <1>1 DEF LinkInv, SaveInv, Handed
<1>3. /\ get_req_chunk[r] <= Handed(r)
      /\ <<r, c>> \in store \union lost <=> get_req_chunk[r] <= c /\ c < Handed(r)
      /\ ~(<<r, c>> \in store /\ <<r, c>> \in lost)
  BY DEF LinkInv, StoreInv
<1>4. c \in Queued(r) <=> n - Len(Q) <= c /\ c < n
  <2>1. \A i \in 1..Len(Q) : Q[i] = n - Len(Q) + i - 1
    BY DEF LinkInv, SaveInv
  <2>2. Queued(r) = {Q[i] : i \in 1..Len(Q)}
    BY DEF Queued
  <2> HIDE DEF Q, n
  <2>3. ASSUME c \in Queued(r) PROVE n - Len(Q) <= c /\ c < n
    BY <1>1, <2>1, <2>2, <2>3
  <2>4. ASSUME n - Len(Q) <= c, c < n PROVE c \in Queued(r)
    <3>1. c - (n - Len(Q)) + 1 \in 1..Len(Q)
      BY <1>1, <2>4
    <3>2. Q[c - (n - Len(Q)) + 1] = c
      BY <1>1, <2>1, <3>1
    <3> QED
      BY <2>2, <3>1, <3>2
  <2> QED
    BY <2>3, <2>4
<1>5. /\ save_task = <<r, c>> => c = Handed(r) /\ Handed(r) = n - Len(Q) - 1
      /\ save_task[1] # r => Handed(r) = n - Len(Q)
      /\ save_task[1] = r => save_task = <<r, Handed(r)>> /\ Handed(r) = n - Len(Q) - 1
  <2>1. save_task[1] = r => save_task = <<r, save_task[2]>> /\ save_task[2] = Handed(r)
    BY TaskFacts, LinkAssumption DEF LinkInv, SaveInv
  <2> QED
    BY <1>1, <2>1 DEF Handed
<1> HIDE DEF Q, n
<1>6. /\ save_task = <<r, c>> => c < n /\ ~(n - Len(Q) <= c)
      /\ Handed(r) <= c /\ c < n => n - Len(Q) <= c \/ save_task = <<r, c>>
      /\ n - Len(Q) <= c => Handed(r) <= c
  BY <1>1, <1>2, <1>5
<1> QED
  BY <1>1, <1>2, <1>3, <1>4, <1>5, <1>6 DEF n

(* Each number below put_req_chunk is in one place.                        *)
LEMMA InvConservation == LinkInv => ChunkConservation
<1> SUFFICES ASSUME LinkInv, NEW r \in Reqs, NEW c \in Nat
             PROVE  IF c < put_req_chunk[r]
                    THEN \E p \in Places(r, c) : Places(r, c) = {p}
                    ELSE Places(r, c) = {}
  BY LinkAssumption DEF ChunkConservation
<1> DEFINE g == get_req_chunk[r]
           h == Handed(r)
           n == put_req_chunk[r]
<1>1. g \in Nat /\ n \in Nat /\ h \in Nat /\ g <= h /\ h <= n
  BY WhereChunksAre
<1>2. /\ <<r, c>> \in store \union lost <=> g <= c /\ c < h
      /\ ~(<<r, c>> \in store /\ <<r, c>> \in lost)
      /\ save_task = <<r, c>> => c = h /\ c < n /\ c \notin Queued(r)
      /\ h <= c /\ c < n => c \in Queued(r) \/ save_task = <<r, c>>
      /\ c \in Queued(r) => h <= c /\ c < n
  BY WhereChunksAre
<1> HIDE DEF h, n
<1>3. CASE c < g
  <2>1. c < n /\ c < h
    BY <1>1, <1>3
  <2>2. /\ c \notin Queued(r) /\ save_task # <<r, c>>
        /\ <<r, c>> \notin store /\ <<r, c>> \notin lost
    BY <1>1, <1>2, <1>3, <2>1
  <2>3. Places(r, c) = {"received"}
    BY <1>3, <2>2 DEF Places
  <2> QED
    BY <2>1, <2>3 DEF n
<1>4. CASE g <= c /\ c < h
  <2>1. c < n /\ ~(c < g) /\ c \notin Queued(r) /\ save_task # <<r, c>>
    BY <1>1, <1>2, <1>4
  <2>2. CASE <<r, c>> \in store
    <3>1. <<r, c>> \notin lost
      BY <1>2, <2>2
    <3>2. Places(r, c) = {"connector"}
      BY <2>1, <2>2, <3>1 DEF Places
    <3> QED
      BY <2>1, <3>2 DEF n
  <2>3. CASE <<r, c>> \in lost
    <3>1. <<r, c>> \notin store
      BY <1>2, <2>3
    <3>2. Places(r, c) = {"lost"}
      BY <2>1, <2>3, <3>1 DEF Places
    <3> QED
      BY <2>1, <3>2 DEF n
  <2> QED
    BY <1>2, <1>4, <2>2, <2>3
<1>5. CASE h <= c /\ c < n
  <2>1. ~(c < g) /\ <<r, c>> \notin store /\ <<r, c>> \notin lost
    BY <1>1, <1>2, <1>5
  <2>2. CASE save_task = <<r, c>>
    <3>1. Places(r, c) = {"save thread"}
      BY <1>2, <2>1, <2>2 DEF Places
    <3> QED
      BY <1>5, <3>1 DEF n
  <2>3. CASE save_task # <<r, c>>
    <3>1. Places(r, c) = {"queue"}
      BY <1>2, <1>5, <2>1, <2>3 DEF Places
    <3> QED
      BY <1>5, <3>1 DEF n
  <2> QED
    BY <2>2, <2>3
<1>6. CASE ~(c < n)
  <2>1. /\ ~(c < g) /\ <<r, c>> \notin store /\ <<r, c>> \notin lost
        /\ c \notin Queued(r) /\ save_task # <<r, c>>
    BY <1>1, <1>2, <1>6
  <2>2. Places(r, c) = {}
    BY <2>1 DEF Places
  <2> QED
    BY <1>6, <2>2 DEF n
<1> QED
  BY <1>1, <1>3, <1>4, <1>5, <1>6

-----------------------------------------------------------------------------
(* Every variable of the adapter's two ends keeps its type.                *)
THEOREM TypeCorrect == LinkSafety => []LinkTypeOK
BY LinkInvariant, PTL DEF LinkInv

(* No chunk is dropped or duplicated between save_async and the receive    *)
(* thread, whatever the interleaving of the threads.                       *)
THEOREM Conservation == LinkSafety => []ChunkConservation
<1>1. LinkInv => ChunkConservation
  BY InvConservation
<1> QED
  BY <1>1, LinkInvariant, PTL

(* The data on the request is the data of the chunks received, in order.   *)
THEOREM DataInOrder == LinkSafety => []HeldIsReceived
<1>1. LinkInv => HeldIsReceived
  BY DEF LinkInv, HeldInv, HeldIsReceived, DataOf, Unfilled, LinkTypeOK
<1> QED
  BY <1>1, LinkInvariant, PTL

(* Together: each chunk is in one place, and what arrived is carried in    *)
(* order.                                                                  *)
THEOREM StreamStaysIntact == LinkSafety => []StreamIntact
BY Conservation, DataInOrder, PTL DEF StreamIntact

(* A request is marked as finished only when its stream is used up.        *)
THEOREM FinishedLast == LinkSafety => []FinishedIsDrained
<1>1. LinkInv => FinishedIsDrained
  BY DEF LinkInv
<1> QED
  BY <1>1, LinkInvariant, PTL

(* The receive thread never looks up a request that is not registered.     *)
THEOREM NoKeyError == LinkSafety => []PolledIsRegistered
<1>1. LinkInv => PolledIsRegistered
  BY DEF LinkInv, RecvInv
<1> QED
  BY <1>1, LinkInvariant, PTL

-----------------------------------------------------------------------------
(* The refinement: the threads' own steps stutter, publishing delivers.    *)
LEMMA AbstractFunctions ==
  ASSUME LinkTypeOK
  PROVE  \A r \in Reqs : Delivered(r) = IF recv_req = r THEN get_req_chunk[r] - 1
                                                        ELSE get_req_chunk[r]
BY DEF Delivered, LinkTypeOK

(* Every step of the link is a step of the channel or leaves it as it is.  *)
THEOREM RefinesChannel == LinkSafety => Channel!Safety
<1>1. LinkInit => Channel!Init
  <2> SUFFICES ASSUME LinkInit PROVE Channel!Init
    OBVIOUS
  <2>1. \A r \in Reqs : Delivered(r) = 0
    BY LinkAssumption DEF LinkInit, Delivered
  <2>2. [r \in Reqs |-> Delivered(r)] = [r \in Reqs |-> 0]
    BY <2>1
  <2> QED
    BY <2>2 DEF LinkInit, Channel!Init
<1>2. LinkInv /\ LinkInv' /\ [LinkNext]_linkVars => [Channel!Next]_(Channel!vars)
  <2> SUFFICES ASSUME LinkInv, LinkInv', [LinkNext]_linkVars
               PROVE  Channel!Next \/ UNCHANGED Channel!vars
    OBVIOUS
  <2> USE DEF loadVars, recvVars, producerVars
  <2>0. /\ put_req_chunk \in [Reqs -> Nat] /\ get_req_chunk \in [Reqs -> Nat]
        /\ producer \in [Reqs -> {"running", "finished", "silent"}]
        /\ pending_load_reqs \subseteq Reqs
    BY DEF LinkInv, LinkTypeOK
  <2>1. ASSUME NEW r \in Reqs, SaveNothing(r)
        PROVE  Channel!Close(r)
    BY <2>0, <2>1 DEF SaveNothing, Channel!Close, Delivered
  <2>2. ASSUME NEW r \in Reqs, NEW last \in BOOLEAN, SaveAsync(r, last)
        PROVE  Channel!Send(r)
    BY <2>0, <2>2 DEF SaveAsync, Channel!Send, Delivered
  <2>3. CASE SaveTake
    BY <2>3 DEF SaveTake, Channel!vars, Delivered
  <2>4. CASE SaveSend
    <3>1. CASE store' = store \union {save_task} /\ UNCHANGED lost
      BY <2>4, <3>1 DEF SaveSend, Channel!vars, Delivered
    <3>2. CASE lost' = lost \union {save_task} /\ UNCHANGED store
      <4>1. PICK r \in Reqs, c \in Nat : save_task = <<r, c>>
        BY <2>4, TaskFacts DEF SaveSend, LinkInv
      <4>2. Delivered(r) <= c /\ c < put_req_chunk[r] /\ <<r, c>> \notin lost
            /\ Delivered(r) \in Int
        BY <2>0, <4>1, WhereChunksAre DEF Delivered
      <4>3. Channel!Lose(r)
        <5>1. /\ c \in Delivered(r)..(put_req_chunk[r] - 1)
              /\ [q \in Reqs |-> Delivered(q)][r] = Delivered(r)
          BY <2>0, <4>2
        <5>2. lost' = lost \union {<<r, c>>}
          BY <3>2, <4>1
        <5>3. UNCHANGED <<put_req_chunk, producer, pending_load_reqs, get_req_chunk, recv_req>>
          BY <2>4 DEF SaveSend
        <5> QED
          BY <4>2, <5>1, <5>2, <5>3 DEF Channel!Lose, Delivered
      <4> QED
        BY <4>3 DEF Channel!Next
    <3> QED
      BY <2>4, <3>1, <3>2 DEF SaveSend
  <2>5. ASSUME NEW r \in Reqs, Ask(r)
        PROVE  Channel!Ask(r)
    <3>2. UNCHANGED <<put_req_chunk, producer, lost, get_req_chunk, recv_req>>
      BY <2>5 DEF Ask
    <3> QED
      BY <2>5, <3>2 DEF Ask, LoadAsync, Channel!Ask, Delivered
  <2>6. ASSUME Collect \/ RecvSnapshot \/ PollMark \/ PollFill \/ \E r \in Reqs : PollMiss(r)
        PROVE  UNCHANGED Channel!vars
    <3>1. UNCHANGED <<put_req_chunk, producer, lost, pending_load_reqs, get_req_chunk,
                      recv_req>>
      BY <2>6 DEF Collect, GetFinishedRequests, RecvSnapshot, PollMark, PollFill, PollMiss
    <3> QED
      BY <3>1 DEF Channel!vars, Delivered
  <2>7. ASSUME NEW r \in Reqs, PollHit(r)
        PROVE  UNCHANGED Channel!vars
    <3>1. \A q \in Reqs : Delivered(q)' = Delivered(q)
      BY <2>0, <2>7, LinkAssumption DEF PollHit, Delivered, LinkInv, RecvInv
    <3> QED
      BY <2>7, <3>1 DEF PollHit, Channel!vars
  <2>8. CASE PollPublish
    <3>1. PICK r \in Reqs : r = recv_req
      BY <2>8 DEF PollPublish, LinkInv, RecvInv, LinkTypeOK
    <3>2. /\ Delivered(r) = get_req_chunk[r] - 1 /\ Delivered(r)' = Delivered(r) + 1
          /\ \A q \in Reqs \ {r} : Delivered(q)' = Delivered(q)
      BY <2>0, <2>8, <3>1, LinkAssumption DEF PollPublish, Delivered
    <3>3. r \in pending_load_reqs
      BY <2>8, <3>1 DEF PollPublish, LinkInv, RecvInv, PolledIsRegistered
    <3>4. Delivered(r) \in Nat /\ Delivered(r) < get_req_chunk[r]
      BY <2>0, <2>8, <3>1, <3>2 DEF PollPublish, LinkInv, RecvInv
    <3>5. Delivered(r) < put_req_chunk[r] /\ <<r, Delivered(r)>> \notin lost
      BY <2>0, <3>4, WhereChunksAre
    <3>6. Channel!Deliver(r)
      <4>1. pending_load_reqs' = pending_load_reqs \ {r}
        BY <2>8, <3>1 DEF PollPublish
      <4>2. /\ [q \in Reqs |-> Delivered(q)][r] = Delivered(r)
            /\ [q \in Reqs |-> Delivered(q)'] =
                 [[q \in Reqs |-> Delivered(q)] EXCEPT ![r] = @ + 1]
        BY <3>2
      <4>3. UNCHANGED <<put_req_chunk, producer, lost>>
        BY <2>8 DEF PollPublish
      <4> QED
        BY <3>3, <3>5, <4>1, <4>2, <4>3 DEF Channel!Deliver
    <3> QED
      BY <3>6 DEF Channel!Next
  <2>9. CASE UNCHANGED linkVars
    BY <2>9 DEF linkVars, Channel!vars, Delivered
  <2> QED
    BY <2>1, <2>2, <2>3, <2>4, <2>5, <2>6, <2>7, <2>8, <2>9
    DEF LinkNext, Produce, SaveThread, RecvThread, Channel!Next
<1> QED
  BY <1>1, <1>2, LinkInvariant, PTL DEF LinkSafety, Channel!Safety

-----------------------------------------------------------------------------
(* ChunkGeneration.                                                        *)

(* Requests that wait for a chunk in a deque; those in the queues.         *)
Parked == Elements(waiting_for_chunk_waiting_requests) \cup Elements(waiting_for_chunk_running_requests)
InQueues == Elements(waiting) \cup Elements(running)

(* Nothing is on its way to the connector.                                 *)
NothingSaved ==
  /\ pending_save_reqs = [r \in Reqs |-> <<>>]
  /\ save_task = NoTask /\ lost = {}

(* The queues and deques hold requests once, and every live one.           *)
QueuesInv ==
  /\ Distinct(waiting) /\ Distinct(running)
  /\ Distinct(waiting_for_chunk_waiting_requests) /\ Distinct(waiting_for_chunk_running_requests)
  /\ Elements(waiting) \cap Elements(running) = {} /\ InQueues \cap Parked = {}
  /\ Elements(waiting_for_chunk_waiting_requests) \cap Elements(waiting_for_chunk_running_requests) = {}
  /\ requests \subseteq InQueues \cup Parked

(* What the phases of an engine step leave empty, and what is visited.     *)
PhaseInv ==
  /\ engine_pc \in {"idle", "update"} => Parked = {}
  /\ engine_pc \in {"idle", "schedule", "update"} => snapshot = <<>>
  /\ engine_pc # "update" => batch = <<>>
  /\ Distinct(snapshot)
  /\ engine_pc = "waiting" => Elements(snapshot) \subseteq Elements(waiting)
  /\ engine_pc = "running" => Elements(snapshot) \subseteq Elements(running)
  /\ marking # NoReq => /\ snapshot # <<>> /\ marking = Head(snapshot)
                        /\ marking \in pending_load_reqs \cup finished_load_reqs

(* A request that was not added has left no trace.                         *)
NewInv ==
  /\ \A r \in Reqs : status[r] = "NEW" =>
       /\ r \notin requests \cup InQueues \cup Parked
       /\ r \notin pending_load_reqs \cup finished_load_reqs \cup loaded
       /\ r \notin requests_with_ready_chunks \cup finished_requests
       /\ get_req_chunk[r] = 0 /\ num_computed_tokens[r] = 0 /\ emitted[r] = <<>>
  /\ \A r \in finished_requests : get_req_chunk[r] > 0

(* The requests process_pending_chunks has yet to visit, and those it has  *)
(* visited and left in their queue.                                        *)
ToVisit == Elements(snapshot) \cup (IF engine_pc = "waiting" THEN Elements(running) ELSE {})
KeptInQueue == IF engine_pc \in {"waiting", "running", "schedule"} THEN InQueues \ ToVisit ELSE {}

(* A request whose chunk was asked for, has arrived or was collected waits *)
(* for it or is about to; one with a chunk to use does not.                *)
StatusOf(r) ==
  /\ status[r] \in {"WAITING", "RUNNING", "WAITING_FOR_CHUNK", "FINISHED_STOPPED"}
  /\ status[r] = "FINISHED_STOPPED" => r \in finished_requests
  /\ r \in pending_load_reqs \cup finished_load_reqs \cup (loaded \cap ToVisit) =>
       status[r] \in {"WAITING_FOR_CHUNK", "FINISHED_STOPPED"} \/ marking = r
  /\ r \in requests_with_ready_chunks => status[r] # "WAITING_FOR_CHUNK" /\ marking # r
  /\ r \in KeptInQueue => status[r] # "WAITING_FOR_CHUNK" /\ HasChunk(r)

(* A chunk of a request is in one of these places.                         *)
ApartOf(r) ==
  /\ r \in pending_load_reqs => r \notin finished_load_reqs \cup (loaded \cap ToVisit)
  /\ r \in finished_load_reqs => r \notin loaded \cap ToVisit
  /\ r \in requests_with_ready_chunks =>
       r \notin pending_load_reqs \cup finished_load_reqs \cup (loaded \cap ToVisit)

(* The batch has steps of live requests, one each, that use no chunk which *)
(* is still awaited, unless it is the final one.                           *)
BatchInv ==
  /\ \A i \in DOMAIN batch :
       /\ batch[i].req \in requests
       /\ batch[i].req \in pending_load_reqs => batch[i].req \in finished_requests
  /\ \A i, j \in DOMAIN batch : batch[i].req = batch[j].req => i = j

LiveInv == \A r \in requests : StatusOf(r) /\ ApartOf(r)

GenerationInv ==
  /\ LinkInv /\ NothingSaved /\ TypeOK
  /\ QueuesInv /\ PhaseInv /\ NewInv /\ LiveInv /\ BatchInv

(* A step that feeds a part of a prompt, and one that feeds all of it.     *)
Feeds(r) == \E i \in DOMAIN batch : batch[i].req = r /\ batch[i].from < ChunkTokens
Whole(r, c) == [req |-> r, chunk |-> <<c>>, from |-> 0, tokens |-> ChunkTokens]

(* Outputs of a request's steps are not passed over.                       *)
Emits(r) == status[r] # "FINISHED_STOPPED" \/ marking = r
Arrived(r) == r \in finished_load_reqs \cup (loaded \cap ToVisit) \cup requests_with_ready_chunks

(* How far a request is: it waits for its next chunk, it has one to use,   *)
(* or it has used or is using all it got.                                  *)
ProgressOf(r) ==
  /\ r \in pending_load_reqs =>
       /\ Len(emitted[r]) = Delivered(r)
       /\ Emits(r) /\ recv_req = r /\ recv_pc = "publish" => num_computed_tokens[r] = 0
  /\ Emits(r) /\ Arrived(r) =>
       /\ Len(emitted[r]) + 1 = get_req_chunk[r] /\ num_computed_tokens[r] = 0
       /\ \A i \in DOMAIN batch : batch[i].req # r
  /\ Emits(r) /\ ~Arrived(r) /\ r \notin pending_load_reqs =>
       /\ IF Feeds(r) THEN get_req_chunk[r] = Len(emitted[r]) + 1
          ELSE /\ get_req_chunk[r] <= Len(emitted[r])
               /\ get_req_chunk[r] = Len(emitted[r]) \/ r \in finished_requests
       /\ get_req_chunk[r] = 0 \/ num_computed_tokens[r] = ChunkTokens
  /\ \A i \in DOMAIN batch :
       batch[i].req = r /\ status[r] # "FINISHED_STOPPED" =>
         /\ r \notin pending_load_reqs
         /\ \/ batch[i].from = ChunkTokens /\ r \in finished_requests
            \/ batch[i] = Whole(r, Len(emitted[r]))

ProgressInv == \A r \in requests : ProgressOf(r)

(* The outputs of a request: one for each chunk it used, and beyond those  *)
(* only repeats, if the final mark was overwritten.                        *)
SentOf(r) ==
  \A i \in DOMAIN emitted[r] :
    IF i <= get_req_chunk[r] THEN emitted[r][i] = Whole(r, i - 1)
    ELSE /\ emitted[r][i].from = ChunkTokens
         /\ r \in finished_requests /\ r \notin pending_load_reqs
         /\ status[r] # "FINISHED_STOPPED"

SentInv == \A r \in Reqs : SentOf(r) /\ put_req_chunk[r] <= MaxChunks

-----------------------------------------------------------------------------
(* The link under the generation scheduler: its inductive invariant.       *)

(* What the engine thread does to its own state.                           *)
LEMMA LinkUnchanged ==
  ASSUME LinkInv, UNCHANGED linkVars
  PROVE  LinkInv'
<1> USE DEF linkVars, producerVars, recvVars, loadVars, LinkInv
<1>1. LinkTypeOK'
  BY DEF LinkTypeOK
<1>2. SaveInv' /\ \A q \in Reqs : Handed(q)' = Handed(q)
  BY DEF SaveInv, Handed
<1>3. StoreInv'
  BY <1>2 DEF StoreInv
<1>4. RecvInv' /\ HeldInv' /\ FinishedIsDrained'
  BY DEF RecvInv, PolledIsRegistered, HeldInv, Unfilled, DataOf, FinishedIsDrained
<1> QED
  BY <1>1, <1>2, <1>3, <1>4

(* load_async and get_finished_requests, whatever was asked for before.    *)
LEMMA LoadInv ==
  ASSUME LinkInv, NEW r \in Reqs,
         \/ LoadAsync(r) /\ UNCHANGED finished_load_reqs
         \/ GetFinishedRequests /\ UNCHANGED pending_load_reqs,
         UNCHANGED <<producerVars, save_task, store, lost, recvVars>>
  PROVE  LinkInv'
<1> USE DEF LinkInv, LoadAsync, GetFinishedRequests, recvVars, producerVars
<1>1. LinkTypeOK'
  BY DEF LinkTypeOK
<1>2. SaveInv' /\ \A q \in Reqs : Handed(q)' = Handed(q)
  <2>1. UNCHANGED <<put_req_chunk, pending_save_reqs, save_task>>
    OBVIOUS
  <2> HIDE DEF LoadAsync, GetFinishedRequests, LinkInv
  <2> QED BY <2>1 DEF LinkInv, SaveInv, Handed
<1>3. StoreInv'
  BY <1>2 DEF StoreInv
<1>4. RecvInv'
  BY DEF RecvInv, PolledIsRegistered, LinkTypeOK
<1>5. HeldInv'
  BY DEF HeldInv, DataOf, Unfilled
<1>6. FinishedIsDrained'
  BY DEF FinishedIsDrained
<1> QED
  BY <1>1, <1>2, <1>3, <1>4, <1>5, <1>6

(* A chunk that is made and put at once is behind the save thread.         *)
LEMMA ArriveInv ==
  ASSUME LinkInv, NothingSaved, NEW r \in Reqs, NEW last \in BOOLEAN, Arrive(r, last)
  PROVE  LinkInv'
<1> USE LinkAssumption DEF LinkInv, Arrive, loadVars, recvVars
<1> DEFINE n == put_req_chunk[r]
<1>0. n \in Nat /\ \A q \in Reqs : put_req_chunk[q] \in Nat /\ get_req_chunk[q] \in Nat
  BY DEF LinkTypeOK
<1>1. LinkTypeOK'
  <2>1. put_req_chunk' \in [Reqs -> Nat]
    BY DEF LinkTypeOK
  <2>2. producer' \in [Reqs -> {"running", "finished", "silent"}]
    BY DEF LinkTypeOK
  <2>3. store' \subseteq Chunk
    BY <1>0 DEF LinkTypeOK, Chunk
  <2> QED
    BY <2>1, <2>2, <2>3 DEF LinkTypeOK
<1>2. \A q \in Reqs : Len(pending_save_reqs[q]) = 0 /\ save_task[1] # q
  BY DEF NothingSaved, NoTask
<1>3. \A q \in Reqs : Handed(q) = put_req_chunk[q]
  BY <1>0, <1>2 DEF Handed
<1>4. \A q \in Reqs : put_req_chunk'[q] = IF q = r THEN n + 1 ELSE put_req_chunk[q]
  BY DEF LinkTypeOK
<1>5. \A q \in Reqs : Handed(q)' = put_req_chunk'[q]
  <2>1. UNCHANGED <<pending_save_reqs, save_task>>
    OBVIOUS
  <2>2. \A q \in Reqs : put_req_chunk'[q] \in Int
    BY <1>0, <1>4
  <2> HIDE DEF Arrive
  <2> QED
    BY <1>2, <2>1, <2>2 DEF Handed
<1>6. SaveInv'
  <2>1. \A q \in Reqs : put_req_chunk'[q] >= 0
    BY <1>0, <1>4
  <2> QED
    BY <1>2, <1>5, <2>1 DEF SaveInv
<1>7. StoreInv'
  <2>1. lost' = {} /\ lost = {} /\ store' = store \union {<<r, n>>}
    BY DEF NothingSaved
  <2>2. ASSUME NEW q \in Reqs, NEW d \in Nat
        PROVE  /\ get_req_chunk'[q] <= Handed(q)'
               /\ <<q, d>> \in (store \union lost)' <=>
                    get_req_chunk'[q] <= d /\ d < Handed(q)'
    <3>1. get_req_chunk[q] \in Nat /\ get_req_chunk[q] <= put_req_chunk[q]
      BY <1>3, <1>0 DEF StoreInv
    <3>2. <<q, d>> \in (store \union lost)' <=>
            (<<q, d>> \in store \union lost \/ (q = r /\ d = n))
      BY <2>1
    <3>3. <<q, d>> \in store \union lost <=> get_req_chunk[q] <= d /\ d < put_req_chunk[q]
      BY <1>3 DEF StoreInv
    <3>4. get_req_chunk'[q] = get_req_chunk[q]
      OBVIOUS
    <3>5. Handed(q)' = IF q = r THEN n + 1 ELSE put_req_chunk[q]
      BY <1>4, <1>5
    <3> HIDE DEF LinkInv, Arrive
    <3> QED
      BY <1>0, <3>1, <3>2, <3>3, <3>4, <3>5
  <2> QED
    BY <2>1, <2>2 DEF StoreInv
<1>8. RecvInv'
  BY DEF RecvInv, PolledIsRegistered
<1>9. HeldInv'
  BY DEF HeldInv, DataOf, Unfilled
<1>10. FinishedIsDrained'
  <2>1. r \notin finished_requests
    BY DEF FinishedIsDrained
  <2>2. \A q \in finished_requests : q \in Reqs /\ q # r
    BY <2>1 DEF LinkTypeOK
  <2>3. \A q \in Reqs : q # r => producer'[q] = producer[q]
    BY DEF LinkTypeOK
  <2> QED
    BY <1>4, <2>2, <2>3 DEF FinishedIsDrained
<1> QED
  BY <1>1, <1>6, <1>7, <1>8, <1>9, <1>10

-----------------------------------------------------------------------------
(* The receive thread and the connector under the scheduler.               *)

(* The request whose payload the receive thread holds is registered, was   *)
(* counted, and so is not a new one; those it scans are registered too.    *)
LEMMA PolledFacts ==
  ASSUME GenerationInv
  PROVE  /\ recv_scan \subseteq pending_load_reqs
         /\ recv_pc # "scan" =>
              /\ recv_req \in Reqs \cap pending_load_reqs
              /\ get_req_chunk[recv_req] > 0 /\ status[recv_req] # "NEW"
<1> USE DEF GenerationInv, LinkInv
<1>1. /\ recv_scan \subseteq pending_load_reqs /\ pending_load_reqs \subseteq Reqs
      /\ recv_pc # "scan" => recv_req # NoReq /\ recv_req \in pending_load_reqs
      /\ recv_req # NoReq => get_req_chunk[recv_req] > 0
  BY DEF RecvInv, PolledIsRegistered, LinkTypeOK
<1>2. \A q \in pending_load_reqs : status[q] # "NEW"
  BY <1>1 DEF NewInv
<1> QED
  BY <1>1, <1>2

(* The queues, the phase and the places of the chunks are the engine's.    *)
LEMMA SameEngine ==
  ASSUME QueuesInv, PhaseInv, LiveInv, BatchInv,
         UNCHANGED <<requests, status, queueVars, requests_with_ready_chunks, loaded,
                     snapshot, marking, engine_pc, batch, loadVars, finished_requests>>
  PROVE  QueuesInv' /\ PhaseInv' /\ LiveInv' /\ BatchInv'
<1> USE DEF queueVars, loadVars
<1>1. /\ Parked' = Parked /\ InQueues' = InQueues /\ ToVisit' = ToVisit
      /\ KeptInQueue' = KeptInQueue
  BY DEF Parked, InQueues, ToVisit, KeptInQueue
<1>2. QueuesInv' /\ PhaseInv'
  BY <1>1 DEF QueuesInv, PhaseInv
<1>3. \A r : (StatusOf(r) <=> StatusOf(r)') /\ (ApartOf(r) <=> ApartOf(r)')
  BY <1>1 DEF StatusOf, ApartOf, HasChunk
<1>4. LiveInv' /\ BatchInv'
  BY <1>3 DEF LiveInv, BatchInv
<1> QED
  BY <1>2, <1>4

(* A pass over the registered requests, and a request without or with a    *)
(* payload.                                                                *)
LEMMA PollGen ==
  ASSUME GenerationInv, UNCHANGED engineVars,
         RecvSnapshot \/ \E r \in Reqs : PollMiss(r) \/ PollHit(r)
  PROVE  GenerationInv'
<1>1. LinkInv'
  BY RegisterInv, PollHitInv DEF GenerationInv
<1> USE DEF engineVars
<1>2. /\ UNCHANGED <<pending_save_reqs, save_task, lost, loadVars, finished_requests>>
      /\ \A q \in Reqs : get_req_chunk'[q] = get_req_chunk[q]
                         \/ (q \in pending_load_reqs /\ get_req_chunk'[q] > 0)
  <2>1. get_req_chunk \in [Reqs -> Nat] /\ recv_scan \subseteq pending_load_reqs
    BY PolledFacts DEF GenerationInv, LinkInv, LinkTypeOK
  <2>2. UNCHANGED <<pending_save_reqs, save_task, lost, loadVars, finished_requests>>
    BY DEF RecvSnapshot, PollMiss, PollHit, producerVars
  <2>3. ASSUME NEW r \in Reqs, PollHit(r), NEW q \in Reqs
        PROVE  get_req_chunk'[q] = get_req_chunk[q]
               \/ (q \in pending_load_reqs /\ get_req_chunk'[q] > 0)
    <3>1. get_req_chunk' = [get_req_chunk EXCEPT ![r] = @ + 1] /\ r \in pending_load_reqs
      BY <2>1, <2>3 DEF PollHit
    <3> QED
      BY ONLY <2>1, <3>1
  <2> QED
    BY <2>2, <2>3 DEF RecvSnapshot, PollMiss
<1>3. NothingSaved' /\ TypeOK'
  BY <1>1, <1>2 DEF GenerationInv, LinkInv, NothingSaved, TypeOK, queueVars
<1>4. QueuesInv' /\ PhaseInv' /\ LiveInv' /\ BatchInv'
  BY <1>2, SameEngine DEF GenerationInv
<1>5. NewInv'
  <2>1. finished_requests \subseteq Reqs
    BY DEF GenerationInv, LinkInv, LinkTypeOK
  <2> QED
    BY <1>2, <2>1 DEF GenerationInv, NewInv, InQueues, Parked, queueVars, loadVars
<1> QED
  BY <1>1, <1>3, <1>4, <1>5 DEF GenerationInv

(* The producing stage makes a chunk.                                      *)
LEMMA ArriveGen ==
  ASSUME GenerationInv, NEW r \in Reqs, NEW last \in BOOLEAN, Arrive(r, last)
  PROVE  GenerationInv'
<1>1. LinkInv'
  BY ArriveInv DEF GenerationInv
<1>2. UNCHANGED <<pending_save_reqs, save_task, lost, recvVars, loadVars, engineVars>>
  BY DEF Arrive
<1> USE <1>2 DEF engineVars, recvVars
<1>3. NothingSaved' /\ TypeOK'
  BY <1>1 DEF GenerationInv, LinkInv, NothingSaved, TypeOK, queueVars
<1>4. QueuesInv' /\ PhaseInv' /\ LiveInv' /\ BatchInv'
  BY SameEngine DEF GenerationInv
<1>5. NewInv'
  BY DEF GenerationInv, NewInv, InQueues, Parked, queueVars, loadVars
<1> QED
  BY <1>1, <1>3, <1>4, <1>5 DEF GenerationInv

(* The final chunk's mark goes to a registered request.                    *)
LEMMA MarkStatusGen ==
  ASSUME GenerationInv, MarkStatus
  PROVE  GenerationInv'
<1>1. LinkInv'
  BY PollMarkInv DEF GenerationInv, MarkStatus
<1> DEFINE r == recv_req
<1>2. /\ r \in Reqs /\ r \in pending_load_reqs /\ get_req_chunk[r] > 0 /\ status[r] # "NEW"
  BY PolledFacts DEF MarkStatus, PollMark
<1>3. /\ UNCHANGED <<pending_save_reqs, save_task, lost, loadVars, get_req_chunk>>
      /\ \/ UNCHANGED <<finished_requests, status>>
         \/ /\ finished_requests' = finished_requests \cup {r}
            /\ status' = [status EXCEPT ![r] = "FINISHED_STOPPED"]
  BY DEF MarkStatus, PollMark, producerVars
<1>4. UNCHANGED <<requests, num_computed_tokens, queueVars, requests_with_ready_chunks,
                  loaded, snapshot, marking, engine_pc, batch, emitted, aborted>>
  BY DEF MarkStatus
<1> HIDE DEF r
<1>5. NothingSaved' /\ TypeOK'
  <2>1. status' \in [Reqs -> {"NEW", "WAITING", "RUNNING", "WAITING_FOR_CHUNK"} \union Finished]
    BY <1>3 DEF GenerationInv, TypeOK, Finished
  <2> QED
    BY <1>1, <1>3, <1>4, <2>1 DEF GenerationInv, LinkInv, NothingSaved, TypeOK, queueVars
<1> USE <1>4 DEF queueVars, loadVars
<1>6. /\ Parked' = Parked /\ InQueues' = InQueues /\ ToVisit' = ToVisit
      /\ KeptInQueue' = KeptInQueue
  BY DEF Parked, InQueues, ToVisit, KeptInQueue
<1>7. QueuesInv' /\ PhaseInv'
  BY <1>3, <1>6 DEF GenerationInv, QueuesInv, PhaseInv
<1>8. status \in [Reqs -> {"NEW", "WAITING", "RUNNING", "WAITING_FOR_CHUNK"} \union Finished]
      /\ requests \subseteq Reqs
  BY DEF GenerationInv, TypeOK
<1>9. NewInv'
  BY <1>2, <1>3, <1>6, <1>8 DEF GenerationInv, NewInv, Finished
<1>10. ASSUME NEW q \in requests PROVE StatusOf(q)' /\ ApartOf(q)'
  <2>1. StatusOf(q) /\ ApartOf(q) /\ q \in Reqs
    BY <1>8 DEF GenerationInv, LiveInv
  <2>2. q = r \/ status'[q] = status[q]
    BY <1>3, <1>8, <2>1
  <2>3. q = r => status'[q] = status[q] \/ (status'[q] = "FINISHED_STOPPED" /\ q \in finished_requests')
    BY <1>2, <1>3, <1>8
  <2>4. finished_requests \subseteq finished_requests'
    BY <1>3
  <2>5. ApartOf(q)'
    BY <1>3, <1>6, <2>1 DEF ApartOf
  <2>6. StatusOf(q)'
    BY <1>3, <1>6, <2>1, <2>2, <2>3, <2>4 DEF StatusOf, HasChunk
  <2> QED
    BY <2>5, <2>6
<1>11. LiveInv' /\ BatchInv'
  BY <1>3, <1>10 DEF GenerationInv, LiveInv, BatchInv
<1> QED
  BY <1>1, <1>5, <1>7, <1>9, <1>11 DEF GenerationInv

(* The new prompt starts at its first token.                               *)
LEMMA FillPromptGen ==
  ASSUME GenerationInv, FillPrompt
  PROVE  GenerationInv'
<1>1. LinkInv'
  BY PollFillInv DEF GenerationInv, FillPrompt
<1>2. /\ UNCHANGED <<pending_save_reqs, save_task, lost, loadVars, get_req_chunk, finished_requests>>
      /\ UNCHANGED <<requests, status, queueVars, requests_with_ready_chunks, loaded,
                     snapshot, marking, engine_pc, batch, emitted, aborted>>
      /\ num_computed_tokens' = [num_computed_tokens EXCEPT ![recv_req] = 0]
  BY DEF FillPrompt, PollFill, producerVars
<1>3. NothingSaved' /\ TypeOK'
  <2>1. num_computed_tokens' \in [Reqs -> 0..ChunkTokens]
    <3>1. 0 \in 0..ChunkTokens
      BY GenerationAssumption
    <3> QED
      BY <1>2, <3>1 DEF GenerationInv, TypeOK
  <2> QED
    BY <1>1, <1>2, <2>1 DEF GenerationInv, LinkInv, NothingSaved, TypeOK, queueVars
<1>4. QueuesInv' /\ PhaseInv' /\ LiveInv' /\ BatchInv'
  BY <1>2, SameEngine DEF GenerationInv
<1>5. NewInv'
  <2>1. \A q \in Reqs : num_computed_tokens[q] = 0 => num_computed_tokens'[q] = 0
    BY <1>2 DEF GenerationInv, TypeOK
  <2> QED
    BY <1>2, <2>1 DEF GenerationInv, NewInv, InQueues, Parked, queueVars, loadVars
<1> QED
  BY <1>1, <1>3, <1>4, <1>5 DEF GenerationInv

(* The chunk goes from the receive thread to the loaded ones.              *)
LEMMA PublishGen ==
  ASSUME GenerationInv, PollPublish, UNCHANGED engineVars
  PROVE  GenerationInv'
<1>1. LinkInv'
  BY PollPublishInv DEF GenerationInv
<1>2. recv_req \in Reqs /\ recv_req \in pending_load_reqs /\ status[recv_req] # "NEW"
  BY PolledFacts DEF PollPublish
<1>3. /\ UNCHANGED <<pending_save_reqs, save_task, lost, get_req_chunk, finished_requests>>
      /\ finished_load_reqs' = finished_load_reqs \cup {recv_req}
      /\ pending_load_reqs' = pending_load_reqs \ {recv_req}
  BY DEF PollPublish, producerVars
<1> USE DEF engineVars, queueVars
<1>4. NothingSaved' /\ TypeOK'
  BY <1>1, <1>3 DEF GenerationInv, LinkInv, NothingSaved, TypeOK
<1>5. /\ Parked' = Parked /\ InQueues' = InQueues /\ ToVisit' = ToVisit
      /\ KeptInQueue' = KeptInQueue
  BY DEF Parked, InQueues, ToVisit, KeptInQueue
<1>6. QueuesInv' /\ PhaseInv'
  BY <1>3, <1>5 DEF GenerationInv, QueuesInv, PhaseInv
<1>7. NewInv'
  BY <1>2, <1>3, <1>5 DEF GenerationInv, NewInv
<1>8. ASSUME NEW q \in requests PROVE StatusOf(q)' /\ ApartOf(q)'
  <2>1. StatusOf(q) /\ ApartOf(q)
    BY DEF GenerationInv, LiveInv
  <2>2. ApartOf(q)'
    BY <1>2, <1>3, <1>5, <2>1 DEF ApartOf
  <2>3. StatusOf(q)'
    BY <1>2, <1>3, <1>5, <2>1 DEF StatusOf, HasChunk
  <2> QED
    BY <2>2, <2>3
<1>9. LiveInv' /\ BatchInv'
  BY <1>3, <1>8 DEF GenerationInv, LiveInv, BatchInv
<1> QED
  BY <1>1, <1>4, <1>6, <1>7, <1>9 DEF GenerationInv

-----------------------------------------------------------------------------
(* The engine thread: clients, and the visits of process_pending_chunks.   *)

(* What the type invariant says of the engine thread's state.              *)
LEMMA EngineTypes ==
  ASSUME GenerationInv
  PROVE  /\ requests \subseteq Reqs /\ requests_with_ready_chunks \subseteq Reqs
         /\ status \in [Reqs -> {"NEW", "WAITING", "RUNNING", "WAITING_FOR_CHUNK"} \union Finished]
         /\ waiting \in Seq(Reqs) /\ running \in Seq(Reqs) /\ snapshot \in Seq(Reqs)
         /\ waiting_for_chunk_waiting_requests \in Seq(Reqs)
         /\ waiting_for_chunk_running_requests \in Seq(Reqs)
         /\ Elements(waiting) \subseteq Reqs /\ Elements(running) \subseteq Reqs
         /\ pending_load_reqs \subseteq Reqs /\ finished_load_reqs \subseteq Reqs
         /\ finished_requests \subseteq Reqs /\ NoReq \notin Reqs
<1>1. /\ waiting \in Seq(Reqs) /\ running \in Seq(Reqs)
  BY DEF GenerationInv, TypeOK
<1>2. Elements(waiting) \subseteq Reqs /\ Elements(running) \subseteq Reqs
  BY <1>1, ElementsIn
<1> QED
  BY <1>1, <1>2, LinkAssumption DEF GenerationInv, TypeOK, LinkInv, LinkTypeOK

(* The request that is visited next, and those visited after it.           *)
LEMMA VisitFacts ==
  ASSUME GenerationInv, Visiting
  PROVE  /\ Tail(snapshot) \in Seq(Reqs) /\ Distinct(Tail(snapshot))
         /\ Elements(snapshot) = {Visited} \cup Elements(Tail(snapshot))
         /\ Visited \notin Elements(Tail(snapshot))
         /\ engine_pc = "waiting" => Visited \in Elements(waiting) /\ Visited \notin Elements(running)
         /\ engine_pc = "running" => Visited \in Elements(running) /\ Visited \notin Elements(waiting)
         /\ Visited \in Reqs /\ Visited \in InQueues /\ Visited \notin Parked
         /\ Visited \in ToVisit /\ Visited \notin KeptInQueue /\ Visited # NoReq
         /\ status[Visited] # "NEW"
         /\ marking # NoReq => marking = Visited
<1>1. snapshot \in Seq(Reqs) /\ snapshot # <<>> /\ Distinct(snapshot)
  BY EngineTypes DEF Visiting, GenerationInv, PhaseInv
<1>2. /\ Tail(snapshot) \in Seq(Reqs) /\ Distinct(Tail(snapshot))
      /\ Elements(snapshot) = {Visited} \cup Elements(Tail(snapshot))
      /\ Visited \notin Elements(Tail(snapshot))
  BY <1>1, ElementsTail DEF Visited
<1>3. Elements(waiting) \cap Elements(running) = {} /\ InQueues \cap Parked = {}
  BY DEF GenerationInv, QueuesInv
<1>4. /\ engine_pc = "waiting" => Visited \in Elements(waiting) /\ Visited \notin Elements(running)
      /\ engine_pc = "running" => Visited \in Elements(running) /\ Visited \notin Elements(waiting)
  BY <1>2, <1>3 DEF GenerationInv, PhaseInv
<1>5. /\ Visited \in Reqs /\ Visited \in InQueues /\ Visited \notin Parked
      /\ Visited \in ToVisit /\ Visited \notin KeptInQueue /\ Visited # NoReq
  BY <1>2, <1>3, <1>4, EngineTypes DEF InQueues, ToVisit, KeptInQueue, Visiting
<1>6. status[Visited] # "NEW" /\ (marking # NoReq => marking = Visited)
  BY <1>5 DEF GenerationInv, NewInv, PhaseInv, Visited
<1> QED
  BY <1>2, <1>4, <1>5, <1>6

(* A request that is left in its queue.                                    *)
PassedOn ==
  /\ QueuesInv' /\ PhaseInv' /\ InQueues' \cup Parked' = InQueues \cup Parked
  /\ ToVisit' = ToVisit \ {Visited} /\ snapshot' \in Seq(Reqs)

(* What such a visit does to the places of the requests.                   *)
LEMMA KeepsPlace ==
  ASSUME GenerationInv, Visiting, snapshot' = Tail(snapshot), marking' = NoReq,
         UNCHANGED <<requests, engine_pc, batch, queueVars>>
  PROVE  PassedOn /\ KeptInQueue' = KeptInQueue \cup {Visited}
<1> USE DEF queueVars
<1>1. InQueues' = InQueues /\ Parked' = Parked
  BY DEF InQueues, Parked
<1>2. QueuesInv'
  BY <1>1 DEF GenerationInv, QueuesInv
<1>3. ToVisit' = ToVisit \ {Visited}
  BY VisitFacts DEF ToVisit, Visiting
<1>4. KeptInQueue' = KeptInQueue \cup {Visited}
  BY <1>1, <1>3, VisitFacts DEF KeptInQueue, Visiting
<1>5. PhaseInv'
  BY <1>1, VisitFacts DEF GenerationInv, PhaseInv, Visiting
<1> QED
  BY <1>1, <1>2, <1>3, <1>4, <1>5, VisitFacts DEF PassedOn

(* A request that leaves its queue for a deque.                            *)
LEMMA IsParked ==
  ASSUME GenerationInv, Visiting, snapshot' = Tail(snapshot), marking' = NoReq,
         UNCHANGED <<requests, engine_pc, batch>>, Park(Visited)
  PROVE  /\ PassedOn /\ KeptInQueue' = KeptInQueue
         /\ waiting' \in Seq(Reqs) /\ running' \in Seq(Reqs)
         /\ waiting_for_chunk_waiting_requests' \in Seq(Reqs)
         /\ waiting_for_chunk_running_requests' \in Seq(Reqs)
<1> DEFINE v == Visited
<1>1. CASE engine_pc = "waiting"
  <2>1. /\ waiting' = Without(waiting, {v}) /\ running' = running
        /\ waiting_for_chunk_waiting_requests' = Append(waiting_for_chunk_waiting_requests, v)
        /\ waiting_for_chunk_running_requests' = waiting_for_chunk_running_requests
    BY <1>1 DEF Park
  <2>2. /\ v \in Reqs /\ v \in Elements(waiting) /\ v \notin Elements(running) /\ v \notin Parked
        /\ Elements(snapshot) = {v} \cup Elements(Tail(snapshot))
        /\ v \notin Elements(Tail(snapshot)) /\ Distinct(Tail(snapshot))
    BY <1>1, VisitFacts
  <2> HIDE DEF v
  <2>3. /\ waiting' \in Seq(Reqs) /\ Elements(waiting') = Elements(waiting) \ {v}
        /\ Distinct(waiting) => Distinct(waiting')
    BY <2>1, EngineTypes, WithoutElements
  <2>4. /\ waiting_for_chunk_waiting_requests' \in Seq(Reqs)
        /\ Elements(waiting_for_chunk_waiting_requests')
             = Elements(waiting_for_chunk_waiting_requests) \cup {v}
        /\ Distinct(waiting_for_chunk_waiting_requests')
             <=> Distinct(waiting_for_chunk_waiting_requests)
                 /\ v \notin Elements(waiting_for_chunk_waiting_requests)
    BY <2>1, <2>2, EngineTypes, ElementsAppend, AppendProperties
  <2>5. InQueues' = InQueues \ {v} /\ Parked' = Parked \cup {v} /\ v \in InQueues
    BY <2>1, <2>2, <2>3, <2>4 DEF InQueues, Parked
  <2>6. QueuesInv'
    <3>1. QueuesInv /\ requests' = requests
      BY DEF GenerationInv
    <3>2. InQueues' \cap Parked' = {} /\ requests' \subseteq InQueues' \cup Parked'
      BY <2>5, <3>1 DEF QueuesInv
    <3>3. v \notin Elements(waiting_for_chunk_waiting_requests)
          /\ v \notin Elements(waiting_for_chunk_running_requests)
      BY <2>2 DEF Parked
    <3>4. QueuesInv' <=>
            /\ Distinct(waiting') /\ Distinct(running')
            /\ Distinct(waiting_for_chunk_waiting_requests')
            /\ Distinct(waiting_for_chunk_running_requests')
            /\ Elements(waiting') \cap Elements(running') = {}
            /\ Elements(waiting_for_chunk_waiting_requests')
                 \cap Elements(waiting_for_chunk_running_requests') = {}
      BY <3>2 DEF QueuesInv
    <3> QED
      BY <2>1, <2>2, <2>3, <2>4, <3>1, <3>3, <3>4 DEF QueuesInv
  <2>7. ToVisit' = ToVisit \ {v}
    BY <1>1, <2>1, <2>2 DEF ToVisit
  <2>8. KeptInQueue' = KeptInQueue
    BY <1>1, <2>2, <2>5, <2>7 DEF KeptInQueue, ToVisit
  <2>9. PhaseInv'
    BY <1>1, <2>1, <2>2, <2>3 DEF GenerationInv, PhaseInv
  <2> QED
    BY <2>1, <2>3, <2>4, <2>5, <2>6, <2>7, <2>8, <2>9, VisitFacts, EngineTypes DEF PassedOn, v
<1>2. CASE engine_pc = "running"
  <2>1. /\ running' = Without(running, {v}) /\ waiting' = waiting
        /\ waiting_for_chunk_running_requests' = Append(waiting_for_chunk_running_requests, v)
        /\ waiting_for_chunk_waiting_requests' = waiting_for_chunk_waiting_requests
    BY <1>2 DEF Park
  <2>2. /\ v \in Reqs /\ v \in Elements(running) /\ v \notin Elements(waiting) /\ v \notin Parked
        /\ Elements(snapshot) = {v} \cup Elements(Tail(snapshot))
        /\ v \notin Elements(Tail(snapshot)) /\ Distinct(Tail(snapshot))
    BY <1>2, VisitFacts
  <2> HIDE DEF v
  <2>3. /\ running' \in Seq(Reqs) /\ Elements(running') = Elements(running) \ {v}
        /\ Distinct(running) => Distinct(running')
    BY <2>1, EngineTypes, WithoutElements
  <2>4. /\ waiting_for_chunk_running_requests' \in Seq(Reqs)
        /\ Elements(waiting_for_chunk_running_requests')
             = Elements(waiting_for_chunk_running_requests) \cup {v}
        /\ Distinct(waiting_for_chunk_running_requests')
             <=> Distinct(waiting_for_chunk_running_requests)
                 /\ v \notin Elements(waiting_for_chunk_running_requests)
    BY <2>1, <2>2, EngineTypes, ElementsAppend, AppendProperties
  <2>5. InQueues' = InQueues \ {v} /\ Parked' = Parked \cup {v} /\ v \in InQueues
    BY <2>1, <2>2, <2>3, <2>4 DEF InQueues, Parked
  <2>6. QueuesInv'
    <3>1. QueuesInv /\ requests' = requests
      BY DEF GenerationInv
    <3>2. InQueues' \cap Parked' = {} /\ requests' \subseteq InQueues' \cup Parked'
      BY <2>5, <3>1 DEF QueuesInv
    <3>3. v \notin Elements(waiting_for_chunk_waiting_requests)
          /\ v \notin Elements(waiting_for_chunk_running_requests)
      BY <2>2 DEF Parked
    <3>4. QueuesInv' <=>
            /\ Distinct(waiting') /\ Distinct(running')
            /\ Distinct(waiting_for_chunk_waiting_requests')
            /\ Distinct(waiting_for_chunk_running_requests')
            /\ Elements(waiting') \cap Elements(running') = {}
            /\ Elements(waiting_for_chunk_waiting_requests')
                 \cap Elements(waiting_for_chunk_running_requests') = {}
      BY <3>2 DEF QueuesInv
    <3> QED
      BY <2>1, <2>2, <2>3, <2>4, <3>1, <3>3, <3>4, ZenonT(40) DEF QueuesInv
  <2>7. ToVisit' = ToVisit \ {v}
    BY <1>2, <2>1, <2>2 DEF ToVisit
  <2>8. KeptInQueue' = KeptInQueue
    BY <1>2, <2>2, <2>5, <2>7 DEF KeptInQueue, ToVisit
  <2>9. PhaseInv'
    BY <1>2, <2>1, <2>2, <2>3 DEF GenerationInv, PhaseInv
  <2> QED
    BY <2>1, <2>3, <2>4, <2>5, <2>6, <2>7, <2>8, <2>9, VisitFacts, EngineTypes DEF PassedOn, v
<1> QED
  BY <1>1, <1>2 DEF Visiting

(* A visit that changes at most the status of the visited request and the  *)
(* set of ready ones, apart from its queue.                                *)
LEMMA VisitGen ==
  ASSUME GenerationInv, Visiting, PassedOn, UNCHANGED linkVars,
         UNCHANGED <<requests, num_computed_tokens, loaded, engine_pc, batch, emitted, aborted>>,
         marking' = NoReq, NEW st, st # "NEW", status' = [status EXCEPT ![Visited] = st],
         requests_with_ready_chunks' = requests_with_ready_chunks
           \/ requests_with_ready_chunks' = requests_with_ready_chunks \cup {Visited},
         TypeOK', LiveInv'
  PROVE  GenerationInv'
<1>1. LinkInv'
  BY LinkUnchanged DEF GenerationInv
<1>2. UNCHANGED <<pending_save_reqs, save_task, lost, loadVars, finished_requests, get_req_chunk>>
  BY DEF linkVars, producerVars, recvVars
<1>3. NothingSaved' /\ BatchInv'
  BY <1>2 DEF GenerationInv, NothingSaved, BatchInv, loadVars
<1>4. Visited \in Reqs /\ status[Visited] # "NEW"
  BY VisitFacts
<1>5. \A r \in Reqs : status'[r] = "NEW" => status[r] = "NEW" /\ r # Visited
  BY <1>4, EngineTypes
<1>6. NewInv'
  BY <1>2, <1>5 DEF GenerationInv, NewInv, PassedOn, loadVars
<1> QED
  BY <1>1, <1>3, <1>6 DEF GenerationInv, PassedOn

(* A request with a chunk to use, or for which none is to come.            *)
LEMMA VisitReadyGen ==
  ASSUME GenerationInv, VisitReady
  PROVE  GenerationInv'
<1> DEFINE v == Visited
<1>1. PassedOn /\ KeptInQueue' = KeptInQueue \cup {v}
  BY KeepsPlace DEF VisitReady
<1>2. /\ UNCHANGED <<requests, status, requests_with_ready_chunks, loaded, marking>>
      /\ UNCHANGED <<pending_load_reqs, finished_load_reqs, finished_requests>>
      /\ marking = NoReq /\ status[v] # "WAITING_FOR_CHUNK" /\ HasChunk(v)
  BY DEF VisitReady, linkVars, recvVars, loadVars
<1>3. TypeOK'
  <2>1. LinkInv'
    BY LinkUnchanged DEF GenerationInv, VisitReady
  <2> QED
    BY <1>1, <2>1 DEF GenerationInv, LinkInv, TypeOK, VisitReady, PassedOn, queueVars
<1> HIDE DEF v
<1>4. LiveInv'
  <2> SUFFICES ASSUME NEW q \in requests PROVE StatusOf(q)' /\ ApartOf(q)'
    BY <1>2 DEF LiveInv
  <2>1. StatusOf(q) /\ ApartOf(q)
    BY DEF GenerationInv, LiveInv
  <2>2. q \in ToVisit' => q \in ToVisit
    BY <1>1 DEF PassedOn
  <2>3. ApartOf(q)'
    BY <1>2, <2>1, <2>2 DEF ApartOf
  <2>4. StatusOf(q)'
    BY <1>1, <1>2, <2>1, <2>2 DEF StatusOf, HasChunk
  <2> QED
    BY <2>3, <2>4
<1>5. status' = [status EXCEPT ![Visited] = status[Visited]] /\ status[Visited] # "NEW"
  BY <1>2, EngineTypes, VisitFacts DEF VisitReady
<1> QED
  BY <1>1, <1>2, <1>3, <1>4, <1>5, VisitGen DEF VisitReady

(* The request is registered: no chunk of it is anywhere.                  *)
LEMMA VisitAskGen ==
  ASSUME GenerationInv, VisitAsk
  PROVE  GenerationInv'
<1> DEFINE v == Visited
<1>1. v \in Reqs /\ v # NoReq /\ status[v] # "NEW" /\ snapshot # <<>> /\ v = Head(snapshot)
  BY VisitFacts DEF VisitAsk, Visiting, Visited
<1>2. LinkInv'
  BY <1>1, LoadInv DEF GenerationInv, VisitAsk
<1>3. /\ pending_load_reqs' = pending_load_reqs \cup {v} /\ marking' = v
      /\ UNCHANGED <<pending_save_reqs, save_task, lost, finished_load_reqs,
                     finished_requests, get_req_chunk>>
      /\ UNCHANGED <<requests, status, num_computed_tokens, queueVars,
                     requests_with_ready_chunks, loaded, snapshot, engine_pc, batch, emitted, aborted>>
      /\ marking = NoReq /\ status[v] # "WAITING_FOR_CHUNK" /\ ~HasChunk(v)
      /\ engine_pc # "update"
  BY DEF VisitAsk, LoadAsync, producerVars, recvVars, Visiting
<1> HIDE DEF v
<1> USE DEF queueVars
<1>4. NothingSaved' /\ TypeOK'
  BY <1>1, <1>2, <1>3 DEF GenerationInv, LinkInv, NothingSaved, TypeOK
<1>5. /\ Parked' = Parked /\ InQueues' = InQueues /\ ToVisit' = ToVisit
      /\ KeptInQueue' = KeptInQueue
  BY <1>3 DEF Parked, InQueues, ToVisit, KeptInQueue
<1>6. QueuesInv' /\ PhaseInv'
  BY <1>1, <1>3, <1>5 DEF GenerationInv, QueuesInv, PhaseInv
<1>7. NewInv'
  BY <1>1, <1>3, <1>5 DEF GenerationInv, NewInv
<1>8. LiveInv'
  <2> SUFFICES ASSUME NEW q \in requests PROVE StatusOf(q)' /\ ApartOf(q)'
    BY <1>3 DEF LiveInv
  <2>1. StatusOf(q) /\ ApartOf(q) /\ q # NoReq
    BY EngineTypes DEF GenerationInv, LiveInv
  <2>2. q = v => q \notin requests_with_ready_chunks \cup finished_requests
    BY <1>3 DEF HasChunk
  <2>3. q = v => q \notin pending_load_reqs \cup finished_load_reqs \cup (loaded \cap ToVisit)
    BY <1>3, <2>1, <2>2 DEF StatusOf
  <2>4. ApartOf(q)'
    BY <1>3, <1>5, <2>1, <2>2, <2>3 DEF ApartOf
  <2>5. StatusOf(q)'
    BY <1>3, <1>5, <2>1, <2>2 DEF StatusOf, HasChunk
  <2> QED
    BY <2>4, <2>5
<1>9. BatchInv'
  <2>1. batch' = <<>>
    BY <1>3 DEF GenerationInv, PhaseInv
  <2> QED
    BY <2>1 DEF BatchInv
<1> QED
  BY <1>2, <1>4, <1>6, <1>7, <1>8, <1>9 DEF GenerationInv

(* Its status follows, and it leaves its queue.                            *)
LEMMA VisitAskMarkGen ==
  ASSUME GenerationInv, VisitAskMark
  PROVE  GenerationInv'
<1> DEFINE v == Visited
<1>1. marking = v /\ v \in Reqs /\ v # NoReq
  BY VisitFacts DEF VisitAskMark
<1>2. /\ PassedOn /\ KeptInQueue' = KeptInQueue
      /\ waiting' \in Seq(Reqs) /\ running' \in Seq(Reqs)
      /\ waiting_for_chunk_waiting_requests' \in Seq(Reqs)
      /\ waiting_for_chunk_running_requests' \in Seq(Reqs)
  <2>1. Park(Visited)
    BY <1>1 DEF VisitAskMark
  <2> QED
    BY <2>1, IsParked DEF VisitAskMark
<1>3. /\ UNCHANGED <<requests, requests_with_ready_chunks, loaded>>
      /\ UNCHANGED <<pending_load_reqs, finished_load_reqs, finished_requests>>
      /\ marking' = NoReq /\ status' = [status EXCEPT ![v] = "WAITING_FOR_CHUNK"]
  BY <1>1 DEF VisitAskMark, linkVars, recvVars, loadVars
<1>4. TypeOK'
  <2>1. LinkInv'
    BY LinkUnchanged DEF GenerationInv, VisitAskMark
  <2>2. status' \in [Reqs -> {"NEW", "WAITING", "RUNNING", "WAITING_FOR_CHUNK"} \union Finished]
    BY <1>3, EngineTypes
  <2> QED
    BY <1>2, <2>1, <2>2 DEF GenerationInv, LinkInv, TypeOK, VisitAskMark, PassedOn
<1> HIDE DEF v
<1>5. LiveInv'
  <2> SUFFICES ASSUME NEW q \in requests PROVE StatusOf(q)' /\ ApartOf(q)'
    BY <1>3 DEF LiveInv
  <2>1. StatusOf(q) /\ ApartOf(q) /\ q # NoReq
    BY EngineTypes DEF GenerationInv, LiveInv
  <2>2. q \in ToVisit' => q \in ToVisit
    BY <1>2 DEF PassedOn
  <2>3. ApartOf(q)'
    BY <1>3, <2>1, <2>2 DEF ApartOf
  <2>4. status'[q] = IF q = v THEN "WAITING_FOR_CHUNK" ELSE status[q]
    BY <1>3, EngineTypes
  <2>5. q = v => q \notin KeptInQueue /\ q \notin requests_with_ready_chunks
    BY <1>1, <2>1, VisitFacts DEF StatusOf, VisitAskMark, v
  <2>6. StatusOf(q)'
    BY <1>1, <1>2, <1>3, <2>1, <2>2, <2>4, <2>5 DEF StatusOf, HasChunk
  <2> QED
    BY <2>3, <2>6
<1> QED
  BY <1>2, <1>3, <1>4, <1>5, VisitGen DEF VisitAskMark, v

(* The chunk that was waited for becomes one to use.                       *)
LEMMA VisitLoadedGen ==
  ASSUME GenerationInv, VisitLoaded
  PROVE  GenerationInv'
<1> DEFINE v == Visited
           st == IF engine_pc = "waiting" THEN "WAITING" ELSE "RUNNING"
<1>1. v \in Reqs /\ v # NoReq /\ v \in ToVisit
  BY VisitFacts DEF VisitLoaded
<1>2. /\ UNCHANGED <<requests, loaded, marking>> /\ marking = NoReq
      /\ UNCHANGED <<pending_load_reqs, finished_load_reqs, finished_requests>>
      /\ status' = [status EXCEPT ![v] = st]
      /\ requests_with_ready_chunks' = requests_with_ready_chunks \cup {v}
      /\ v \in loaded /\ status[v] = "WAITING_FOR_CHUNK"
  BY DEF VisitLoaded, linkVars, recvVars, loadVars
<1>3. PassedOn /\ KeptInQueue' = KeptInQueue \cup {v}
  BY <1>2, KeepsPlace DEF VisitLoaded
<1>4. TypeOK'
  <2>1. LinkInv'
    BY LinkUnchanged DEF GenerationInv, VisitLoaded
  <2>2. status' \in [Reqs -> {"NEW", "WAITING", "RUNNING", "WAITING_FOR_CHUNK"} \union Finished]
    BY <1>2, EngineTypes
  <2> QED
    BY <1>1, <1>2, <1>3, <2>1, <2>2 DEF GenerationInv, LinkInv, TypeOK, VisitLoaded, PassedOn, queueVars
<1>5. st \in {"WAITING", "RUNNING"}
  OBVIOUS
<1> HIDE DEF v, st
<1>6. LiveInv'
  <2> SUFFICES ASSUME NEW q \in requests PROVE StatusOf(q)' /\ ApartOf(q)'
    BY <1>2 DEF LiveInv
  <2>1. StatusOf(q) /\ ApartOf(q) /\ q # NoReq
    BY EngineTypes DEF GenerationInv, LiveInv
  <2>2. q \in ToVisit' <=> q \in ToVisit /\ q # v
    BY <1>3 DEF PassedOn, v
  <2>3. q = v => q \notin pending_load_reqs \cup finished_load_reqs
    BY <1>1, <1>2, <2>1 DEF ApartOf
  <2>4. ApartOf(q)'
    BY <1>2, <2>1, <2>2, <2>3 DEF ApartOf
  <2>5. status'[q] = IF q = v THEN st ELSE status[q]
    BY <1>2, EngineTypes
  <2>6. CASE q = v
    <3>1. status'[q] \in {"WAITING", "RUNNING"}
      BY <1>5, <2>5, <2>6
    <3>2. marking' # q /\ HasChunk(q)'
      BY <1>1, <1>2, <2>6 DEF HasChunk
    <3>3. q \notin pending_load_reqs' \cup finished_load_reqs' \cup (loaded' \cap ToVisit')
      BY <1>2, <2>2, <2>3, <2>6
    <3> QED
      BY <2>4, <3>1, <3>2, <3>3 DEF StatusOf
  <2>7. CASE q # v
    <3>1. /\ status'[q] = status[q]
          /\ q \in KeptInQueue' => q \in KeptInQueue
          /\ q \in requests_with_ready_chunks' <=> q \in requests_with_ready_chunks
      BY <1>2, <1>3, <2>5, <2>7
    <3>2. q \in KeptInQueue => status[q] # "WAITING_FOR_CHUNK" /\ HasChunk(q)
      BY <2>1 DEF StatusOf
    <3>3. HasChunk(q) => HasChunk(q)'
      BY <1>2 DEF HasChunk
    <3>4. q \in pending_load_reqs' \cup finished_load_reqs' \cup (loaded' \cap ToVisit')
            => q \in pending_load_reqs \cup finished_load_reqs \cup (loaded \cap ToVisit)
      BY <1>2, <2>2
    <3>5. marking' = marking /\ finished_requests' = finished_requests
      BY <1>2
    <3> QED
      BY <2>1, <2>4, <3>1, <3>2, <3>3, <3>4, <3>5 DEF StatusOf
  <2> QED
    BY <2>4, <2>6, <2>7
<1> QED
  BY <1>2, <1>3, <1>4, <1>5, <1>6, VisitGen DEF VisitLoaded, v

(* The chunk has not arrived.                                              *)
LEMMA VisitUnloadedGen ==
  ASSUME GenerationInv, VisitUnloaded
  PROVE  GenerationInv'
<1>1. /\ UNCHANGED <<requests, status, requests_with_ready_chunks, loaded, marking>>
      /\ UNCHANGED <<pending_load_reqs, finished_load_reqs, finished_requests>>
      /\ marking = NoReq
  BY DEF VisitUnloaded, linkVars, recvVars, loadVars
<1>2. /\ PassedOn /\ KeptInQueue' = KeptInQueue
      /\ waiting' \in Seq(Reqs) /\ running' \in Seq(Reqs)
      /\ waiting_for_chunk_waiting_requests' \in Seq(Reqs)
      /\ waiting_for_chunk_running_requests' \in Seq(Reqs)
  BY <1>1, IsParked DEF VisitUnloaded
<1>3. TypeOK'
  <2>1. LinkInv'
    BY LinkUnchanged DEF GenerationInv, VisitUnloaded
  <2> QED
    BY <1>2, <2>1 DEF GenerationInv, LinkInv, TypeOK, VisitUnloaded, PassedOn
<1>4. LiveInv'
  <2> SUFFICES ASSUME NEW q \in requests PROVE StatusOf(q)' /\ ApartOf(q)'
    BY <1>1 DEF LiveInv
  <2>1. StatusOf(q) /\ ApartOf(q)
    BY DEF GenerationInv, LiveInv
  <2>2. q \in ToVisit' => q \in ToVisit
    BY <1>2 DEF PassedOn
  <2>3. ApartOf(q)'
    BY <1>1, <2>1, <2>2 DEF ApartOf
  <2>4. StatusOf(q)'
    BY <1>1, <1>2, <2>1, <2>2 DEF StatusOf, HasChunk
  <2> QED
    BY <2>3, <2>4
<1>5. status' = [status EXCEPT ![Visited] = status[Visited]] /\ status[Visited] # "NEW"
  BY <1>1, EngineTypes, VisitFacts DEF VisitUnloaded
<1> QED
  BY <1>1, <1>2, <1>3, <1>4, <1>5, VisitGen DEF VisitUnloaded

(* A new request is nowhere else.                                          *)
LEMMA AddRequestGen ==
  ASSUME GenerationInv, NEW r \in Reqs, AddRequest(r)
  PROVE  GenerationInv'
<1>1. LinkInv'
  BY LinkUnchanged DEF GenerationInv, AddRequest
<1>2. /\ requests' = requests \cup {r} /\ waiting' = Append(waiting, r)
      /\ status' = [status EXCEPT ![r] = "WAITING"] /\ engine_pc = "idle" /\ status[r] = "NEW"
      /\ UNCHANGED <<pending_save_reqs, save_task, lost, pending_load_reqs, finished_load_reqs,
                     finished_requests, get_req_chunk>>
      /\ UNCHANGED <<num_computed_tokens, running, waiting_for_chunk_waiting_requests,
                     waiting_for_chunk_running_requests, requests_with_ready_chunks,
                     loaded, snapshot, marking, engine_pc, batch, emitted, aborted>>
  BY DEF AddRequest, linkVars, producerVars, recvVars, loadVars
<1>3. /\ r \notin requests /\ r \notin InQueues /\ r \notin Parked /\ r \notin pending_load_reqs
      /\ r \notin finished_load_reqs /\ r \notin loaded /\ r \notin requests_with_ready_chunks
      /\ r \notin finished_requests
  BY <1>2 DEF GenerationInv, NewInv
<1>4. /\ waiting' \in Seq(Reqs) /\ Elements(waiting') = Elements(waiting) \cup {r}
      /\ Distinct(waiting') <=> Distinct(waiting) /\ r \notin Elements(waiting)
  BY <1>2, EngineTypes, ElementsAppend, AppendProperties
<1>5. \A q \in Reqs : status'[q] = IF q = r THEN "WAITING" ELSE status[q]
  BY <1>2, EngineTypes
<1>6. NothingSaved' /\ TypeOK'
  <2>1. status' \in [Reqs -> {"NEW", "WAITING", "RUNNING", "WAITING_FOR_CHUNK"} \union Finished]
    BY <1>2, EngineTypes
  <2> QED
    BY <1>1, <1>2, <1>4, <2>1 DEF GenerationInv, LinkInv, NothingSaved, TypeOK
<1>7. /\ InQueues' = InQueues \cup {r} /\ Parked' = Parked
      /\ ToVisit = {} /\ ToVisit' = {} /\ KeptInQueue' = {}
  <2>1. InQueues' = InQueues \cup {r} /\ Parked' = Parked
    BY <1>2, <1>4 DEF InQueues, Parked
  <2>2. Elements(snapshot) = {}
    BY <1>2 DEF GenerationInv, PhaseInv, Elements
  <2> QED
    BY <1>2, <2>1, <2>2 DEF ToVisit, KeptInQueue
<1>8. QueuesInv'
  <2>1. QueuesInv /\ r \notin Elements(waiting) /\ r \notin Elements(running)
    BY <1>3 DEF GenerationInv, InQueues
  <2>2. InQueues' \cap Parked' = {} /\ requests' \subseteq InQueues' \cup Parked'
    BY <1>2, <1>3, <1>7, <2>1 DEF QueuesInv
  <2>3. Elements(waiting') \cap Elements(running') = {}
    BY <1>2, <1>4, <2>1 DEF QueuesInv
  <2> QED
    BY <1>2, <1>4, <2>1, <2>2, <2>3 DEF QueuesInv
<1>9. PhaseInv'
  BY <1>2, <1>7 DEF GenerationInv, PhaseInv
<1>10. NewInv'
  BY <1>2, <1>5, <1>7 DEF GenerationInv, NewInv
<1>11. LiveInv'
  <2> SUFFICES ASSUME NEW q \in requests' PROVE StatusOf(q)' /\ ApartOf(q)'
    BY DEF LiveInv
  <2>1. CASE q = r
    BY <1>2, <1>3, <1>5, <1>7, <2>1 DEF StatusOf, ApartOf
  <2>2. CASE q # r
    <3>1. StatusOf(q) /\ ApartOf(q) /\ q \in Reqs
      BY <1>2, <2>2, EngineTypes DEF GenerationInv, LiveInv
    <3> QED
      BY <1>2, <1>5, <1>7, <2>2, <3>1 DEF StatusOf, ApartOf
  <2> QED
    BY <2>1, <2>2
<1>12. BatchInv'
  BY <1>2 DEF GenerationInv, BatchInv
<1> QED
  BY <1>1, <1>6, <1>8, <1>9, <1>10, <1>11, <1>12 DEF GenerationInv

(* An aborted request is no longer live; its entry may stay in a queue.    *)
LEMMA AbortGen ==
  ASSUME GenerationInv, NEW r \in Reqs, Abort(r)
  PROVE  GenerationInv'
<1>1. LinkInv'
  BY LinkUnchanged DEF GenerationInv, Abort
<1>2. /\ requests' = requests \ {r} /\ aborted' = aborted \cup {r}
      /\ running' = running \/ running' = Without(running, {r})
      /\ waiting' = waiting \/ waiting' = Without(waiting, {r})
      /\ \/ status[r] = "RUNNING" /\ running' = Without(running, {r})
         \/ waiting' = Without(waiting, {r})
      /\ status' = [status EXCEPT ![r] = "FINISHED_ABORTED"] /\ engine_pc = "idle"
      /\ UNCHANGED <<pending_save_reqs, save_task, lost, pending_load_reqs, finished_load_reqs,
                     finished_requests, get_req_chunk>>
      /\ UNCHANGED <<num_computed_tokens, waiting_for_chunk_waiting_requests,
                     waiting_for_chunk_running_requests, requests_with_ready_chunks,
                     loaded, snapshot, marking, engine_pc, batch, emitted>>
  BY DEF Abort, linkVars, producerVars, recvVars, loadVars
<1>3. /\ waiting' \in Seq(Reqs) /\ Elements(waiting') \subseteq Elements(waiting)
      /\ Elements(waiting) \subseteq Elements(waiting') \cup {r}
      /\ Distinct(waiting) => Distinct(waiting')
  <2>1. /\ Without(waiting, {r}) \in Seq(Reqs)
        /\ Elements(Without(waiting, {r})) = Elements(waiting) \ {r}
        /\ Distinct(waiting) => Distinct(Without(waiting, {r}))
    BY EngineTypes, WithoutElements
  <2> QED
    BY <1>2, <2>1, EngineTypes
<1>4. /\ running' \in Seq(Reqs) /\ Elements(running') \subseteq Elements(running)
      /\ Elements(running) \subseteq Elements(running') \cup {r}
      /\ Distinct(running) => Distinct(running')
  <2>1. /\ Without(running, {r}) \in Seq(Reqs)
        /\ Elements(Without(running, {r})) = Elements(running) \ {r}
        /\ Distinct(running) => Distinct(Without(running, {r}))
    BY EngineTypes, WithoutElements
  <2> QED
    BY <1>2, <2>1, EngineTypes
<1>5. \A q \in Reqs : status'[q] = IF q = r THEN "FINISHED_ABORTED" ELSE status[q]
  BY <1>2, EngineTypes
<1>6. NothingSaved' /\ TypeOK'
  <2>1. status' \in [Reqs -> {"NEW", "WAITING", "RUNNING", "WAITING_FOR_CHUNK"} \union Finished]
    BY <1>2, EngineTypes DEF Finished
  <2> QED
    BY <1>1, <1>2, <1>3, <1>4, <2>1 DEF GenerationInv, LinkInv, NothingSaved, TypeOK
<1>7. /\ InQueues' \subseteq InQueues /\ InQueues \subseteq InQueues' \cup {r} /\ Parked' = Parked
      /\ ToVisit = {} /\ ToVisit' = {} /\ KeptInQueue' = {}
  <2>1. Elements(snapshot) = {}
    BY <1>2 DEF GenerationInv, PhaseInv, Elements
  <2> QED
    BY <1>2, <1>3, <1>4, <2>1 DEF InQueues, Parked, ToVisit, KeptInQueue
<1>8. QueuesInv'
  <2>1. InQueues' \cap Parked' = {} /\ requests' \subseteq InQueues' \cup Parked'
    BY <1>2, <1>7 DEF GenerationInv, QueuesInv
  <2> QED
    BY <1>2, <1>3, <1>4, <2>1 DEF GenerationInv, QueuesInv
<1>9. PhaseInv'
  BY <1>2, <1>7 DEF GenerationInv, PhaseInv
<1>10. NewInv'
  BY <1>2, <1>5, <1>7 DEF GenerationInv, NewInv
<1>11. LiveInv'
  <2> SUFFICES ASSUME NEW q \in requests' PROVE StatusOf(q)' /\ ApartOf(q)'
    BY DEF LiveInv
  <2>1. StatusOf(q) /\ ApartOf(q) /\ q \in Reqs /\ q # r
    BY <1>2, EngineTypes DEF GenerationInv, LiveInv
  <2> QED
    BY <1>2, <1>5, <1>7, <2>1 DEF StatusOf, ApartOf
<1>12. BatchInv'
  <2>1. batch' = <<>>
    BY <1>2 DEF GenerationInv, PhaseInv
  <2> QED
    BY <2>1 DEF BatchInv
<1> QED
  BY <1>1, <1>6, <1>8, <1>9, <1>10, <1>11, <1>12 DEF GenerationInv

(* The loaded requests are taken over.                                     *)
LEMMA BeginScheduleGen ==
  ASSUME GenerationInv, BeginSchedule
  PROVE  GenerationInv'
<1>1. LinkInv'
  <2>1. waiting # <<>> \/ running # <<>>
    BY DEF BeginSchedule
  <2>2. PICK r \in Reqs : TRUE
    BY <2>1, EngineTypes, EmptySeq, ElementOfSeq
  <2> QED
    BY LoadInv DEF GenerationInv, BeginSchedule
<1>2. /\ loaded' = finished_load_reqs /\ finished_load_reqs' = {} /\ snapshot' = waiting
      /\ engine_pc = "idle" /\ engine_pc' = "waiting"
      /\ UNCHANGED <<pending_save_reqs, save_task, lost, pending_load_reqs,
                     finished_requests, get_req_chunk>>
      /\ UNCHANGED <<requests, status, num_computed_tokens, queueVars,
                     requests_with_ready_chunks, marking, batch, emitted, aborted>>
  BY DEF BeginSchedule, GetFinishedRequests, producerVars, recvVars
<1> USE DEF queueVars
<1>3. NothingSaved' /\ TypeOK'
  <2>1. finished_load_reqs \subseteq Reqs /\ waiting \in Seq(Reqs)
    BY EngineTypes
  <2> QED
    BY <1>1, <1>2, <2>1 DEF GenerationInv, LinkInv, NothingSaved, TypeOK
<1>4. /\ Parked' = Parked /\ InQueues' = InQueues /\ KeptInQueue' = {}
  BY <1>2 DEF Parked, InQueues, ToVisit, KeptInQueue
<1>5. QueuesInv' /\ marking = NoReq
  BY <1>2, <1>4 DEF GenerationInv, QueuesInv, PhaseInv
<1>6. PhaseInv'
  BY <1>2, <1>5 DEF GenerationInv, PhaseInv, QueuesInv
<1>7. NewInv'
  BY <1>2, <1>4 DEF GenerationInv, NewInv
<1>8. LiveInv'
  <2> SUFFICES ASSUME NEW q \in requests PROVE StatusOf(q)' /\ ApartOf(q)'
    BY <1>2 DEF LiveInv
  <2>1. StatusOf(q) /\ ApartOf(q)
    BY DEF GenerationInv, LiveInv
  <2>2. ApartOf(q)'
    BY <1>2, <2>1 DEF ApartOf
  <2>3. StatusOf(q)'
    BY <1>2, <1>4, <2>1 DEF StatusOf
  <2> QED
    BY <2>2, <2>3
<1>9. BatchInv'
  BY <1>2 DEF GenerationInv, BatchInv
<1> QED
  BY <1>1, <1>3, <1>5, <1>6, <1>7, <1>8, <1>9 DEF GenerationInv

(* From the waiting queue to the running one, and on to the selection.     *)
LEMMA NextQueueGen ==
  ASSUME GenerationInv, NextQueue
  PROVE  GenerationInv'
<1>1. LinkInv'
  BY LinkUnchanged DEF GenerationInv, NextQueue
<1>2. /\ snapshot = <<>>
      /\ \/ engine_pc = "waiting" /\ snapshot' = running /\ engine_pc' = "running"
         \/ engine_pc = "running" /\ snapshot' = <<>> /\ engine_pc' = "schedule"
      /\ UNCHANGED <<pending_save_reqs, save_task, lost, pending_load_reqs, finished_load_reqs,
                     finished_requests, get_req_chunk>>
      /\ UNCHANGED <<requests, status, num_computed_tokens, queueVars, loaded,
                     requests_with_ready_chunks, marking, batch, emitted, aborted>>
  BY DEF NextQueue, linkVars, producerVars, recvVars, loadVars
<1> USE DEF queueVars
<1>3. NothingSaved' /\ TypeOK'
  <2>1. snapshot' \in Seq(Reqs)
    BY <1>2, EngineTypes
  <2> QED
    BY <1>1, <1>2, <2>1 DEF GenerationInv, LinkInv, NothingSaved, TypeOK
<1>4. /\ Parked' = Parked /\ InQueues' = InQueues /\ ToVisit' = ToVisit
      /\ KeptInQueue' = KeptInQueue
  <2>1. Elements(<<>>) = {}
    BY DEF Elements
  <2>2. Parked' = Parked /\ InQueues' = InQueues
    BY <1>2 DEF Parked, InQueues
  <2>3. ToVisit' = ToVisit
    BY <1>2, <2>1 DEF ToVisit
  <2> QED
    BY <1>2, <2>2, <2>3 DEF KeptInQueue
<1>5. QueuesInv' /\ marking = NoReq
  BY <1>2, <1>4 DEF GenerationInv, QueuesInv, PhaseInv
<1>6. PhaseInv'
  BY <1>2, <1>5 DEF GenerationInv, PhaseInv, QueuesInv
<1>7. NewInv'
  BY <1>2, <1>4 DEF GenerationInv, NewInv
<1>8. LiveInv'
  <2> SUFFICES ASSUME NEW q \in requests PROVE StatusOf(q)' /\ ApartOf(q)'
    BY <1>2 DEF LiveInv
  <2>1. StatusOf(q) /\ ApartOf(q)
    BY DEF GenerationInv, LiveInv
  <2>2. ApartOf(q)'
    BY <1>2, <1>4, <2>1 DEF ApartOf
  <2>3. StatusOf(q)'
    BY <1>2, <1>4, <2>1 DEF StatusOf, HasChunk
  <2> QED
    BY <2>2, <2>3
<1>9. BatchInv'
  BY <1>2 DEF GenerationInv, BatchInv
<1> QED
  BY <1>1, <1>3, <1>5, <1>6, <1>7, <1>8, <1>9 DEF GenerationInv

(* What a step of the batch adds to the outputs of r.                      *)
Adds(r) == [s \in Steps |-> IF s.req = r THEN <<s>> ELSE <<>>]

(* OutputOf(r) maps the batch step by step.                                *)
LEMMA OutputIsMapped ==
  ASSUME batch \in Seq(Steps), NEW r
  PROVE  Maps(Adds(r), Steps, Steps) /\ OutputOf(r) = Mapped(Adds(r), batch) /\ OutputOf(r) \in Seq(Steps)
<1>1. Maps(Adds(r), Steps, Steps)
  <2>1. \A s \in Steps : <<s>> \in Seq(Steps) /\ <<>> \in Seq(Steps)
    OBVIOUS
  <2> QED
    BY <2>1 DEF Maps, Adds
<1>2. \A i \in DOMAIN batch : batch[i] \in Steps
  OBVIOUS
<1>3. OutputOf(r) = Mapped(Adds(r), batch)
  <2>1. \A i \in DOMAIN batch : Adds(r)[batch[i]] =
          (IF batch[i].req = r THEN <<batch[i]>> ELSE <<>>)
    BY <1>2 DEF Adds
  <2>2. [i \in DOMAIN batch |-> Adds(r)[batch[i]]] =
        [i \in DOMAIN batch |->
           IF batch[i].req = r THEN <<batch[i]>> ELSE <<>>]
    BY <2>1
  <2> QED
    BY <2>2 DEF OutputOf, Mapped
<1> HIDE DEF Mapped, Adds
<1>4. Mapped(Adds(r), batch) \in Seq(Steps)
  BY <1>1, MappedType
<1> QED
  BY <1>1, <1>3, <1>4

(* Finished requests of the batch leave, if they are not passed over.      *)
LEMMA UpdateGen ==
  ASSUME GenerationInv, UpdateFromOutput
  PROVE  GenerationInv'
<1>1. LinkInv'
  BY LinkUnchanged DEF GenerationInv, UpdateFromOutput
<1> PICK stopped : /\ requests' = requests \ stopped /\ waiting' = Without(waiting, stopped)
                   /\ running' = Without(running, stopped)
  BY DEF UpdateFromOutput
<1>2. /\ engine_pc = "update" /\ engine_pc' = "idle" /\ batch' = <<>>
      /\ emitted' = [r \in Reqs |->
           IF PassedOver(r) \/ Len(emitted[r]) = HistoryLength THEN emitted[r]
                                                              ELSE emitted[r] \o OutputOf(r)]
      /\ UNCHANGED <<pending_save_reqs, save_task, lost, pending_load_reqs, finished_load_reqs,
                     finished_requests, get_req_chunk>>
      /\ UNCHANGED <<status, num_computed_tokens, waiting_for_chunk_waiting_requests,
                     waiting_for_chunk_running_requests, requests_with_ready_chunks,
                     loaded, snapshot, marking, aborted>>
  BY DEF UpdateFromOutput, linkVars, producerVars, recvVars, loadVars
<1>3. /\ waiting' \in Seq(Reqs) /\ Elements(waiting') = Elements(waiting) \ stopped
      /\ Distinct(waiting) => Distinct(waiting')
  BY EngineTypes, WithoutElements
<1>4. /\ running' \in Seq(Reqs) /\ Elements(running') = Elements(running) \ stopped
      /\ Distinct(running) => Distinct(running')
  BY EngineTypes, WithoutElements
<1>5. emitted' \in [Reqs -> Seq(Steps)]
  <2>1. emitted \in [Reqs -> Seq(Steps)] /\ batch \in Seq(Steps)
    BY DEF GenerationInv, TypeOK
  <2>2. \A r \in Reqs : OutputOf(r) \in Seq(Steps)
    BY <2>1, OutputIsMapped
  <2>3. \A r \in Reqs : emitted[r] \o OutputOf(r) \in Seq(Steps)
    BY <2>1, <2>2, ConcatProperties
  <2> QED
    BY <1>2, <2>1, <2>3
<1>6. NothingSaved' /\ TypeOK'
  <2>1. <<>> \in Seq(Steps)
    OBVIOUS
  <2> QED
    BY <1>1, <1>2, <1>3, <1>4, <1>5, <2>1 DEF GenerationInv, LinkInv, NothingSaved, TypeOK
<1>7. /\ InQueues' = InQueues \ stopped /\ Parked' = Parked /\ Parked = {}
      /\ ToVisit = {} /\ ToVisit' = {} /\ KeptInQueue' = {}
  <2>1. Elements(snapshot) = {} /\ Parked = {}
    BY <1>2 DEF GenerationInv, PhaseInv, Elements
  <2> QED
    BY <1>2, <1>3, <1>4, <2>1 DEF InQueues, Parked, ToVisit, KeptInQueue
<1>8. QueuesInv'
  <2>1. InQueues' \cap Parked' = {} /\ requests' \subseteq InQueues' \cup Parked'
    BY <1>2, <1>7 DEF GenerationInv, QueuesInv
  <2> QED
    BY <1>2, <1>3, <1>4, <2>1 DEF GenerationInv, QueuesInv
<1>9. PhaseInv'
  BY <1>2, <1>7 DEF GenerationInv, PhaseInv
<1>10. NewInv'
  <2>1. \A r \in Reqs : status[r] = "NEW" => emitted'[r] = emitted[r]
    BY <1>2 DEF GenerationInv, NewInv, PassedOver
  <2> QED
    BY <1>2, <1>7, <2>1 DEF GenerationInv, NewInv
<1>11. LiveInv'
  <2> SUFFICES ASSUME NEW q \in requests' PROVE StatusOf(q)' /\ ApartOf(q)'
    BY DEF LiveInv
  <2>1. StatusOf(q) /\ ApartOf(q)
    BY DEF GenerationInv, LiveInv
  <2> QED
    BY <1>2, <1>7, <2>1 DEF StatusOf, ApartOf
<1>12. BatchInv'
  BY <1>2 DEF BatchInv
<1> QED
  BY <1>1, <1>6, <1>8, <1>9, <1>10, <1>11, <1>12 DEF GenerationInv

-----------------------------------------------------------------------------
(* The selection: what the two loops have taken after n requests.          *)
Before(n) == {Queue[i] : i \in 1..n}

(* The budget is enough for a chunk of each running request.               *)
Ample == TokenBudget >= MaxNumSeqs * ChunkTokens

PlacesInv(ru, wa, n) ==
  /\ ru \in Seq(Reqs) /\ wa \in Seq(Reqs)
  /\ Distinct(ru) /\ Distinct(wa) /\ Elements(ru) \cap Elements(wa) = {}
  /\ Elements(ru) \cup Elements(wa) \subseteq Before(n)
  /\ requests \cap Before(n) \subseteq Elements(ru) \cup Elements(wa)
  /\ Len(ru) <= MaxNumSeqs /\ (n <= Len(Kept) => Len(ru) <= n)

(* A step is on what the request holds; all that it needs, if there is     *)
(* budget for it.                                                          *)
StepOk(s) ==
  /\ s \in Steps /\ s.req \in requests
  /\ s.chunk = held[s.req] /\ s.from = num_computed_tokens[s.req]
  /\ Ample => s.tokens \in {Required(s.req, num_computed_tokens[s.req]), Required(s.req, 0)}

StepsInv(b, g, ru) ==
  /\ b \in Seq(Steps) /\ g \in 0..TokenBudget /\ Len(b) <= Len(ru)
  /\ \A i \in 1..Len(b) : StepOk(b[i]) /\ b[i].req \in Elements(ru)
  /\ \A i, j \in 1..Len(b) : b[i].req = b[j].req => i = j
  /\ Ample => g >= (MaxNumSeqs - Len(b)) * ChunkTokens

Selections == [batch : Seq(Steps), budget : 0..TokenBudget,
               running : Seq(Reqs), waiting : Seq(Reqs)]

TakenInv(acc, n) ==
  /\ acc \in Selections
  /\ PlacesInv(acc.running, acc.waiting, n)
  /\ StepsInv(acc.batch, acc.budget, acc.running)

(* The queue the loops go through: every queued request, once.             *)
LEMMA QueueFacts ==
  ASSUME GenerationInv
  PROVE  /\ Queue \in Seq(Reqs) /\ Distinct(Queue) /\ Elements(Queue) = InQueues
         /\ Len(Queue) \in Nat /\ Len(Kept) \in Nat /\ Len(Kept) <= MaxNumSeqs
<1> DEFINE k == Len(Kept)
<1>1. /\ running \in Seq(Reqs) /\ waiting \in Seq(Reqs) /\ Len(running) \in Nat
      /\ MaxNumSeqs \in Nat
  BY EngineTypes, LenProperties, GenerationAssumption
<1>2. /\ k \in 0..Len(running) /\ k <= MaxNumSeqs /\ Kept = SubSeq(running, 1, k)
  <2>1. CASE Len(running) <= MaxNumSeqs
    <3>1. Kept = running
      BY <2>1 DEF Kept
    <3>2. SubSeq(running, 1, Len(running)) = running
      BY <1>1, SubSeqFull
    <3> QED
      BY <1>1, <2>1, <3>1, <3>2
  <2>2. CASE ~(Len(running) <= MaxNumSeqs)
    <3>1. Kept = SubSeq(running, 1, MaxNumSeqs) /\ MaxNumSeqs \in 0..Len(running)
      BY <1>1, <2>2 DEF Kept
    <3>2. Len(SubSeq(running, 1, MaxNumSeqs)) = MaxNumSeqs
      BY <1>1, <3>1, ElementsSplit
    <3> QED
      BY <3>1, <3>2, <1>1
  <2> QED
    BY <2>1, <2>2
<1>3. Trimmed = SubSeq(running, k + 1, Len(running))
  BY DEF Trimmed
<1> HIDE DEF k
<1>4. /\ Kept \in Seq(Reqs) /\ Trimmed \in Seq(Reqs) /\ running = Kept \o Trimmed
  <2>1. /\ SubSeq(running, 1, k) \in Seq(Reqs) /\ SubSeq(running, k + 1, Len(running)) \in Seq(Reqs)
        /\ running = SubSeq(running, 1, k) \o SubSeq(running, k + 1, Len(running))
    BY <1>1, <1>2, ElementsSplit
  <2> QED
    BY <1>2, <1>3, <2>1, Zenon
<1>5. /\ Elements(running) = Elements(Kept) \cup Elements(Trimmed)
      /\ Distinct(running) <=>
           Distinct(Kept) /\ Distinct(Trimmed) /\ Elements(Kept) \cap Elements(Trimmed) = {}
  <2>1. /\ Elements(Kept \o Trimmed) = Elements(Kept) \cup Elements(Trimmed)
        /\ Distinct(Kept \o Trimmed) <=>
             Distinct(Kept) /\ Distinct(Trimmed) /\ Elements(Kept) \cap Elements(Trimmed) = {}
    BY <1>4, ElementsConcat
  <2> QED
    BY <1>4, <2>1, Zenon
<1> DEFINE rest == Trimmed \o waiting
<1>6. /\ rest \in Seq(Reqs) /\ Elements(rest) = Elements(Trimmed) \cup Elements(waiting)
      /\ Distinct(rest) <=>
           Distinct(Trimmed) /\ Distinct(waiting) /\ Elements(Trimmed) \cap Elements(waiting) = {}
  BY <1>1, <1>4, ElementsConcat
<1>7. Queue = Kept \o rest
  BY DEF Queue
<1> HIDE DEF rest
<1>8. /\ Queue \in Seq(Reqs) /\ Elements(Queue) = Elements(Kept) \cup Elements(rest)
      /\ Distinct(Queue) <=>
           Distinct(Kept) /\ Distinct(rest) /\ Elements(Kept) \cap Elements(rest) = {}
  <2>1. /\ Kept \o rest \in Seq(Reqs)
        /\ Elements(Kept \o rest) = Elements(Kept) \cup Elements(rest)
        /\ Distinct(Kept \o rest) <=>
             Distinct(Kept) /\ Distinct(rest) /\ Elements(Kept) \cap Elements(rest) = {}
    BY <1>4, <1>6, ElementsConcat
  <2> QED
    BY <1>7, <2>1, Zenon
<1>9. Distinct(waiting) /\ Distinct(running) /\ Elements(waiting) \cap Elements(running) = {}
  BY DEF GenerationInv, QueuesInv
<1>10. Distinct(Queue) /\ Elements(Queue) = InQueues
  BY <1>5, <1>6, <1>8, <1>9 DEF InQueues
<1>11. Len(Queue) \in Nat
  BY <1>8, LenProperties
<1> QED
  BY <1>2, <1>8, <1>10, <1>11 DEF k

(* The n-th request is not among the ones before it.                       *)
LEMMA BeforeFacts ==
  ASSUME GenerationInv, NEW n \in 1..Len(Queue)
  PROVE  /\ Queue[n] \in Reqs /\ Queue[n] \notin Before(n - 1)
         /\ Before(n) = Before(n - 1) \cup {Queue[n]} /\ n \in Nat /\ n - 1 \in Nat
<1>1. Queue \in Seq(Reqs) /\ Distinct(Queue) /\ Len(Queue) \in Nat
  BY QueueFacts
<1>2. Queue[n] \in Reqs /\ n \in Nat /\ n - 1 \in Nat
  BY <1>1, ElementOfSeq
<1>3. \A i : i \in 1..n <=> i \in 1..(n - 1) \/ i = n
  BY <1>2
<1>4. Before(n) = Before(n - 1) \cup {Queue[n]}
  BY <1>3 DEF Before
<1>5. \A i \in 1..(n - 1) : i \in 1..Len(Queue) /\ i # n
  BY <1>1
<1>6. Queue[n] \notin Before(n - 1)
  BY <1>1, <1>5 DEF Before, Distinct
<1> QED
  BY <1>2, <1>4, <1>6

(* The n-th request joins the running ones, goes back to the waiting ones, *)
(* or is dropped because it is not live.                                   *)
LEMMA PlaceRunning ==
  ASSUME GenerationInv, NEW n \in 1..Len(Queue), NEW ru, NEW wa,
         PlacesInv(ru, wa, n - 1), Len(ru) < MaxNumSeqs
  PROVE  PlacesInv(Append(ru, Queue[n]), wa, n) /\ Queue[n] \notin Elements(ru)
<1> DEFINE e == Queue[n]
<1>1. /\ e \in Reqs /\ e \notin Before(n - 1) /\ Before(n) = Before(n - 1) \cup {e}
      /\ n \in Nat /\ Len(Kept) \in Nat /\ MaxNumSeqs \in Nat
  BY BeforeFacts, QueueFacts, GenerationAssumption
<1> HIDE DEF e
<1>2. /\ ru \in Seq(Reqs) /\ wa \in Seq(Reqs)
      /\ Distinct(ru) /\ Distinct(wa) /\ Elements(ru) \cap Elements(wa) = {}
      /\ Elements(ru) \cup Elements(wa) \subseteq Before(n - 1)
      /\ requests \cap Before(n - 1) \subseteq Elements(ru) \cup Elements(wa)
      /\ n - 1 <= Len(Kept) => Len(ru) <= n - 1
  BY DEF PlacesInv
<1>3. /\ Elements(Append(ru, e)) = Elements(ru) \cup {e}
      /\ Distinct(Append(ru, e)) <=> Distinct(ru) /\ e \notin Elements(ru)
      /\ Append(ru, e) \in Seq(Reqs) /\ Len(Append(ru, e)) = Len(ru) + 1 /\ Len(ru) \in Nat
  BY <1>1, <1>2, ElementsAppend, AppendProperties, LenProperties
<1> DEFINE a == Append(ru, e)
<1> HIDE DEF a
<1>4. Len(a) <= MaxNumSeqs /\ (n <= Len(Kept) => Len(a) <= n)
  BY <1>1, <1>2, <1>3 DEF a
<1>5. Distinct(a) /\ Elements(a) \cap Elements(wa) = {} /\ e \notin Elements(ru) /\ a \in Seq(Reqs)
  BY <1>1, <1>2, <1>3 DEF a
<1>6. Elements(a) \cup Elements(wa) \subseteq Before(n)
  BY <1>1, <1>2, <1>3 DEF a
<1>7. requests \cap Before(n) \subseteq Elements(a) \cup Elements(wa)
  BY <1>1, <1>2, <1>3 DEF a
<1>8. PlacesInv(a, wa, n)
  BY <1>2, <1>4, <1>5, <1>6, <1>7 DEF PlacesInv
<1> QED
  BY <1>5, <1>8 DEF a, e

(* A request that is put back behind the waiting ones.                     *)
LEMMA PlaceWaiting ==
  ASSUME GenerationInv, NEW n \in 1..Len(Queue), n > Len(Kept), NEW ru, NEW wa,
         PlacesInv(ru, wa, n - 1)
  PROVE  PlacesInv(ru, Append(wa, Queue[n]), n)
<1> DEFINE e == Queue[n]
<1>1. /\ e \in Reqs /\ e \notin Before(n - 1) /\ Before(n) = Before(n - 1) \cup {e}
      /\ n \in Nat /\ Len(Kept) \in Nat
  BY BeforeFacts, QueueFacts
<1> HIDE DEF e
<1>2. /\ ru \in Seq(Reqs) /\ wa \in Seq(Reqs) /\ Len(ru) <= MaxNumSeqs
      /\ Distinct(ru) /\ Distinct(wa) /\ Elements(ru) \cap Elements(wa) = {}
      /\ Elements(ru) \cup Elements(wa) \subseteq Before(n - 1)
      /\ requests \cap Before(n - 1) \subseteq Elements(ru) \cup Elements(wa)
  BY DEF PlacesInv
<1>3. /\ Elements(Append(wa, e)) = Elements(wa) \cup {e}
      /\ Distinct(Append(wa, e)) <=> Distinct(wa) /\ e \notin Elements(wa)
      /\ Append(wa, e) \in Seq(Reqs)
  BY <1>1, <1>2, ElementsAppend, AppendProperties
<1> DEFINE a == Append(wa, e)
<1> HIDE DEF a
<1>4. ~(n <= Len(Kept))
  BY <1>1
<1>5. Distinct(a) /\ Elements(ru) \cap Elements(a) = {} /\ a \in Seq(Reqs)
  BY <1>1, <1>2, <1>3 DEF a
<1>6. Elements(ru) \cup Elements(a) \subseteq Before(n)
  BY <1>1, <1>2, <1>3 DEF a
<1>7. requests \cap Before(n) \subseteq Elements(ru) \cup Elements(a)
  BY <1>1, <1>2, <1>3 DEF a
<1>8. PlacesInv(ru, a, n)
  BY <1>2, <1>4, <1>5, <1>6, <1>7 DEF PlacesInv
<1> QED
  BY <1>8 DEF a, e

(* A request that is dropped because it is no longer live.                 *)
LEMMA PlaceNowhere ==
  ASSUME GenerationInv, NEW n \in 1..Len(Queue), NEW ru, NEW wa,
         PlacesInv(ru, wa, n - 1), Queue[n] \notin requests
  PROVE  PlacesInv(ru, wa, n)
<1>1. Before(n) = Before(n - 1) \cup {Queue[n]} /\ n \in Nat /\ Len(Kept) \in Nat
  BY BeforeFacts, QueueFacts
<1>2. ru \in Seq(Reqs) /\ Len(ru) \in Nat
  BY LenProperties DEF PlacesInv
<1>3. n <= Len(Kept) => Len(ru) <= n
  BY <1>1, <1>2 DEF PlacesInv
<1> QED
  BY <1>1, <1>3 DEF PlacesInv

(* What a request needs is at least one token and at most a chunk.         *)
LEMMA RequiredRange ==
  ASSUME GenerationInv, NEW r, NEW c \in 0..ChunkTokens
  PROVE  Required(r, c) \in 1..ChunkTokens
<1> DEFINE l == IF held[r] = <<>> THEN 1 ELSE ChunkTokens
<1>1. l \in 1..ChunkTokens /\ ChunkTokens \in Nat /\ Required(r, c) = Larger(l - c, 1)
  BY GenerationAssumption DEF Required
<1> HIDE DEF l
<1> QED
  BY <1>1 DEF Larger

(* A step for a request that is not among the running ones.                *)
LEMMA StepsTake ==
  ASSUME GenerationInv, NEW e \in requests, NEW ru \in Seq(Reqs), NEW b, NEW g,
         StepsInv(b, g, ru), g # 0, e \notin Elements(ru), Len(ru) < MaxNumSeqs,
         NEW c \in {num_computed_tokens[e], 0}, NEW s, s = Step(e, c, g)
  PROVE  StepsInv(Append(b, s), g - s.tokens, Append(ru, e))
<1> DEFINE m == Required(e, c)
           t == s.tokens
<1>1. /\ e \in Reqs /\ held[e] \in Seq(Nat) /\ num_computed_tokens[e] \in 0..ChunkTokens
      /\ c \in 0..ChunkTokens
  <2>1. e \in Reqs /\ held \in [Reqs -> Seq(Nat)] /\ num_computed_tokens \in [Reqs -> 0..ChunkTokens]
    BY EngineTypes DEF GenerationInv, TypeOK, LinkInv, LinkTypeOK
  <2>2. 0 \in 0..ChunkTokens
    BY GenerationAssumption
  <2> QED
    BY <2>1, <2>2
<1>2. /\ b \in Seq(Steps) /\ g \in 1..TokenBudget /\ TokenBudget \in Nat /\ MaxNumSeqs \in Nat
      /\ ChunkTokens \in Nat \ {0}
      /\ Len(b) \in Nat /\ Len(ru) \in Nat /\ Len(b) <= Len(ru)
      /\ \A i \in 1..Len(b) : StepOk(b[i]) /\ b[i].req \in Elements(ru)
      /\ \A i, j \in 1..Len(b) : b[i].req = b[j].req => i = j
      /\ Ample => g >= (MaxNumSeqs - Len(b)) * ChunkTokens
  BY GenerationAssumption, LenProperties DEF StepsInv
<1>3. m \in 1..ChunkTokens
  BY <1>1, RequiredRange
<1>4. /\ s.req = e /\ s.chunk = held[e] /\ s.from = num_computed_tokens[e] /\ t = Smaller(m, g)
      /\ s = [req |-> e, chunk |-> held[e], from |-> num_computed_tokens[e], tokens |-> t]
  BY DEF Step
<1> HIDE DEF m
<1>5. t \in 1..g /\ t <= m
  BY <1>2, <1>3, <1>4 DEF Smaller
<1>6. t \in 1..TokenBudget /\ g - t \in 0..TokenBudget /\ t <= ChunkTokens
  BY <1>2, <1>3, <1>5
<1> HIDE DEF t
<1>7. s \in Steps
  BY <1>1, <1>4, <1>6 DEF Steps
<1>8. Ample => t = m
  <2> SUFFICES ASSUME Ample PROVE t = m
    OBVIOUS
  <2>1. MaxNumSeqs - Len(b) \in Nat /\ MaxNumSeqs - Len(b) >= 1
    BY <1>2
  <2>2. (MaxNumSeqs - Len(b)) * ChunkTokens >= ChunkTokens
    BY <2>1, <1>2
  <2>3. g >= ChunkTokens
    BY <1>2, <2>1, <2>2
  <2> QED
    BY <1>2, <1>3, <1>4, <2>3 DEF Smaller
<1>9. StepOk(s)
  BY <1>4, <1>7, <1>8 DEF StepOk, m, t
<1> DEFINE B == Append(b, s)
           R == Append(ru, e)
<1>10. /\ B \in Seq(Steps) /\ Len(B) = Len(b) + 1
       /\ \A i \in 1..Len(b) : B[i] = b[i]
       /\ B[Len(b) + 1] = s
  BY <1>2, <1>7, AppendProperties
<1>11. Elements(R) = Elements(ru) \cup {e} /\ Len(R) = Len(ru) + 1
  BY <1>1, ElementsAppend, AppendProperties
<1> HIDE DEF B, R
<1>12. \A i : i \in 1..Len(B) <=> i \in 1..Len(b) \/ i = Len(b) + 1
  BY <1>2, <1>10
<1>13. \A i \in 1..Len(B) : StepOk(B[i]) /\ B[i].req \in Elements(R)
  <2>1. \A i \in 1..Len(b) : StepOk(B[i]) /\ B[i].req \in Elements(R)
    BY <1>2, <1>10, <1>11
  <2>2. StepOk(B[Len(b) + 1]) /\ B[Len(b) + 1].req \in Elements(R)
    BY <1>4, <1>9, <1>10, <1>11
  <2> QED
    BY <1>12, <2>1, <2>2
<1>14. \A i, j \in 1..Len(B) : B[i].req = B[j].req => i = j
  <2>1. \A i \in 1..Len(b) : B[i].req = b[i].req /\ B[i].req # e
    BY <1>2, <1>10
  <2>2. B[Len(b) + 1].req = e
    BY <1>4, <1>10
  <2> QED
    BY <1>2, <1>12, <2>1, <2>2
<1>15. Ample => g - t >= (MaxNumSeqs - Len(B)) * ChunkTokens
  <2>1. (MaxNumSeqs - Len(B)) * ChunkTokens = (MaxNumSeqs - Len(b)) * ChunkTokens - ChunkTokens
    <3>1. MaxNumSeqs - Len(B) = (MaxNumSeqs - Len(b)) - 1 /\ MaxNumSeqs - Len(b) \in Int
      BY <1>2, <1>10
    <3>2. \A k, x \in Int : (k - 1) * x = k * x - x
      OBVIOUS
    <3>3. (MaxNumSeqs - Len(B)) * ChunkTokens = ((MaxNumSeqs - Len(b)) - 1) * ChunkTokens
      BY <3>1
    <3>4. ChunkTokens \in Int
      BY <1>2
    <3> QED
      BY <3>1, <3>2, <3>3, <3>4
  <2>2. (MaxNumSeqs - Len(b)) * ChunkTokens \in Int
    <3>1. MaxNumSeqs - Len(b) \in Int /\ ChunkTokens \in Int
      BY <1>2
    <3> QED
      BY <3>1
  <2> DEFINE x == (MaxNumSeqs - Len(b)) * ChunkTokens
             y == (MaxNumSeqs - Len(B)) * ChunkTokens
  <2>3. y = x - ChunkTokens /\ x \in Int /\ (Ample => g >= x)
    BY <1>2, <2>1, <2>2
  <2> HIDE DEF x, y
  <2>4. Ample => g - t >= y
    BY <1>2, <1>6, <2>3
  <2> QED
    BY <2>4 DEF y
<1>16. StepsInv(B, g - t, R)
  BY <1>2, <1>6, <1>10, <1>11, <1>13, <1>14, <1>15 DEF StepsInv
<1> QED
  BY <1>16 DEF B, R, t

(* Nothing taken: at most a request joins the running ones.                *)
LEMMA StepsKeep ==
  ASSUME NEW e \in Reqs, NEW ru \in Seq(Reqs), NEW b, NEW g, StepsInv(b, g, ru)
  PROVE  StepsInv(b, g, Append(ru, e))
<1> DEFINE R == Append(ru, e)
<1>1. Elements(R) = Elements(ru) \cup {e} /\ Len(R) = Len(ru) + 1 /\ Len(ru) \in Nat
  BY ElementsAppend, AppendProperties, LenProperties
<1> HIDE DEF R
<1>2. Len(b) \in Nat /\ Len(b) <= Len(ru)
  BY LenProperties DEF StepsInv
<1>3. StepsInv(b, g, R)
  BY <1>1, <1>2 DEF StepsInv
<1> QED
  BY <1>3 DEF R

(* A selection as a record.                                                *)
LEMMA SelectionParts ==
  ASSUME NEW b, NEW g, NEW ru, NEW wa, NEW n, PlacesInv(ru, wa, n), StepsInv(b, g, ru)
  PROVE  TakenInv([batch |-> b, budget |-> g, running |-> ru, waiting |-> wa], n)
<1>1. [batch |-> b, budget |-> g, running |-> ru, waiting |-> wa] \in Selections
  BY DEF PlacesInv, StepsInv, Selections
<1> QED
  BY <1>1 DEF TakenInv

(* Its updates.                                                            *)
LEMMA SelectionUpdates ==
  ASSUME NEW acc \in Selections, NEW e
  PROVE  /\ [acc EXCEPT !.running = Append(@, e)]
              = [batch |-> acc.batch, budget |-> acc.budget,
                 running |-> Append(acc.running, e), waiting |-> acc.waiting]
         /\ [acc EXCEPT !.waiting = Append(@, e)]
              = [batch |-> acc.batch, budget |-> acc.budget,
                 running |-> acc.running, waiting |-> Append(acc.waiting, e)]
<1> DEFINE x == Append(acc.running, e)
           y == Append(acc.waiting, e)
<1>1. acc = [batch |-> acc.batch, budget |-> acc.budget,
             running |-> acc.running, waiting |-> acc.waiting]
  BY DEF Selections
<1> HIDE DEF x, y
<1>3. [acc EXCEPT !.running = x] = [batch |-> acc.batch, budget |-> acc.budget,
                                    running |-> x, waiting |-> acc.waiting]
  BY <1>1
<1>4. [acc EXCEPT !.waiting = y] = [batch |-> acc.batch, budget |-> acc.budget,
                                    running |-> acc.running, waiting |-> y]
  BY <1>1
<1> QED
  BY <1>3, <1>4 DEF x, y

(* One request more.                                                       *)
LEMMA TakenNext ==
  ASSUME GenerationInv, NEW n \in 1..Len(Queue), NEW acc, TakenInv(acc, n - 1)
  PROVE  /\ n <= Len(Kept) => TakenInv(TakeRunning(acc, Queue[n]), n)
         /\ n > Len(Kept) => TakenInv(TakeWaiting(acc, Queue[n]), n)
<1> DEFINE e == Queue[n]
           b == acc.batch
           g == acc.budget
           ru == acc.running
           wa == acc.waiting
<1>1. /\ acc = [batch |-> b, budget |-> g, running |-> ru, waiting |-> wa]
      /\ PlacesInv(ru, wa, n - 1) /\ StepsInv(b, g, ru)
      /\ ru \in Seq(Reqs) /\ wa \in Seq(Reqs) /\ b \in Seq(Steps) /\ g \in Nat
  <2>1. acc \in Selections
    BY DEF TakenInv
  <2>2. /\ acc = [batch |-> b, budget |-> g, running |-> ru, waiting |-> wa]
        /\ ru \in Seq(Reqs) /\ wa \in Seq(Reqs) /\ b \in Seq(Steps) /\ g \in 0..TokenBudget
    BY <2>1 DEF Selections
  <2> QED
    BY <2>2, GenerationAssumption DEF TakenInv
<1>2. e \in Reqs
  BY BeforeFacts
<1>3. /\ e \notin requests => PlacesInv(ru, wa, n)
      /\ n > Len(Kept) => PlacesInv(ru, Append(wa, e), n)
      /\ Len(ru) < MaxNumSeqs => PlacesInv(Append(ru, e), wa, n) /\ e \notin Elements(ru)
  BY <1>1, PlaceNowhere, PlaceWaiting, PlaceRunning
<1>4. n <= Len(Kept) => Len(ru) < MaxNumSeqs
  BY <1>1, QueueFacts, LenProperties, BeforeFacts, GenerationAssumption DEF PlacesInv
<1> DEFINE Sel(B, G, R, W) == [batch |-> B, budget |-> G, running |-> R, waiting |-> W]
<1>5. ASSUME NEW c \in {num_computed_tokens[e], 0}, e \in requests, g # 0, Len(ru) < MaxNumSeqs
      PROVE  TakenInv(Take(acc, Step(e, c, g)), n)
  <2> DEFINE s == Step(e, c, g)
  <2>1. Take(acc, s) = Sel(Append(b, s), g - s.tokens, Append(ru, e), wa)
    <3>1. s.req = e
      BY DEF Step
    <3> QED
      BY <3>1 DEF Take
  <2>2. StepsInv(Append(b, s), g - s.tokens, Append(ru, e))
    <3> DEFINE z == s
    <3>1. z = Step(e, c, g)
      OBVIOUS
    <3>2. e \notin Elements(ru)
      BY <1>3, <1>5
    <3> HIDE DEF z, e, b, g, ru, wa
    <3>3. StepsInv(Append(b, z), g - z.tokens, Append(ru, e))
      BY <1>1, <1>5, <3>1, <3>2, StepsTake
    <3> QED
      BY <3>3, <3>1
  <2> HIDE DEF s
  <2>3. TakenInv(Sel(Append(b, s), g - s.tokens, Append(ru, e), wa), n)
    BY <1>3, <1>5, <2>2, SelectionParts
  <2> QED
    BY <2>1, <2>3 DEF s
<1>6. ASSUME Len(ru) < MaxNumSeqs
      PROVE  TakenInv([acc EXCEPT !.running = Append(@, e)], n)
  <2>1. [acc EXCEPT !.running = Append(@, e)] = Sel(b, g, Append(ru, e), wa)
    BY SelectionUpdates DEF TakenInv
  <2>2. TakenInv(Sel(b, g, Append(ru, e), wa), n)
    BY <1>1, <1>2, <1>3, <1>6, StepsKeep, SelectionParts
  <2> QED
    BY <2>1, <2>2
<1>7. ASSUME n > Len(Kept)
      PROVE  TakenInv([acc EXCEPT !.waiting = Append(@, e)], n)
  <2>1. [acc EXCEPT !.waiting = Append(@, e)] = Sel(b, g, ru, Append(wa, e))
    BY SelectionUpdates DEF TakenInv
  <2>2. TakenInv(Sel(b, g, ru, Append(wa, e)), n)
    BY <1>1, <1>3, <1>7, SelectionParts
  <2> QED
    BY <2>1, <2>2
<1>8. e \notin requests => TakenInv(acc, n)
  <2>1. ASSUME e \notin requests PROVE TakenInv(Sel(b, g, ru, wa), n)
    BY <1>1, <1>3, <2>1, SelectionParts
  <2> QED
    BY <1>1, <2>1
<1>9. ASSUME n <= Len(Kept) PROVE TakenInv(TakeRunning(acc, e), n)
  <2>1. CASE g = 0
    <3>1. TakeRunning(acc, e) = [acc EXCEPT !.running = Append(@, e)]
      BY <2>1 DEF TakeRunning
    <3> QED
      BY <1>4, <1>6, <1>9, <3>1
  <2>2. CASE g # 0 /\ e \notin requests
    <3>1. TakeRunning(acc, e) = acc
      BY <1>1, <2>2 DEF TakeRunning
    <3> QED
      BY <1>8, <2>2, <3>1
  <2>3. CASE g # 0 /\ e \in requests
    <3>1. TakeRunning(acc, e) = Take(acc, Step(e, num_computed_tokens[e], g))
      BY <1>1, <2>3 DEF TakeRunning
    <3> QED
      BY <1>4, <1>5, <1>9, <2>3, <3>1
  <2> QED
    BY <2>1, <2>2, <2>3
<1>10. ASSUME n > Len(Kept) PROVE TakenInv(TakeWaiting(acc, e), n)
  <2>0. Len(ru) \in Nat /\ MaxNumSeqs \in Nat /\ g \in Nat
    BY <1>1, LenProperties, GenerationAssumption
  <2>1. CASE g = 0 \/ Len(ru) >= MaxNumSeqs
    <3>1. TakeWaiting(acc, e) = [acc EXCEPT !.waiting = Append(@, e)]
      BY <1>1, <2>0, <2>1 DEF TakeWaiting
    <3> QED
      BY <1>7, <1>10, <3>1
  <2>2. CASE g # 0 /\ Len(ru) < MaxNumSeqs /\ e \notin requests
    <3>1. TakeWaiting(acc, e) = acc
      BY <1>1, <2>0, <2>2 DEF TakeWaiting
    <3> QED
      BY <1>8, <2>2, <3>1
  <2>3. CASE g # 0 /\ Len(ru) < MaxNumSeqs /\ e \in requests
    <3>0. g > 0 /\ ~(Len(ru) >= MaxNumSeqs)
      <4> HIDE DEF g, ru
      <4> QED
        BY <2>0, <2>3
    <3>1. TakeWaiting(acc, e) = Take(acc, Step(e, 0, g))
      BY <2>3, <3>0 DEF TakeWaiting
    <3> QED
      BY <1>5, <2>3, <3>1
  <2> QED
    BY <2>0, <2>1, <2>2, <2>3
<1> QED
  BY <1>9, <1>10

(* What the loops start from, and one round of the loop n is in.           *)
Untaken == [batch |-> <<>>, budget |-> TokenBudget, running |-> <<>>, waiting |-> <<>>]
Round(acc, n) == IF n <= Len(Kept) THEN TakeRunning(acc, Queue[n]) ELSE TakeWaiting(acc, Queue[n])

(* What the loops start from is as TakenInv says.                          *)
LEMMA UntakenInv == ASSUME GenerationInv PROVE TakenInv(Untaken, 0)
<1>1. PlacesInv(<<>>, <<>>, 0)
  <2>1. Elements(<<>>) = {} /\ Distinct(<<>>) /\ Before(0) = {} /\ Len(<<>>) = 0
    BY DEF Elements, Distinct, Before
  <2>2. Len(Kept) \in Nat /\ MaxNumSeqs \in Nat
    BY QueueFacts, GenerationAssumption
  <2> QED
    BY <2>1, <2>2 DEF PlacesInv
<1>2. StepsInv(<<>>, TokenBudget, <<>>)
  <2>1. TokenBudget \in 0..TokenBudget /\ MaxNumSeqs - 0 = MaxNumSeqs
    BY GenerationAssumption
  <2>2. MaxNumSeqs * ChunkTokens = (MaxNumSeqs - Len(<<>>)) * ChunkTokens
    BY <2>1
  <2> QED
    BY <2>1, <2>2 DEF StepsInv, Ample
<1> QED
  BY <1>1, <1>2, SelectionParts DEF Untaken

(* Every selection of the loops is as TakenInv says.                       *)
LEMMA TakenFacts ==
  ASSUME GenerationInv
  PROVE  TakenInv(Taken[Len(Queue)], Len(Queue))
<1> DEFINE N == Len(Queue)
<1>0. N \in Nat /\ \A n \in 1..N : n - 1 \in 0..N /\ n \in 0..N
  BY QueueFacts
<1>1. \A n \in 1..N : \A acc : TakenInv(acc, n - 1) => TakenInv(Round(acc, n), n)
  <2> SUFFICES ASSUME NEW n \in 1..N, NEW acc, TakenInv(acc, n - 1)
               PROVE  TakenInv(Round(acc, n), n)
    OBVIOUS
  <2>1. n \in Nat /\ Len(Kept) \in Nat
    BY QueueFacts
  <2> QED
    BY <2>1, TakenNext DEF Round
<1>2. TakenInv(Untaken, 0) /\ Untaken \in Selections
  BY UntakenInv DEF TakenInv
<1> DEFINE Good(acc, n) == n \in 1..N /\ TakenInv(acc, n - 1)
           g == [p \in Nat \X Selections |->
                   IF Good(p[2], p[1]) THEN Round(p[2], p[1]) ELSE p[2]]
           Def(f) == [n \in 0..N |-> IF n = 0 THEN Untaken ELSE Round(f[n - 1], n)]
<1>3. g \in [Nat \X Selections -> Selections]
  <2> SUFFICES ASSUME NEW n \in Nat, NEW acc \in Selections, Good(acc, n)
               PROVE  Round(acc, n) \in Selections
    OBVIOUS
  <2> QED
    BY <1>1 DEF TakenInv
<1>4. \A n \in Nat, acc \in Selections : Good(acc, n) => g[<<n, acc>>] = Round(acc, n)
  OBVIOUS
<1> HIDE DEF g, N
<1>5. PICK f \in [0..N -> Selections] : RecursesTo(f, Untaken, g, N)
  BY <1>0, <1>2, <1>3, RecursionExists
<1>6. \A n \in 0..N : TakenInv(f[n], n)
  <2> DEFINE S == {n \in Nat : n \in 0..N => TakenInv(f[n], n)}
  <2>1. 0 \in S
    BY <1>0, <1>2, <1>5 DEF RecursesTo
  <2>2. ASSUME NEW n \in Nat, n \in S PROVE n + 1 \in S
    <3> SUFFICES ASSUME n + 1 \in 0..N PROVE TakenInv(f[n + 1], n + 1)
      OBVIOUS
    <3>1. n + 1 \in 1..N /\ n \in 0..N /\ n + 1 \in Nat /\ (n + 1) - 1 = n
      BY <1>0
    <3>2. TakenInv(f[n], n) /\ f[n] \in Selections
      BY <2>2, <3>1
    <3>3. f[n + 1] = g[<<n + 1, f[n]>>]
      BY <1>5, <3>1 DEF RecursesTo
    <3>4. Good(f[n], n + 1)
      BY <3>1, <3>2
    <3>5. f[n + 1] = Round(f[n], n + 1)
      BY <1>4, <3>1, <3>2, <3>3, <3>4
    <3> QED
      BY <1>1, <3>1, <3>2, <3>5
  <2> HIDE DEF S
  <2>3. Nat \subseteq S
    BY <2>1, <2>2, NumberInduction
  <2> QED
    BY <1>0, <2>3 DEF S
<1>7. f = Def(f)
  <2>1. ASSUME NEW n \in 0..N PROVE f[n] = IF n = 0 THEN Untaken ELSE Round(f[n - 1], n)
    <3>1. CASE n = 0
      BY <1>5, <3>1 DEF RecursesTo
    <3>2. CASE n # 0
      <4>1. n \in 1..N /\ n - 1 \in 0..N /\ n \in Nat
        BY <1>0, <3>2
      <4>2. f[n] = g[<<n, f[n - 1]>>] /\ f[n - 1] \in Selections /\ Good(f[n - 1], n)
        BY <1>5, <1>6, <4>1 DEF RecursesTo
      <4> QED
        BY <1>4, <3>2, <4>1, <4>2
    <3> QED
      BY <3>1, <3>2
  <2> QED
    BY <2>1
<1>8. Taken = CHOOSE t : t = Def(t)
  BY DEF Taken, Round, Untaken, N
<1>9. Taken = Def(Taken)
  BY <1>7, <1>8
<1>10. \A n \in 0..N : Taken[n] = IF n = 0 THEN Untaken ELSE Round(Taken[n - 1], n)
  BY <1>9
<1>11. \A n \in 0..N : TakenInv(Taken[n], n)
  <2> DEFINE S == {n \in Nat : n \in 0..N => TakenInv(Taken[n], n)}
  <2>1. 0 \in S
    BY <1>0, <1>2, <1>10
  <2>2. ASSUME NEW n \in Nat, n \in S PROVE n + 1 \in S
    <3> SUFFICES ASSUME n + 1 \in 0..N PROVE TakenInv(Taken[n + 1], n + 1)
      OBVIOUS
    <3>1. n + 1 \in 1..N /\ n \in 0..N /\ n + 1 # 0 /\ (n + 1) - 1 = n
      BY <1>0
    <3>2. TakenInv(Taken[n], (n + 1) - 1)
      BY <2>2, <3>1
    <3>3. Taken[n + 1] = Round(Taken[n], n + 1)
      BY <1>10, <3>1
    <3> QED
      BY <1>1, <3>1, <3>2, <3>3
  <2> HIDE DEF S
  <2>3. Nat \subseteq S
    BY <2>1, <2>2, NumberInduction
  <2> QED
    BY <1>0, <2>3 DEF S
<1> QED
  BY <1>0, <1>11 DEF N

-----------------------------------------------------------------------------
(* The selection as a step of the engine thread.                           *)

(* With a step for each request, num_scheduled_tokens is that step's.      *)
OneEach(b) == \A i, j \in 1..Len(b) : b[i].req = b[j].req => i = j

(* What num_scheduled_tokens says then of each request.                    *)
LEMMA ScheduledTokens ==
  ASSUME NEW b \in Seq(Steps), OneEach(b), NEW r
  PROVE  /\ \A i \in 1..Len(b) : b[i].req = r => NumScheduledTokens(b, r) = b[i].tokens
         /\ (\A i \in 1..Len(b) : b[i].req # r) => NumScheduledTokens(b, r) = 0
         /\ NumScheduledTokens(b, r) \in Nat
<1>1. DOMAIN b = 1..Len(b) /\ Len(b) \in Nat /\ \A i \in 1..Len(b) : b[i] \in Steps
  BY LenProperties, ElementOfSeq
<1>2. ASSUME NEW i \in 1..Len(b), b[i].req = r
      PROVE  NumScheduledTokens(b, r) = b[i].tokens /\ b[i].tokens \in Nat
  <2>1. StepsOf(b, r) = {i}
    BY <1>1, <1>2 DEF StepsOf, OneEach
  <2>2. i \in Nat /\ i >= i
    BY <1>1
  <2>3. Max({i}) = i
    BY <2>2 DEF Max
  <2>4. b[i].tokens \in Nat
    <3>1. b[i].tokens \in 1..TokenBudget
      BY <1>1 DEF Steps
    <3> QED
      BY <3>1
  <2> QED
    BY <2>1, <2>3, <2>4 DEF NumScheduledTokens
<1>3. ASSUME \A i \in 1..Len(b) : b[i].req # r
      PROVE  NumScheduledTokens(b, r) = 0
  <2>1. StepsOf(b, r) = {}
    BY <1>1, <1>3 DEF StepsOf
  <2> QED
    BY <2>1 DEF NumScheduledTokens
<1> QED
  BY <1>2, <1>3

(* The batch that schedule() makes.                                        *)
LEMMA ScheduledBatch ==
  ASSUME GenerationInv, Schedule
  PROVE  /\ batch' \in Seq(Steps) /\ OneEach(batch')
         /\ \A i \in 1..Len(batch') :
              /\ StepOk(batch'[i])
              /\ batch'[i].req \in KeptInQueue /\ batch'[i].req \in requests
<1> DEFINE N == Len(Queue)
           sel == Taken[N]
<1>1. /\ batch' = sel.batch /\ TakenInv(sel, N) /\ engine_pc = "schedule"
      /\ Elements(Queue) = InQueues
  BY TakenFacts, QueueFacts DEF Schedule
<1> HIDE DEF sel, N
<1>2. /\ sel.batch \in Seq(Steps) /\ OneEach(sel.batch)
      /\ \A i \in 1..Len(sel.batch) : StepOk(sel.batch[i]) /\ sel.batch[i].req \in Before(N)
  BY <1>1 DEF TakenInv, StepsInv, PlacesInv, OneEach
<1>3. Before(N) = InQueues
  BY <1>1 DEF Before, N, Elements
<1>4. KeptInQueue = InQueues
  <2>1. Elements(snapshot) = {}
    BY <1>1 DEF GenerationInv, PhaseInv, Elements
  <2> QED
    BY <1>1, <2>1 DEF KeptInQueue, ToVisit
<1> QED
  BY <1>1, <1>2, <1>3, <1>4 DEF StepOk

(* The queues it leaves: trimmed, and with the parked requests back.       *)
LEMMA ScheduledQueues ==
  ASSUME GenerationInv, Schedule
  PROVE  QueuesInv' /\ waiting' \in Seq(Reqs) /\ running' \in Seq(Reqs)
         /\ InQueues' \subseteq InQueues \cup Parked /\ Parked' = {}
<1> DEFINE N == Len(Queue)
           sel == Taken[N]
           ru == sel.running
           wa == sel.waiting
           cr == waiting_for_chunk_running_requests
           cw == waiting_for_chunk_waiting_requests
<1>1. /\ waiting' = wa \o cw /\ running' = ru \o cr /\ TakenInv(sel, N)
      /\ waiting_for_chunk_waiting_requests' = <<>> /\ waiting_for_chunk_running_requests' = <<>>
      /\ requests' = requests /\ Elements(Queue) = InQueues
  BY TakenFacts, QueueFacts DEF Schedule
<1>2. cr \in Seq(Reqs) /\ cw \in Seq(Reqs)
  BY EngineTypes
<1> HIDE DEF sel, N
<1>3. Before(N) = InQueues
  BY <1>1 DEF Before, N, Elements
<1>4. /\ ru \in Seq(Reqs) /\ wa \in Seq(Reqs)
      /\ Distinct(ru) /\ Distinct(wa) /\ Elements(ru) \cap Elements(wa) = {}
      /\ Elements(ru) \cup Elements(wa) \subseteq InQueues
      /\ requests \cap InQueues \subseteq Elements(ru) \cup Elements(wa)
  BY <1>1, <1>3 DEF TakenInv, PlacesInv
<1>5. /\ Distinct(cr) /\ Distinct(cw) /\ Elements(cr) \cap Elements(cw) = {}
      /\ Parked = Elements(cw) \cup Elements(cr) /\ InQueues \cap Parked = {}
      /\ requests \subseteq InQueues \cup Parked
  BY DEF GenerationInv, QueuesInv, Parked
<1> HIDE DEF ru, wa, cr, cw
<1>6. /\ wa \o cw \in Seq(Reqs) /\ Elements(wa \o cw) = Elements(wa) \cup Elements(cw)
      /\ Distinct(wa \o cw) <=> Distinct(wa) /\ Distinct(cw) /\ Elements(wa) \cap Elements(cw) = {}
  BY <1>2, <1>4, ElementsConcat
<1>7. /\ ru \o cr \in Seq(Reqs) /\ Elements(ru \o cr) = Elements(ru) \cup Elements(cr)
      /\ Distinct(ru \o cr) <=> Distinct(ru) /\ Distinct(cr) /\ Elements(ru) \cap Elements(cr) = {}
  BY <1>2, <1>4, ElementsConcat
<1>8. /\ waiting' \in Seq(Reqs) /\ Elements(waiting') = Elements(wa) \cup Elements(cw)
      /\ running' \in Seq(Reqs) /\ Elements(running') = Elements(ru) \cup Elements(cr)
      /\ Distinct(waiting') /\ Distinct(running')
  BY <1>1, <1>4, <1>5, <1>6, <1>7
<1>9. Elements(<<>>) = {} /\ Distinct(<<>>)
  BY DEF Elements, Distinct
<1>10. /\ Elements(waiting_for_chunk_waiting_requests') = {}
       /\ Elements(waiting_for_chunk_running_requests') = {}
       /\ Distinct(waiting_for_chunk_waiting_requests')
       /\ Distinct(waiting_for_chunk_running_requests')
       /\ Parked' = {}
  BY <1>1, <1>9 DEF Parked
<1>11. /\ InQueues' = Elements(wa) \cup Elements(cw) \cup Elements(ru) \cup Elements(cr)
       /\ InQueues' \subseteq InQueues \cup Parked
  BY <1>4, <1>5, <1>8 DEF InQueues
<1>12. requests' \subseteq InQueues' \cup Parked' /\ Elements(waiting') \cap Elements(running') = {}
  BY <1>1, <1>4, <1>5, <1>8, <1>11
<1>13. QueuesInv'
  BY <1>8, <1>10, <1>12 DEF QueuesInv
<1> QED
  BY <1>8, <1>10, <1>11, <1>13

(* The batch is of requests that were kept in their queue: each has a      *)
(* chunk to use, and none is asked for, unless it was the final one.       *)
LEMMA ScheduleGen ==
  ASSUME GenerationInv, Schedule
  PROVE  GenerationInv'
<1>1. LinkInv'
  BY LinkUnchanged DEF GenerationInv, Schedule
<1>2. /\ engine_pc = "schedule" /\ engine_pc' = "update"
      /\ requests_with_ready_chunks' = requests_with_ready_chunks \ BatchReqs(batch')
      /\ num_computed_tokens' = [r \in Reqs |->
           Smaller(num_computed_tokens[r] + NumScheduledTokens(batch', r), ChunkTokens)]
      /\ waiting_for_chunk_waiting_requests' = <<>> /\ waiting_for_chunk_running_requests' = <<>>
      /\ UNCHANGED <<pending_save_reqs, save_task, lost, pending_load_reqs, finished_load_reqs,
                     finished_requests, get_req_chunk>>
      /\ UNCHANGED <<requests, status, loaded, snapshot, marking, emitted, aborted>>
  BY DEF Schedule, linkVars, producerVars, recvVars, loadVars
<1>3. /\ batch' \in Seq(Steps) /\ OneEach(batch') /\ DOMAIN batch' = 1..Len(batch')
      /\ \A i \in 1..Len(batch') : batch'[i].req \in KeptInQueue /\ batch'[i].req \in requests
  <2>1. /\ batch' \in Seq(Steps) /\ OneEach(batch')
        /\ \A i \in 1..Len(batch') : batch'[i].req \in KeptInQueue /\ batch'[i].req \in requests
    BY ScheduledBatch
  <2> QED
    BY <2>1, LenProperties
<1>4. /\ QueuesInv' /\ waiting' \in Seq(Reqs) /\ running' \in Seq(Reqs)
      /\ InQueues' \subseteq InQueues \cup Parked /\ Parked' = {}
  BY ScheduledQueues
<1>5. num_computed_tokens' \in [Reqs -> 0..ChunkTokens]
  <2> SUFFICES ASSUME NEW r \in Reqs
               PROVE  Smaller(num_computed_tokens[r] + NumScheduledTokens(batch', r), ChunkTokens)
                        \in 0..ChunkTokens
    BY <1>2
  <2>1. num_computed_tokens[r] \in 0..ChunkTokens
    BY DEF GenerationInv, TypeOK
  <2> DEFINE b == batch'
  <2>2. b \in Seq(Steps) /\ OneEach(b)
    BY <1>3
  <2> HIDE DEF b
  <2>3. NumScheduledTokens(b, r) \in Nat
    BY <2>2, ScheduledTokens
  <2>4. Smaller(num_computed_tokens[r] + NumScheduledTokens(b, r), ChunkTokens) \in 0..ChunkTokens
    BY <2>1, <2>3, GenerationAssumption DEF Smaller
  <2> QED
    BY <2>4 DEF b
<1>6. NothingSaved' /\ TypeOK'
  <2>1. <<>> \in Seq(Reqs)
    OBVIOUS
  <2> QED
    BY <1>1, <1>2, <1>3, <1>4, <1>5, <2>1 DEF GenerationInv, LinkInv, NothingSaved, TypeOK
<1>7. PhaseInv'
  BY <1>2, <1>4 DEF GenerationInv, PhaseInv
<1>8. NewInv'
  <2>1. \A r \in Reqs : status[r] = "NEW" => \A i \in 1..Len(batch') : batch'[i].req # r
    BY <1>3 DEF GenerationInv, NewInv
  <2>2. \A r \in Reqs : status[r] = "NEW" => num_computed_tokens'[r] = 0
    <3> SUFFICES ASSUME NEW r \in Reqs, status[r] = "NEW" PROVE num_computed_tokens'[r] = 0
      OBVIOUS
    <3> DEFINE b == batch'
    <3>1. b \in Seq(Steps) /\ OneEach(b) /\ \A i \in 1..Len(b) : b[i].req # r
      BY <1>3, <2>1
    <3>2. num_computed_tokens'[r]
            = Smaller(num_computed_tokens[r] + NumScheduledTokens(b, r), ChunkTokens)
      BY <1>2
    <3> HIDE DEF b
    <3>3. NumScheduledTokens(b, r) = 0 /\ num_computed_tokens[r] = 0
      BY <3>1, ScheduledTokens DEF GenerationInv, NewInv
    <3> QED
      BY <3>2, <3>3, GenerationAssumption DEF Smaller
  <2> QED
    BY <1>2, <1>4, <2>2 DEF GenerationInv, NewInv
<1>9. ToVisit = {} /\ ToVisit' = {} /\ KeptInQueue' = {}
  <2>1. Elements(snapshot) = {}
    BY <1>2 DEF GenerationInv, PhaseInv, Elements
  <2> QED
    BY <1>2, <2>1 DEF ToVisit, KeptInQueue
<1>10. LiveInv'
  <2> SUFFICES ASSUME NEW q \in requests PROVE StatusOf(q)' /\ ApartOf(q)'
    BY <1>2 DEF LiveInv
  <2>1. StatusOf(q) /\ ApartOf(q)
    BY DEF GenerationInv, LiveInv
  <2> QED
    BY <1>2, <1>9, <2>1 DEF StatusOf, ApartOf
<1>11. BatchInv'
  <2>1. ASSUME NEW q \in requests, q \in KeptInQueue, q \in pending_load_reqs
        PROVE  q \in finished_requests
    <3>1. StatusOf(q) /\ ApartOf(q)
      BY DEF GenerationInv, LiveInv
    <3> QED
      BY <2>1, <3>1 DEF StatusOf, ApartOf, HasChunk
  <2> QED
    BY <1>2, <1>3, <2>1 DEF BatchInv, OneEach
<1> QED
  BY <1>1, <1>4, <1>6, <1>7, <1>8, <1>10, <1>11 DEF GenerationInv

-----------------------------------------------------------------------------
(* The initial state: nothing was added and nothing is on its way.         *)
LEMMA InitGen == Init => GenerationInv
<1> SUFFICES ASSUME Init PROVE GenerationInv
  OBVIOUS
<1>1. LinkInv
  BY InitInv DEF Init
<1>2. NothingSaved
  BY DEF Init, LinkInit, NothingSaved
<1>3. Elements(<<>>) = {} /\ Distinct(<<>>)
  BY DEF Elements, Distinct
<1>4. TypeOK
  <2>1. /\ num_computed_tokens \in [Reqs -> 0..ChunkTokens]
        /\ status \in [Reqs -> {"NEW", "WAITING", "RUNNING", "WAITING_FOR_CHUNK"} \union Finished]
        /\ emitted \in [Reqs -> Seq(Steps)]
    BY GenerationAssumption DEF Init
  <2> QED
    BY <1>1, <2>1 DEF Init, TypeOK, LinkInv
<1>5. Parked = {} /\ InQueues = {} /\ QueuesInv
  BY <1>3 DEF Init, Parked, InQueues, QueuesInv
<1>6. PhaseInv /\ NewInv
  BY <1>3, <1>5 DEF Init, LinkInit, PhaseInv, NewInv
<1>7. LiveInv /\ BatchInv
  BY DEF Init, LiveInv, BatchInv
<1> QED
  BY <1>1, <1>2, <1>4, <1>5, <1>6, <1>7 DEF GenerationInv

(* A step that changes nothing.                                            *)
LEMMA StutterGen ==
  ASSUME GenerationInv, UNCHANGED vars
  PROVE  GenerationInv'
<1> USE DEF vars, engineVars
<1>1. LinkInv'
  BY LinkUnchanged DEF GenerationInv
<1>2. UNCHANGED <<pending_save_reqs, save_task, lost, recvVars, loadVars>>
  BY DEF linkVars, producerVars
<1>3. NothingSaved' /\ TypeOK'
  BY <1>1, <1>2 DEF GenerationInv, LinkInv, NothingSaved, TypeOK, queueVars
<1> USE <1>2 DEF recvVars
<1>4. QueuesInv' /\ PhaseInv' /\ LiveInv' /\ BatchInv'
  BY SameEngine DEF GenerationInv
<1>5. NewInv'
  BY DEF GenerationInv, NewInv, InQueues, Parked, queueVars, loadVars
<1> QED
  BY <1>1, <1>3, <1>4, <1>5 DEF GenerationInv

(* GenerationInv is inductive: one lemma per action.                       *)
LEMMA NextGen ==
  ASSUME GenerationInv, [Next]_vars
  PROVE  GenerationInv'
<1>1. ASSUME NEW r \in Reqs, AddRequest(r) \/ Abort(r) PROVE GenerationInv'
  BY <1>1, AddRequestGen, AbortGen
<1>2. CASE EngineStep
  <2>1. CASE ProcessPendingChunks
    BY <2>1, VisitReadyGen, VisitAskGen, VisitAskMarkGen, VisitLoadedGen, VisitUnloadedGen,
       NextQueueGen DEF ProcessPendingChunks
  <2> QED
    BY <1>2, <2>1, BeginScheduleGen, ScheduleGen, UpdateGen DEF EngineStep
<1>3. CASE Receive
  BY <1>3, PollGen, PublishGen, MarkStatusGen, FillPromptGen DEF Receive
<1>4. ASSUME NEW r \in Reqs, NEW last \in BOOLEAN, Arrive(r, last) PROVE GenerationInv'
  BY <1>4, ArriveGen
<1>5. CASE UNCHANGED vars
  BY <1>5, StutterGen
<1> QED
  BY <1>1, <1>2, <1>3, <1>4, <1>5 DEF Next

(* The inductive invariant holds in every reachable state, for any         *)
(* requests, chunks, aborts, places and token budget.                      *)
THEOREM GenerationInvariant == Spec => []GenerationInv
<1>1. Init => GenerationInv
  BY InitGen
<1>2. GenerationInv /\ [Next]_vars => GenerationInv'
  BY NextGen
<1> QED
  BY <1>1, <1>2, PTL DEF Spec

(* Every variable has its type, the batch and the outputs included.        *)
THEOREM GenerationTypes == Spec => []TypeOK
<1>1. GenerationInv => TypeOK
  BY DEF GenerationInv
<1> QED
  BY <1>1, GenerationInvariant, PTL

(* No interleaving of the engine, the receive thread, clients and the      *)
(* producing stage loses a live request from the queues or queues it twice.*)
LEMMA EachOnce == GenerationInv => QueuesHoldEachOnce
<1> SUFFICES ASSUME GenerationInv PROVE QueuesHoldEachOnce
  OBVIOUS
<1> DEFINE cw == waiting_for_chunk_waiting_requests
           cr == waiting_for_chunk_running_requests
<1>1. /\ waiting \in Seq(Reqs) /\ running \in Seq(Reqs) /\ cw \in Seq(Reqs) /\ cr \in Seq(Reqs)
      /\ Distinct(waiting) /\ Distinct(running) /\ Distinct(cw) /\ Distinct(cr)
      /\ Elements(waiting) \cap Elements(running) = {} /\ Elements(cw) \cap Elements(cr) = {}
      /\ InQueues \cap Parked = {} /\ requests \subseteq InQueues \cup Parked
      /\ InQueues = Elements(waiting) \cup Elements(running)
      /\ Parked = Elements(cw) \cup Elements(cr)
  BY EngineTypes DEF GenerationInv, QueuesInv, InQueues, Parked
<1> HIDE DEF cw, cr
<1> DEFINE a == waiting \o running
           b == a \o cw
           c == b \o cr
<1>2. a \in Seq(Reqs) /\ Elements(a) = InQueues /\ Distinct(a)
  BY <1>1, ElementsConcat
<1> HIDE DEF a
<1>3. b \in Seq(Reqs) /\ Elements(b) = InQueues \cup Elements(cw) /\ Distinct(b)
  BY <1>1, <1>2, ElementsConcat
<1> HIDE DEF b
<1>4. c \in Seq(Reqs) /\ Elements(c) = InQueues \cup Parked /\ Distinct(c)
  BY <1>1, <1>3, ElementsConcat
<1> HIDE DEF c
<1>5. DOMAIN c = 1..Len(c)
  BY <1>4, LenProperties
<1>6. IsInjective(c)
  BY <1>4, <1>5 DEF IsInjective, Distinct
<1>7. requests \subseteq ToSet(c)
  BY <1>1, <1>4, <1>5 DEF ToSet, Elements
<1> QED
  BY <1>6, <1>7 DEF QueuesHoldEachOnce, a, b, c, cw, cr

(* The property of the runs, for every value of the constants.             *)
THEOREM QueuesStayWhole == Spec => []QueuesHoldEachOnce
BY EachOnce, GenerationInvariant, PTL

(* The receive thread replaces no prompt that the running batch uses,      *)
(* unless it brings the final chunk, whose status is there before it.      *)
THEOREM BatchKeepsItsPrompts == Spec => []BatchOwnsPrompts
<1>1. GenerationInv => BatchOwnsPrompts
  BY DEF GenerationInv, BatchInv, BatchOwnsPrompts, BatchReqs
<1> QED
  BY <1>1, GenerationInvariant, PTL

-----------------------------------------------------------------------------
(* How far each request is.                                                *)

(* What a step leaves alone.                                               *)
SameFor(q) ==
  /\ UNCHANGED <<emitted[q], get_req_chunk[q], num_computed_tokens[q], batch>>
  /\ Delivered(q)' = Delivered(q)
  /\ Emits(q)' <=> Emits(q)
  /\ Arrived(q)' <=> Arrived(q)
  /\ q \in pending_load_reqs' <=> q \in pending_load_reqs
  /\ q \in finished_requests => q \in finished_requests'
  /\ batch = <<>> \/ (status'[q] # "FINISHED_STOPPED" => status[q] # "FINISHED_STOPPED")
  /\ recv_req' = q /\ recv_pc' = "publish" => recv_req = q /\ recv_pc = "publish"

(* A step that leaves all of that alone keeps the progress of q.           *)
LEMMA SameProgress ==
  ASSUME NEW q, ProgressOf(q), SameFor(q)
  PROVE  ProgressOf(q)'
<1>1. Feeds(q)' <=> Feeds(q)
  BY DEF SameFor, Feeds
<1>2. batch' = batch
  BY DEF SameFor
<1>3. \A i \in DOMAIN batch : status'[q] # "FINISHED_STOPPED" => status[q] # "FINISHED_STOPPED"
  BY DEF SameFor
<1>4. UNCHANGED <<emitted[q], get_req_chunk[q], num_computed_tokens[q]>>
  BY DEF SameFor
<1> QED
  BY <1>1, <1>2, <1>3, <1>4 DEF SameFor, ProgressOf, Whole

(* A request the scheduler was told is finished only has to be delivered.  *)
LEMMA FinishedProgress ==
  ASSUME NEW q, status'[q] = "FINISHED_STOPPED", marking' # q,
         q \in pending_load_reqs' => Len(emitted'[q]) = Delivered(q)'
  PROVE  ProgressOf(q)'
BY DEF ProgressOf, Emits

(* What the invariants say of a live request.                              *)
LEMMA LiveFacts ==
  ASSUME GenerationInv, ProgressInv, NEW q \in requests
  PROVE  /\ q \in Reqs /\ q # NoReq /\ StatusOf(q) /\ ApartOf(q) /\ ProgressOf(q)
         /\ get_req_chunk[q] \in Nat /\ num_computed_tokens[q] \in 0..ChunkTokens
         /\ emitted[q] \in Seq(Steps) /\ Len(emitted[q]) \in Nat
         /\ recv_req = q => q \in pending_load_reqs
         /\ engine_pc # "update" => batch = <<>> /\ ~Feeds(q)
         /\ snapshot = <<>> => marking = NoReq
         /\ engine_pc \in {"idle", "schedule", "update"} =>
              /\ ToVisit = {} /\ snapshot = <<>> /\ marking = NoReq
<1>1. q \in Reqs /\ q # NoReq /\ StatusOf(q) /\ ApartOf(q) /\ ProgressOf(q)
  BY EngineTypes DEF GenerationInv, LiveInv, ProgressInv
<1>2. /\ get_req_chunk[q] \in Nat /\ num_computed_tokens[q] \in 0..ChunkTokens
      /\ emitted[q] \in Seq(Steps)
  BY <1>1 DEF GenerationInv, TypeOK, LinkTypeOK
<1>3. recv_req = q => q \in pending_load_reqs
  BY <1>1 DEF GenerationInv, LinkInv, RecvInv, PolledIsRegistered
<1>4. engine_pc # "update" => batch = <<>> /\ ~Feeds(q)
  BY DEF GenerationInv, PhaseInv, Feeds
<1>5. snapshot = <<>> => marking = NoReq
  BY DEF GenerationInv, PhaseInv
<1>6. engine_pc \in {"idle", "schedule", "update"} =>
        ToVisit = {} /\ snapshot = <<>> /\ marking = NoReq
  <2>1. Elements(<<>>) = {}
    BY DEF Elements
  <2> QED
    BY <1>5, <2>1 DEF GenerationInv, PhaseInv, ToVisit
<1> QED
  BY <1>1, <1>2, <1>3, <1>4, <1>5, <1>6, LenProperties

(* The receive thread: the counter runs ahead of the delivery by the       *)
(* request it holds.                                                       *)
LEMMA PollProgress ==
  ASSUME GenerationInv, ProgressInv, UNCHANGED engineVars,
         RecvSnapshot \/ \E r \in Reqs : PollMiss(r) \/ PollHit(r)
  PROVE  ProgressInv'
<1> USE DEF engineVars, queueVars
<1>0. UNCHANGED <<pending_load_reqs, finished_load_reqs, finished_requests>>
      /\ (recv_pc' = "publish" => recv_pc = "publish")
      /\ recv_pc = "scan" /\ recv_req = NoReq
  BY LinkAssumption DEF GenerationInv, LinkInv, RecvInv, RecvSnapshot, PollMiss, PollHit, loadVars
<1>1. ASSUME NEW q \in requests PROVE ProgressOf(q)'
  <2>1. /\ q \in Reqs /\ q # NoReq /\ ProgressOf(q) /\ ApartOf(q) /\ get_req_chunk[q] \in Nat
        /\ get_req_chunk \in [Reqs -> Nat] /\ recv_scan \subseteq pending_load_reqs
    BY LiveFacts, PolledFacts DEF GenerationInv, LinkInv, LinkTypeOK
  <2>2. /\ Emits(q)' <=> Emits(q) 
        /\ Arrived(q)' <=> Arrived(q)
    BY <1>0 DEF Emits, Arrived, ToVisit
  <2>3. CASE \E r \in Reqs : PollHit(r) /\ r = q
    <3>1. /\ get_req_chunk'[q] = get_req_chunk[q] + 1 /\ recv_req' = q /\ q \in pending_load_reqs
          /\ recv_pc' # "publish"
      BY <2>1, <2>3 DEF PollHit
    <3>2. Delivered(q)' = Delivered(q)
      BY <1>0, <2>1, <3>1 DEF Delivered
    <3>3. ~Arrived(q)
      BY <2>1, <3>1 DEF ApartOf, Arrived
    <3>4. /\ q \in pending_load_reqs' /\ recv_pc' # "publish" /\ ~Arrived(q)'
          /\ Len(emitted'[q]) = Delivered(q)'
      BY <1>0, <2>1, <2>2, <3>1, <3>2, <3>3 DEF ProgressOf
    <3>5. \A i \in DOMAIN batch' : batch'[i].req = q /\ status'[q] # "FINISHED_STOPPED" => FALSE
      BY <2>1, <3>1 DEF ProgressOf
    <3> QED
      BY <3>4, <3>5 DEF ProgressOf
  <2>4. CASE ~ \E r \in Reqs : PollHit(r) /\ r = q
    <3>1. get_req_chunk'[q] = get_req_chunk[q] /\ recv_req' # q
      BY <1>0, <2>1, <2>4 DEF RecvSnapshot, PollMiss, PollHit
    <3>2. Delivered(q)' = Delivered(q)
      BY <1>0, <2>1, <3>1 DEF Delivered
    <3>3. SameFor(q)
      BY <1>0, <2>2, <3>1, <3>2 DEF SameFor
    <3> QED
      BY <2>1, <3>3, SameProgress
  <2> QED
    BY <2>3, <2>4
<1> QED
  BY <1>1 DEF ProgressInv

(* The producing stage: a chunk in the connector is not received yet.      *)
LEMMA ArriveProgress ==
  ASSUME GenerationInv, ProgressInv, NEW r \in Reqs, NEW last \in BOOLEAN, Arrive(r, last)
  PROVE  ProgressInv'
<1>1. UNCHANGED <<get_req_chunk, recv_req, recv_pc, pending_load_reqs, finished_load_reqs,
               finished_requests, engineVars>>
  BY DEF Arrive, recvVars, loadVars
<1> USE <1>1 DEF engineVars, queueVars
<1>2. ASSUME NEW q \in requests PROVE ProgressOf(q)'
  <2>1. /\ Emits(q)' <=> Emits(q) 
        /\ Arrived(q)' <=> Arrived(q)
        /\ Delivered(q)' = Delivered(q)
    BY DEF Emits, Arrived, ToVisit, Delivered
  <2>2. SameFor(q)
    BY <2>1 DEF SameFor
  <2> QED
    BY <2>2, SameProgress DEF ProgressInv
<1> QED
  BY <1>2 DEF ProgressInv

(* The status of a final chunk: from then on the request is passed over,   *)
(* and its outputs need not follow.                                        *)
LEMMA MarkProgress ==
  ASSUME GenerationInv, ProgressInv, MarkStatus
  PROVE  ProgressInv'
<1>1. /\ recv_pc' # "publish" /\ recv_req' = recv_req
      /\ UNCHANGED <<get_req_chunk, pending_load_reqs, finished_load_reqs>>
      /\ finished_requests \subseteq finished_requests'
      /\ UNCHANGED <<requests, num_computed_tokens, queueVars, requests_with_ready_chunks, loaded,
                     snapshot, marking, engine_pc, batch, emitted, aborted>>
      /\ status' = status \/ status' = [status EXCEPT ![recv_req] = "FINISHED_STOPPED"]
      /\ recv_req \in Reqs /\ recv_req \in pending_load_reqs
  <2>1. recv_pc' # "publish"
    BY GenerationAssumption DEF MarkStatus, PollMark
  <2> QED
    BY <2>1, PolledFacts DEF MarkStatus, PollMark, loadVars
<1> USE DEF queueVars
<1>2. ASSUME NEW q \in requests PROVE ProgressOf(q)'
  <2>1. /\ q \in Reqs /\ ProgressOf(q) /\ ApartOf(q)
        /\ Arrived(q)' <=> Arrived(q)
        /\ Delivered(q)' = Delivered(q)
    BY <1>1, LiveFacts DEF Arrived, ToVisit, Delivered
  <2>2. CASE q = recv_req
    <3>1. q \in pending_load_reqs /\ ~Arrived(q)
      BY <1>1, <2>1, <2>2 DEF ApartOf, Arrived
    <3>2. q \in pending_load_reqs' /\ Len(emitted'[q]) = Delivered(q)'
      BY <1>1, <2>1, <3>1 DEF ProgressOf
    <3>3. status'[q] # "FINISHED_STOPPED" => status[q] # "FINISHED_STOPPED"
      BY <1>1, <2>1, EngineTypes
    <3>4. \A i \in DOMAIN batch' : batch'[i].req = q /\ status'[q] # "FINISHED_STOPPED" => FALSE
      BY <1>1, <2>1, <3>1, <3>3 DEF ProgressOf
    <3> QED
      BY <1>1, <2>1, <3>1, <3>2, <3>4 DEF ProgressOf
  <2>3. CASE q # recv_req
    <3>1. status'[q] = status[q]
      BY <1>1, <2>1, <2>3, EngineTypes
    <3>2. Emits(q)' <=> Emits(q)
      BY <1>1, <3>1 DEF Emits
    <3>3. SameFor(q)
      BY <1>1, <2>1, <3>1, <3>2 DEF SameFor
    <3> QED
      BY <2>1, <3>3, SameProgress
  <2> QED
    BY <2>2, <2>3
<1> QED
  BY <1>1, <1>2 DEF ProgressInv

(* The prompt and the progress of a request that awaits its chunk.         *)
LEMMA FillProgress ==
  ASSUME GenerationInv, ProgressInv, FillPrompt
  PROVE  ProgressInv'
<1>1. /\ UNCHANGED <<get_req_chunk, recv_req, pending_load_reqs, finished_load_reqs, finished_requests>>
      /\ UNCHANGED <<requests, status, queueVars, requests_with_ready_chunks, loaded,
                     snapshot, marking, engine_pc, batch, emitted, aborted>>
      /\ num_computed_tokens' = [num_computed_tokens EXCEPT ![recv_req] = 0]
      /\ recv_req \in Reqs /\ recv_req \in pending_load_reqs
  BY PolledFacts DEF FillPrompt, PollFill, loadVars
<1> USE DEF queueVars
<1>2. ASSUME NEW q \in requests PROVE ProgressOf(q)'
  <2>1. /\ q \in Reqs /\ ProgressOf(q) /\ ApartOf(q)
        /\ Emits(q)' <=> Emits(q)
        /\ Arrived(q)' <=> Arrived(q)
        /\ Delivered(q)' = Delivered(q)
    BY <1>1, LiveFacts DEF Emits, Arrived, ToVisit, Delivered
  <2>2. num_computed_tokens'[q] = IF q = recv_req THEN 0 ELSE num_computed_tokens[q]
    BY <1>1, <2>1 DEF GenerationInv, TypeOK
  <2>3. CASE q = recv_req
    <3>1. q \in pending_load_reqs /\ ~Arrived(q)
      BY <1>1, <2>1, <2>3 DEF ApartOf, Arrived
    <3>2. /\ q \in pending_load_reqs' /\ Len(emitted'[q]) = Delivered(q)' /\ num_computed_tokens'[q] = 0
      BY <1>1, <2>1, <2>2, <2>3, <3>1 DEF ProgressOf
    <3>3. \A i \in DOMAIN batch' : batch'[i].req = q /\ status'[q] # "FINISHED_STOPPED" => FALSE
      BY <1>1, <2>1, <3>1 DEF ProgressOf
    <3> QED
      BY <1>1, <2>1, <3>1, <3>2, <3>3 DEF ProgressOf
  <2>4. CASE q # recv_req
    <3>1. SameFor(q)
      BY <1>1, <2>1, <2>2, <2>4 DEF SameFor
    <3> QED
      BY <2>1, <3>1, SameProgress
  <2> QED
    BY <2>3, <2>4
<1> QED
  BY <1>1, <1>2 DEF ProgressInv

(* A delivered chunk is one more than the outputs so far.                  *)
LEMMA PublishProgress ==
  ASSUME GenerationInv, ProgressInv, PollPublish, UNCHANGED engineVars
  PROVE  ProgressInv'
<1>1. /\ finished_load_reqs' = finished_load_reqs \cup {recv_req}
      /\ pending_load_reqs' = pending_load_reqs \ {recv_req}
      /\ UNCHANGED <<get_req_chunk, finished_requests>> /\ recv_pc = "publish" /\ recv_pc' = "scan"
      /\ recv_req' = NoReq /\ recv_req \in Reqs /\ recv_req \in pending_load_reqs
  BY PolledFacts DEF PollPublish
<1> USE DEF engineVars, queueVars
<1>2. ASSUME NEW q \in requests PROVE ProgressOf(q)'
  <2>1. /\ q \in Reqs /\ q # NoReq /\ ProgressOf(q) /\ ApartOf(q) /\ get_req_chunk[q] \in Nat
        /\ Emits(q)' <=> Emits(q) 
        /\ snapshot = <<>> => marking = NoReq
        /\ engine_pc # "update" => batch = <<>>
    BY LiveFacts DEF Emits
  <2>2. CASE q = recv_req
    <3>1. Len(emitted[q]) = get_req_chunk[q] - 1 /\ (Emits(q) => num_computed_tokens[q] = 0)
      BY <1>1, <2>1, <2>2 DEF ProgressOf, Delivered
    <3>2. ASSUME NEW i \in DOMAIN batch, batch[i].req = q PROVE ~Emits(q)
      <4>1. status[q] = "FINISHED_STOPPED"
        BY <1>1, <2>1, <2>2, <3>2 DEF ProgressOf
      <4>2. engine_pc = "update"
        BY <2>1, <3>2
      <4>3. marking = NoReq
        BY <2>1, <4>2 DEF GenerationInv, PhaseInv
      <4> QED
        BY <2>1, <4>1, <4>3 DEF Emits
    <3>3. q \notin pending_load_reqs' /\ Arrived(q)'
      BY <1>1, <2>2 DEF Arrived
    <3>4. Emits(q) => /\ Len(emitted[q]) + 1 = get_req_chunk[q] /\ num_computed_tokens[q] = 0
                      /\ \A i \in DOMAIN batch : batch[i].req # q
      BY <2>1, <3>1, <3>2
    <3>5. \A i \in DOMAIN batch : batch[i].req = q => status[q] = "FINISHED_STOPPED"
      BY <1>1, <2>1, <2>2 DEF ProgressOf
    <3> QED
      BY <1>1, <2>1, <3>3, <3>4, <3>5 DEF ProgressOf
  <2>3. CASE q # recv_req
    <3>1. /\ Arrived(q)' <=> Arrived(q)
          /\ Delivered(q)' = Delivered(q)
      BY <1>1, <2>1, <2>3 DEF Arrived, Delivered, ToVisit
    <3>2. SameFor(q)
      BY <1>1, <2>1, <2>3, <3>1 DEF SameFor
    <3> QED
      BY <2>1, <3>2, SameProgress
  <2> QED
    BY <2>2, <2>3
<1> QED
  BY <1>2 DEF ProgressInv

(* Clients: a request that was added has no chunk and no output yet.       *)
LEMMA AddRequestProgress ==
  ASSUME GenerationInv, ProgressInv, NEW r \in Reqs, AddRequest(r)
  PROVE  ProgressInv'
<1>1. /\ requests' = requests \cup {r} /\ status' = [status EXCEPT ![r] = "WAITING"]
      /\ engine_pc = "idle" /\ status[r] = "NEW"
      /\ UNCHANGED <<pending_load_reqs, finished_load_reqs, finished_requests, get_req_chunk,
                     recv_req, recv_pc>>
      /\ UNCHANGED <<num_computed_tokens, running, requests_with_ready_chunks,
                     loaded, snapshot, marking, engine_pc, batch, emitted>>
  BY DEF AddRequest, linkVars, producerVars, recvVars, loadVars
<1>2. /\ r \notin pending_load_reqs /\ r \notin finished_load_reqs /\ r \notin loaded
      /\ r \notin requests_with_ready_chunks /\ get_req_chunk[r] = 0 /\ emitted[r] = <<>>
  BY <1>1 DEF GenerationInv, NewInv
<1>3. batch = <<>>
  BY <1>1 DEF GenerationInv, PhaseInv
<1>4. ToVisit' = ToVisit
  BY <1>1 DEF ToVisit
<1>5. ASSUME NEW q \in requests' PROVE ProgressOf(q)'
  <2>1. CASE q = r
    <3>1. q \notin pending_load_reqs' /\ ~Arrived(q)'
      BY <1>1, <1>2, <2>1 DEF Arrived
    <3>2. ~Feeds(q)' /\ \A i \in DOMAIN batch' : FALSE
      BY <1>1, <1>3 DEF Feeds
    <3>3. get_req_chunk'[q] = 0 /\ emitted'[q] = <<>> /\ Len(<<>>) = 0
      BY <1>1, <1>2, <2>1
    <3> QED
      BY <3>1, <3>2, <3>3 DEF ProgressOf
  <2>2. CASE q # r
    <3>1. q \in Reqs /\ ProgressOf(q) /\ status'[q] = status[q]
      BY <1>1, <2>2, EngineTypes DEF ProgressInv
    <3>2. (Emits(q)' <=> Emits(q)) /\ (Arrived(q)' <=> Arrived(q)) /\ Delivered(q)' = Delivered(q)
      BY <1>1, <1>4, <3>1 DEF Emits, Arrived, Delivered
    <3>3. SameFor(q)
      BY <1>1, <3>1, <3>2 DEF SameFor
    <3> QED
      BY <3>1, <3>3, SameProgress
  <2> QED
    BY <2>1, <2>2
<1> QED
  BY <1>1, <1>5 DEF ProgressInv

(* An aborted request is no longer followed.                               *)
LEMMA AbortProgress ==
  ASSUME GenerationInv, ProgressInv, NEW r \in Reqs, Abort(r)
  PROVE  ProgressInv'
<1>1. /\ requests' = requests \ {r} /\ status' = [status EXCEPT ![r] = "FINISHED_ABORTED"]
      /\ engine_pc = "idle"
      /\ UNCHANGED <<pending_load_reqs, finished_load_reqs, finished_requests, get_req_chunk,
                     recv_req, recv_pc>>
      /\ UNCHANGED <<num_computed_tokens, requests_with_ready_chunks,
                     loaded, snapshot, marking, engine_pc, batch, emitted>>
  BY DEF Abort, linkVars, producerVars, recvVars, loadVars
<1>2. ToVisit' = ToVisit
  BY <1>1 DEF ToVisit
<1>3. ASSUME NEW q \in requests' PROVE ProgressOf(q)'
  <2>1. q \in Reqs /\ ProgressOf(q) /\ status'[q] = status[q]
    BY <1>1, EngineTypes DEF ProgressInv
  <2>2. (Emits(q)' <=> Emits(q)) /\ (Arrived(q)' <=> Arrived(q)) /\ Delivered(q)' = Delivered(q)
    BY <1>1, <1>2, <2>1 DEF Emits, Arrived, Delivered
  <2>3. SameFor(q)
    BY <1>1, <2>1, <2>2 DEF SameFor
  <2> QED
    BY <2>1, <2>3, SameProgress
<1> QED
  BY <1>1, <1>3 DEF ProgressInv

(* The collected requests are all about to be visited.                     *)
LEMMA BeginScheduleProgress ==
  ASSUME GenerationInv, ProgressInv, BeginSchedule
  PROVE  ProgressInv'
<1>1. /\ loaded' = finished_load_reqs /\ finished_load_reqs' = {} /\ snapshot' = waiting
      /\ engine_pc = "idle" /\ engine_pc' = "waiting"
      /\ UNCHANGED <<pending_load_reqs, get_req_chunk, recv_req, recv_pc, finished_requests>>
      /\ UNCHANGED <<requests, status, num_computed_tokens, running, requests_with_ready_chunks,
                     marking, batch, emitted>>
  BY DEF BeginSchedule, GetFinishedRequests, recvVars, queueVars
<1>2. requests \subseteq InQueues
  BY <1>1 DEF GenerationInv, QueuesInv, PhaseInv
<1>3. ToVisit' = InQueues
  BY <1>1 DEF ToVisit, InQueues
<1>4. ASSUME NEW q \in requests PROVE ProgressOf(q)'
  <2>1. ProgressOf(q) /\ ToVisit = {}
    BY <1>1, LiveFacts
  <2>2. q \in loaded' \cap ToVisit' <=> q \in finished_load_reqs
    BY <1>1, <1>2, <1>3
  <2>3. (Emits(q)' <=> Emits(q)) /\ (Arrived(q)' <=> Arrived(q)) /\ Delivered(q)' = Delivered(q)
    BY <1>1, <2>1, <2>2 DEF Emits, Arrived, Delivered
  <2>4. SameFor(q)
    BY <1>1, <2>3 DEF SameFor
  <2> QED
    BY <2>1, <2>4, SameProgress
<1> QED
  BY <1>1, <1>4 DEF ProgressInv

(* A visit that leaves its queue or parks the visited request disturbs no  *)
(* other request.                                                          *)
LEMMA VisitProgress ==
  ASSUME GenerationInv, ProgressInv, Visiting, PassedOn,
         UNCHANGED <<get_req_chunk, recv_req, recv_pc, pending_load_reqs, finished_load_reqs,
                     finished_requests>>,
         UNCHANGED <<requests, num_computed_tokens, loaded, batch, emitted>>,
         marking' = NoReq, NEW st, status' = [status EXCEPT ![Visited] = st],
         requests_with_ready_chunks' = requests_with_ready_chunks
           \/ requests_with_ready_chunks' = requests_with_ready_chunks \cup {Visited},
         \A q \in requests : q = Visited => ProgressOf(q)'
  PROVE  ProgressInv'
<1>1. ToVisit' = ToVisit \ {Visited} /\ (marking # NoReq => marking = Visited)
  BY VisitFacts DEF PassedOn
<1>2. ASSUME NEW q \in requests, q # Visited PROVE ProgressOf(q)'
  <2>1. q \in Reqs /\ q # NoReq /\ ProgressOf(q) /\ status'[q] = status[q]
    BY <1>2, EngineTypes DEF ProgressInv
  <2>2. (Emits(q)' <=> Emits(q)) /\ (Arrived(q)' <=> Arrived(q)) /\ Delivered(q)' = Delivered(q)
    BY <1>1, <1>2, <2>1 DEF Emits, Arrived, Delivered
  <2>3. SameFor(q)
    BY <2>1, <2>2 DEF SameFor
  <2> QED
    BY <2>1, <2>3, SameProgress
<1> QED
  BY <1>2 DEF ProgressInv

(* A chunk that was collected for it can only be the final one.            *)
LEMMA VisitReadyProgress ==
  ASSUME GenerationInv, ProgressInv, VisitReady
  PROVE  ProgressInv'
<1> DEFINE v == Visited
<1>1. PassedOn /\ ToVisit' = ToVisit \ {v}
  BY KeepsPlace DEF VisitReady, PassedOn
<1>2. /\ UNCHANGED <<get_req_chunk, recv_req, recv_pc, pending_load_reqs, finished_load_reqs,
                     finished_requests>>
      /\ UNCHANGED <<requests, status, num_computed_tokens, requests_with_ready_chunks,
                     loaded, marking, batch, emitted>>
      /\ marking = NoReq /\ status[v] # "WAITING_FOR_CHUNK" /\ Visiting
  BY DEF VisitReady, linkVars, recvVars, loadVars
<1>3. status' = [status EXCEPT ![v] = status[v]]
  BY <1>2, EngineTypes
<1>4. ASSUME NEW q \in requests, q = v PROVE ProgressOf(q)'
  <2>1. /\ StatusOf(q) /\ ProgressOf(q) /\ q # NoReq
        /\ Delivered(q)' = Delivered(q) /\ (Emits(q)' <=> Emits(q))
    BY <1>2, <1>4, LiveFacts DEF Delivered, Emits
  <2>2. CASE q \in loaded \cap ToVisit
    <3>1. status'[q] = "FINISHED_STOPPED"
      BY <1>4, <1>2, <2>1, <2>2 DEF StatusOf
    <3>2. q \in pending_load_reqs' => Len(emitted'[q]) = Delivered(q)'
      BY <1>4, <1>2, <2>1 DEF ProgressOf
    <3> QED
      BY <1>4, <1>2, <2>1, <3>1, <3>2, FinishedProgress
  <2>3. CASE q \notin loaded \cap ToVisit
    <3>1. Arrived(q)' <=> Arrived(q)
      BY <1>4, <1>1, <1>2, <2>3 DEF Arrived
    <3>2. SameFor(q)
      BY <1>4, <1>2, <2>1, <3>1 DEF SameFor
    <3> QED
      BY <2>1, <3>2, SameProgress
  <2> QED
    BY <2>2, <2>3
<1> HIDE DEF v
<1> QED
  BY <1>1, <1>2, <1>3, <1>4, VisitProgress DEF v

(* The next chunk is asked for when the output of every earlier one was    *)
(* sent.                                                                   *)
LEMMA VisitAskProgress ==
  ASSUME GenerationInv, ProgressInv, VisitAsk
  PROVE  ProgressInv'
<1> DEFINE v == Visited
<1>1. /\ pending_load_reqs' = pending_load_reqs \cup {v} /\ marking' = v /\ marking = NoReq
      /\ UNCHANGED <<get_req_chunk, recv_req, recv_pc, finished_load_reqs, finished_requests>>
      /\ UNCHANGED <<requests, status, num_computed_tokens, running, requests_with_ready_chunks,
                     loaded, snapshot, engine_pc, batch, emitted>>
      /\ status[v] # "WAITING_FOR_CHUNK" /\ ~HasChunk(v) /\ Visiting
  BY DEF VisitAsk, LoadAsync, linkVars, recvVars, queueVars
<1>2. ToVisit' = ToVisit /\ batch = <<>>
  BY <1>1 DEF ToVisit, GenerationInv, PhaseInv, Visiting
<1>3. ASSUME NEW q \in requests PROVE ProgressOf(q)'
  <2>1. /\ q \in Reqs /\ q # NoReq /\ StatusOf(q) /\ ProgressOf(q)
        /\ get_req_chunk[q] \in Nat /\ (recv_req = q => q \in pending_load_reqs) /\ ~Feeds(q)
    BY <1>1, LiveFacts DEF Visiting
  <2>2. (Arrived(q)' <=> Arrived(q)) /\ Delivered(q)' = Delivered(q)
    BY <1>1, <1>2 DEF Arrived, Delivered
  <2>3. CASE q = v
    <3>1. /\ status[q] # "FINISHED_STOPPED" /\ q \notin pending_load_reqs /\ ~Arrived(q)
          /\ q \notin finished_requests
      BY <1>1, <2>1, <2>3 DEF StatusOf, HasChunk, Arrived
    <3>2. get_req_chunk[q] = Len(emitted[q])
      BY <2>1, <3>1 DEF ProgressOf, Emits
    <3>3. Len(emitted[q]) = Delivered(q) /\ recv_req # q
      <4>1. recv_req # q /\ Len(emitted[q]) \in Nat
        BY <2>1, <3>1, LiveFacts
      <4>2. Delivered(q) = get_req_chunk[q] - 0
        BY <4>1 DEF Delivered
      <4> QED
        BY <2>1, <3>2, <4>1, <4>2
    <3>4. q \in pending_load_reqs' /\ ~Arrived(q)' /\ recv_req' # q /\ \A i \in DOMAIN batch' : FALSE
      BY <1>1, <1>2, <2>2, <2>3, <3>1, <3>3
    <3>5. Len(emitted'[q]) = Delivered(q)'
      BY <1>1, <2>2, <3>3
    <3> QED
      BY <3>4, <3>5 DEF ProgressOf
  <2>4. CASE q # v
    <3>1. Emits(q)' <=> Emits(q)
      BY <1>1, <2>1, <2>4 DEF Emits
    <3>2. SameFor(q)
      BY <1>1, <2>2, <2>4, <3>1 DEF SameFor
    <3> QED
      BY <2>1, <3>2, SameProgress
  <2> QED
    BY <2>3, <2>4
<1> QED
  BY <1>1, <1>3 DEF ProgressInv

(* The status of a request whose chunk was asked for.                      *)
LEMMA VisitAskMarkProgress ==
  ASSUME GenerationInv, ProgressInv, VisitAskMark
  PROVE  ProgressInv'
<1> DEFINE v == Visited
<1>1. /\ UNCHANGED <<get_req_chunk, recv_req, recv_pc, pending_load_reqs, finished_load_reqs,
                     finished_requests>>
      /\ UNCHANGED <<requests, num_computed_tokens, requests_with_ready_chunks, loaded, batch, emitted>>
      /\ marking' = NoReq /\ marking = v /\ Visiting /\ v \in Reqs /\ v # NoReq
      /\ status' = [status EXCEPT ![v] = "WAITING_FOR_CHUNK"]
  BY VisitFacts DEF VisitAskMark, linkVars, recvVars, loadVars
<1>2. PassedOn /\ ToVisit' = ToVisit \ {v}
  BY <1>1, IsParked DEF VisitAskMark, PassedOn
<1>3. v \in pending_load_reqs \cup finished_load_reqs /\ batch = <<>>
  BY <1>1 DEF GenerationInv, PhaseInv, Visiting
<1>4. ASSUME NEW q \in requests, q = v PROVE ProgressOf(q)'
  <2>1. ApartOf(q) /\ ProgressOf(q) /\ Delivered(q)' = Delivered(q)
    BY <1>1, <1>4, LiveFacts DEF Delivered
  <2>2. status'[q] = "WAITING_FOR_CHUNK"
    BY <1>4, <1>1, EngineTypes
  <2>3. Emits(q) /\ Emits(q)'
    BY <1>4, <1>1, <2>2 DEF Emits
  <2>4. Arrived(q)' <=> Arrived(q)
    BY <1>4, <1>1, <1>2, <1>3, <2>1 DEF Arrived, ApartOf
  <2>5. SameFor(q)
    BY <1>4, <1>1, <1>3, <2>1, <2>3, <2>4 DEF SameFor
  <2> QED
    BY <2>1, <2>5, SameProgress
<1> HIDE DEF v
<1> QED
  BY <1>1, <1>2, <1>4, VisitProgress DEF v

(* The chunk becomes one to use.                                           *)
LEMMA VisitLoadedProgress ==
  ASSUME GenerationInv, ProgressInv, VisitLoaded
  PROVE  ProgressInv'
<1> DEFINE v == Visited
           st == IF engine_pc = "waiting" THEN "WAITING" ELSE "RUNNING"
<1>1. /\ UNCHANGED <<get_req_chunk, recv_req, recv_pc, pending_load_reqs, finished_load_reqs,
                     finished_requests>>
      /\ UNCHANGED <<requests, num_computed_tokens, loaded, marking, batch, emitted>>
      /\ marking = NoReq /\ Visiting /\ v \in Reqs /\ v \in ToVisit
      /\ status[v] = "WAITING_FOR_CHUNK" /\ v \in loaded
      /\ status' = [status EXCEPT ![v] = st]
      /\ requests_with_ready_chunks' = requests_with_ready_chunks \cup {v}
  BY VisitFacts DEF VisitLoaded, linkVars, recvVars, loadVars
<1>2. PassedOn
  BY <1>1, KeepsPlace DEF VisitLoaded
<1>3. st # "FINISHED_STOPPED"
  OBVIOUS
<1> HIDE DEF st
<1>4. ASSUME NEW q \in requests, q = v PROVE ProgressOf(q)'
  <2>1. ProgressOf(q) /\ Delivered(q)' = Delivered(q) /\ status'[q] = st
    BY <1>1, <1>4, LiveFacts, EngineTypes DEF Delivered
  <2>2. Emits(q) /\ Emits(q)'
    BY <1>4, <1>1, <1>3, <2>1 DEF Emits
  <2>3. Arrived(q) /\ Arrived(q)'
    BY <1>4, <1>1 DEF Arrived
  <2>4. status[q] # "FINISHED_STOPPED"
    BY <1>4, <1>1
  <2>5. SameFor(q)
    BY <1>4, <1>1, <2>1, <2>2, <2>3, <2>4 DEF SameFor
  <2> QED
    BY <2>1, <2>5, SameProgress
<1> HIDE DEF v
<1> QED
  BY <1>1, <1>2, <1>4, VisitProgress DEF v

(* The request goes back to its deque.                                     *)
LEMMA VisitUnloadedProgress ==
  ASSUME GenerationInv, ProgressInv, VisitUnloaded
  PROVE  ProgressInv'
<1> DEFINE v == Visited
<1>1. /\ UNCHANGED <<get_req_chunk, recv_req, recv_pc, pending_load_reqs, finished_load_reqs,
                     finished_requests>>
      /\ UNCHANGED <<requests, status, num_computed_tokens, requests_with_ready_chunks, loaded,
                     marking, batch, emitted>>
      /\ marking = NoReq /\ Visiting /\ v \notin loaded
  BY DEF VisitUnloaded, linkVars, recvVars, loadVars
<1>2. PassedOn
  BY <1>1, IsParked DEF VisitUnloaded
<1>3. status' = [status EXCEPT ![v] = status[v]]
  BY <1>1, EngineTypes
<1>4. ASSUME NEW q \in requests, q = v PROVE ProgressOf(q)'
  <2>1. ProgressOf(q) /\ Delivered(q)' = Delivered(q) /\ (Emits(q)' <=> Emits(q))
    BY <1>1, <1>4, LiveFacts DEF Delivered, Emits
  <2>2. Arrived(q)' <=> Arrived(q)
    BY <1>4, <1>1 DEF Arrived
  <2>3. SameFor(q)
    BY <1>4, <1>1, <2>1, <2>2 DEF SameFor
  <2> QED
    BY <2>1, <2>3, SameProgress
<1> HIDE DEF v
<1> QED
  BY <1>1, <1>2, <1>3, <1>4, VisitProgress DEF v

(* Between the two queues the same requests are to be visited.             *)
LEMMA NextQueueProgress ==
  ASSUME GenerationInv, ProgressInv, NextQueue
  PROVE  ProgressInv'
<1>1. /\ UNCHANGED <<get_req_chunk, recv_req, recv_pc, pending_load_reqs, finished_load_reqs,
                     finished_requests>>
      /\ UNCHANGED <<requests, status, num_computed_tokens, running, requests_with_ready_chunks,
                     loaded, marking, batch, emitted>>
  BY DEF NextQueue, linkVars, recvVars, loadVars, queueVars
<1>2. ToVisit' = ToVisit
  BY <1>1 DEF NextQueue, ToVisit, Elements
<1>3. ASSUME NEW q \in requests PROVE ProgressOf(q)'
  <2>1. ProgressOf(q)
    BY DEF ProgressInv
  <2>2. (Emits(q)' <=> Emits(q)) /\ (Arrived(q)' <=> Arrived(q)) /\ Delivered(q)' = Delivered(q)
    BY <1>1, <1>2 DEF Emits, Arrived, Delivered
  <2>3. SameFor(q)
    BY <1>1, <2>2 DEF SameFor
  <2> QED
    BY <2>1, <2>3, SameProgress
<1> QED
  BY <1>1, <1>3 DEF ProgressInv

(* Under an ample budget a step is on the whole of a chunk, the next one,  *)
(* or past the end of the prompt.                                          *)
LEMMA ScheduleProgress ==
  ASSUME GenerationInv, ProgressInv, Ample, Schedule
  PROVE  ProgressInv'
<1> DEFINE b == batch'
<1>1. /\ engine_pc = "schedule" /\ engine_pc' = "update"
      /\ requests_with_ready_chunks' = requests_with_ready_chunks \ BatchReqs(b)
      /\ num_computed_tokens' = [r \in Reqs |->
           Smaller(num_computed_tokens[r] + NumScheduledTokens(b, r), ChunkTokens)]
      /\ UNCHANGED <<pending_load_reqs, finished_load_reqs, finished_requests, get_req_chunk, recv_req,
                     recv_pc>>
      /\ UNCHANGED <<requests, status, loaded, snapshot, marking, emitted>>
  BY DEF Schedule, linkVars, recvVars, loadVars
<1>2. /\ b \in Seq(Steps) /\ OneEach(b) /\ DOMAIN b = 1..Len(b)
      /\ \A i \in 1..Len(b) : StepOk(b[i]) /\ b[i].req \in KeptInQueue
  <2>1. b \in Seq(Steps) /\ OneEach(b) /\ \A i \in 1..Len(b) : StepOk(b[i]) /\ b[i].req \in KeptInQueue
    BY ScheduledBatch
  <2> QED
    BY <2>1, LenProperties
<1>3. batch' = b
  OBVIOUS
<1> HIDE DEF b
<1>4. ChunkTokens \in Nat \ {0}
  BY GenerationAssumption
<1>5. ToVisit = {} /\ ToVisit' = {} /\ marking = NoReq /\ batch = <<>>
  <2>1. Elements(<<>>) = {}
    BY DEF Elements
  <2> QED
    BY <1>1, <2>1 DEF GenerationInv, PhaseInv, ToVisit
<1>6. ASSUME NEW q \in requests PROVE ProgressOf(q)'
  <2>1. /\ q \in Reqs /\ q # NoReq /\ StatusOf(q) /\ ProgressOf(q)
        /\ get_req_chunk[q] \in Nat /\ num_computed_tokens[q] \in 0..ChunkTokens
        /\ Len(emitted[q]) \in Nat /\ (recv_req = q => q \in pending_load_reqs) /\ ~Feeds(q)
    BY <1>1, LiveFacts
  <2>2. /\ Delivered(q)' = Delivered(q)
        /\ Emits(q)' <=> Emits(q)
        /\ Emits(q) <=> status[q] # "FINISHED_STOPPED"
    BY <1>1, <1>5, <2>1 DEF Delivered, Emits
  <2>3. num_computed_tokens'[q] = Smaller(num_computed_tokens[q] + NumScheduledTokens(b, q), ChunkTokens)
    BY <1>1, <2>1
  <2>4. CASE status[q] = "FINISHED_STOPPED"
    <3>1. q \in pending_load_reqs' => Len(emitted'[q]) = Delivered(q)'
      BY <1>1, <2>1, <2>2 DEF ProgressOf
    <3>2. status'[q] = "FINISHED_STOPPED" /\ marking' # q
      BY <1>1, <1>5, <2>1, <2>4
    <3> QED
      BY <3>1, <3>2, FinishedProgress
  <2>5. CASE \A i \in 1..Len(b) : b[i].req # q
    <3>1. NumScheduledTokens(b, q) = 0
      BY <1>2, <2>5, ScheduledTokens
    <3>2. num_computed_tokens'[q] = num_computed_tokens[q]
      BY <1>4, <2>1, <2>3, <3>1 DEF Smaller
    <3>3. Arrived(q)' <=> Arrived(q)
      BY <1>1, <1>2, <1>5, <2>5 DEF Arrived, BatchReqs
    <3>4. ~Feeds(q)' /\ \A i \in DOMAIN batch' : batch'[i].req # q
      BY <1>2, <1>3, <2>5 DEF Feeds
    <3> QED
      BY <1>1, <2>1, <2>2, <3>2, <3>3, <3>4 DEF ProgressOf
  <2>6. ASSUME NEW i \in 1..Len(b), b[i].req = q, status[q] # "FINISHED_STOPPED"
        PROVE  ProgressOf(q)'
    <3>1. /\ StepOk(b[i]) /\ NumScheduledTokens(b, q) = b[i].tokens /\ q \in BatchReqs(b)
          /\ \A j \in DOMAIN batch' : batch'[j].req = q => j = i
      BY <1>2, <1>3, <2>6, ScheduledTokens DEF OneEach, BatchReqs
    <3>2. /\ b[i] \in Steps /\ b[i].chunk = held[q] /\ b[i].from = num_computed_tokens[q]
          /\ b[i].tokens \in {Required(q, num_computed_tokens[q]), Required(q, 0)}
      BY <2>6, <3>1 DEF StepOk
    <3>3. /\ status[q] # "WAITING_FOR_CHUNK" /\ HasChunk(q)
          /\ q \notin pending_load_reqs /\ q \notin finished_load_reqs
      BY <1>2, <1>5, <2>1, <2>6 DEF StatusOf
    <3>4. ~Arrived(q)'
      BY <1>1, <1>5, <3>1, <3>3 DEF Arrived
    <3>5. CASE q \in requests_with_ready_chunks
      <4>1. num_computed_tokens[q] = 0 /\ Len(emitted[q]) + 1 = get_req_chunk[q]
        BY <2>1, <2>2, <2>6, <3>5 DEF ProgressOf, Arrived
      <4>2. held[q] = <<Len(emitted[q])>>
        <5>1. ~Unfilled(q) /\ get_req_chunk[q] - 1 = Len(emitted[q]) /\ get_req_chunk[q] # 0
          BY <2>1, <3>3, <4>1 DEF Unfilled
        <5>2. held[q] = DataOf(get_req_chunk[q])
          BY <2>1, <5>1 DEF GenerationInv, LinkInv, HeldInv
        <5> QED
          BY <5>1, <5>2, GenerationAssumption DEF DataOf
      <4>3. held[q] # <<>>
        BY <4>2
      <4>4. b[i].tokens = ChunkTokens
        <5>1. b[i].tokens = Larger(ChunkTokens - 0, 1)
          BY <3>2, <4>1, <4>3 DEF Required
        <5> QED
          BY <1>4, <5>1 DEF Larger
      <4>5. b[i] = Whole(q, Len(emitted[q]))
        BY <2>6, <3>2, <4>1, <4>2, <4>4 DEF Steps, Whole
      <4>6. num_computed_tokens'[q] = ChunkTokens
        BY <1>4, <2>3, <3>1, <4>1, <4>4 DEF Smaller
      <4>7. Feeds(q)'
        <5>1. i \in DOMAIN batch' /\ batch'[i].req = q /\ batch'[i].from = 0 /\ 0 < ChunkTokens
          BY <1>2, <1>3, <1>4, <2>6, <3>2, <4>1
        <5> QED
          BY <5>1 DEF Feeds
      <4>8. \A j \in DOMAIN batch' : batch'[j].req = q => batch'[j] = Whole(q, Len(emitted'[q]))
        BY <1>1, <1>3, <3>1, <4>5
      <4> QED
        BY <1>1, <3>3, <3>4, <4>1, <4>6, <4>7, <4>8 DEF ProgressOf, Whole
    <3>6. CASE q \notin requests_with_ready_chunks
      <4>1. q \in finished_requests /\ ~Arrived(q)
        BY <1>5, <3>3, <3>6 DEF HasChunk, Arrived
      <4>2. get_req_chunk[q] > 0
        BY <4>1 DEF GenerationInv, NewInv
      <4>3. get_req_chunk[q] <= Len(emitted[q]) /\ num_computed_tokens[q] = ChunkTokens
        BY <2>1, <2>2, <2>6, <3>3, <4>1, <4>2 DEF ProgressOf
      <4>4. num_computed_tokens'[q] = ChunkTokens
        <5>1. NumScheduledTokens(b, q) \in Nat
          BY <1>2, ScheduledTokens
        <5> QED
          BY <1>4, <2>3, <4>3, <5>1 DEF Smaller
      <4>5. \A j \in DOMAIN batch' : batch'[j].req = q => batch'[j].from = ChunkTokens
        BY <1>3, <3>1, <3>2, <4>3
      <4>6. ~Feeds(q)'
        BY <1>4, <4>5 DEF Feeds
      <4> QED
        BY <1>1, <3>3, <3>4, <4>1, <4>3, <4>4, <4>5, <4>6 DEF ProgressOf
    <3> QED
      BY <3>5, <3>6
  <2> QED
    BY <2>4, <2>5, <2>6
<1> QED
  BY <1>1, <1>6 DEF ProgressInv

(* What the batch adds to the outputs of r.                                *)
LEMMA OutputFacts ==
  ASSUME GenerationInv, NEW r
  PROVE  /\ (\A i \in 1..Len(batch) : batch[i].req # r) => OutputOf(r) = <<>>
         /\ \A i \in 1..Len(batch) : batch[i].req = r => OutputOf(r) = <<batch[i]>>
<1> DEFINE f == Adds(r)
<1>1. batch \in Seq(Steps) /\ DOMAIN batch = 1..Len(batch) /\ Len(batch) \in Nat
  <2>1. batch \in Seq(Steps)
    BY DEF GenerationInv, TypeOK
  <2> QED
    BY <2>1, LenProperties
<1>2. Maps(f, Steps, Steps) /\ OutputOf(r) = Mapped(f, batch)
  BY <1>1, OutputIsMapped
<1>3. \A i \in 1..Len(batch) : /\ batch[i] \in Steps
        /\ f[batch[i]] = IF batch[i].req = r THEN <<batch[i]>> ELSE <<>>
  BY <1>1 DEF Adds
<1> HIDE DEF f
<1>4. ASSUME \A i \in 1..Len(batch) : batch[i].req # r PROVE OutputOf(r) = <<>>
  <2>1. \A i \in 1..Len(batch) : f[batch[i]] = <<>>
    BY <1>3, <1>4
  <2>2. \A x \in Elements(batch) : f[x] = <<>>
    BY <2>1 DEF Elements
  <2> QED
    BY <1>1, <1>2, <2>2, MappedNothing
<1>5. ASSUME NEW i \in 1..Len(batch), batch[i].req = r PROVE OutputOf(r) = <<batch[i]>>
  <2>1. \A j \in 1..Len(batch) : j # i => f[batch[j]] = <<>>
    BY <1>1, <1>3, <1>5 DEF GenerationInv, BatchInv
  <2>2. Mapped(f, batch) = f[batch[i]]
    BY <1>1, <1>2, <2>1, MappedSingle
  <2> QED
    BY <1>2, <1>3, <1>5, <2>2
<1> QED
  BY <1>4, <1>5

(* A request that feeds a prompt has room for the output in the history.   *)
LEMMA FeedsHasRoom ==
  ASSUME GenerationInv, ProgressInv, SentInv, NEW q \in requests, Feeds(q),
         Emits(q), ~Arrived(q), q \notin pending_load_reqs
  PROVE  Len(emitted[q]) # HistoryLength
<1>1. get_req_chunk[q] = Len(emitted[q]) + 1 /\ q \in Reqs /\ Len(emitted[q]) \in Nat
  BY LiveFacts DEF ProgressOf
<1>2. put_req_chunk[q] \in Nat /\ put_req_chunk[q] <= MaxChunks
  BY <1>1 DEF SentInv, GenerationInv, LinkInv, LinkTypeOK
<1>3. get_req_chunk[q] <= put_req_chunk[q]
  <2>1. Handed(q) = put_req_chunk[q] /\ get_req_chunk[q] <= Handed(q)
    <3>1. pending_save_reqs[q] = <<>> /\ save_task = NoTask /\ save_task[1] # q
      BY <1>1, LinkAssumption DEF GenerationInv, NothingSaved, NoTask
    <3>2. Handed(q) = put_req_chunk[q] - 0 - 0
      BY <3>1 DEF Handed
    <3> QED
      BY <1>1, <1>2, <3>2 DEF GenerationInv, LinkInv, StoreInv
  <2> QED
    BY <2>1
<1> QED
  BY <1>1, <1>2, <1>3, LinkAssumption DEF HistoryLength

(* The outputs of q grow by the step s: on its next chunk, or past the end *)
(* of its prompt.                                                          *)
Grown(q, s) ==
  /\ q \in requests /\ status[q] # "FINISHED_STOPPED" /\ q \notin pending_load_reqs /\ ~Arrived(q)
  /\ emitted'[q] = Append(emitted[q], s) /\ s \in Steps
  /\ IF Feeds(q) THEN s = Whole(q, Len(emitted[q]))
                 ELSE s.from = ChunkTokens /\ q \in finished_requests

(* The outputs of a request stay as they are or grow by one.               *)
LEMMA UpdateOutputs ==
  ASSUME GenerationInv, ProgressInv, SentInv, UpdateFromOutput, NEW q \in Reqs
  PROVE  \/ emitted'[q] = emitted[q] /\ (Feeds(q) => q \notin requests \/ status[q] = "FINISHED_STOPPED")
         \/ \E s \in Steps : Grown(q, s)
<1>1. /\ engine_pc = "update"
      /\ emitted'[q] = IF PassedOver(q) \/ Len(emitted[q]) = HistoryLength THEN emitted[q]
                       ELSE emitted[q] \o OutputOf(q)
  BY DEF UpdateFromOutput
<1>2. ToVisit = {} /\ marking = NoReq
  <2>1. Elements(<<>>) = {}
    BY DEF Elements
  <2> QED
    BY <1>1, <2>1 DEF GenerationInv, PhaseInv, ToVisit
<1>3. batch \in Seq(Steps) /\ DOMAIN batch = 1..Len(batch) /\ emitted[q] \in Seq(Steps)
  <2>1. batch \in Seq(Steps) /\ emitted[q] \in Seq(Steps)
    BY DEF GenerationInv, TypeOK
  <2> QED
    BY <2>1, LenProperties
<1>4. CASE q \notin requests \/ status[q] = "FINISHED_STOPPED"
  BY <1>1, <1>4 DEF PassedOver, Finished
<1>5. CASE q \in requests /\ status[q] # "FINISHED_STOPPED" /\ \A i \in 1..Len(batch) : batch[i].req # q
  <2>1. OutputOf(q) = <<>> /\ ~Feeds(q)
    BY <1>3, <1>5, OutputFacts DEF Feeds
  <2>2. emitted[q] \o <<>> = emitted[q]
    BY <1>3, ConcatEmptySeq
  <2> QED
    BY <1>1, <2>1, <2>2
<1>6. ASSUME q \in requests, status[q] # "FINISHED_STOPPED", NEW i \in 1..Len(batch), batch[i].req = q
      PROVE  \/ emitted'[q] = emitted[q] /\ ~Feeds(q)
             \/ \E s \in Steps : Grown(q, s)
  <2>1. ProgressOf(q) /\ StatusOf(q) /\ q # NoReq /\ i \in DOMAIN batch
    BY <1>3, <1>6, LiveFacts
  <2>2. Emits(q) /\ ~Arrived(q) /\ q \notin pending_load_reqs
    BY <1>6, <2>1 DEF ProgressOf, Emits
  <2>3. \/ batch[i].from = ChunkTokens /\ q \in finished_requests
        \/ batch[i] = Whole(q, Len(emitted[q]))
    BY <1>6, <2>1 DEF ProgressOf
  <2>4. \A j \in DOMAIN batch : batch[j].req = q => j = i
    BY <1>6, <2>1 DEF GenerationInv, BatchInv
  <2>5. Feeds(q) <=> batch[i].from < ChunkTokens
    BY <1>6, <2>1, <2>4 DEF Feeds
  <2>6. ~PassedOver(q)
    BY <1>6, <2>1 DEF PassedOver, Finished, StatusOf
  <2>7. CASE Len(emitted[q]) = HistoryLength
    <3>1. ~Feeds(q)
      BY <1>6, <2>2, <2>7, FeedsHasRoom
    <3> QED
      BY <1>1, <2>7, <3>1
  <2>8. CASE Len(emitted[q]) # HistoryLength
    <3>1. emitted'[q] = emitted[q] \o <<batch[i]>>
      BY <1>1, <1>6, <2>6, <2>8, OutputFacts
    <3>2. PICK s \in Steps : s = batch[i]
      BY <1>3, <2>1
    <3>3. emitted[q] \o <<s>> = Append(emitted[q], s)
      BY <1>3
    <3>4. ChunkTokens \in Nat \ {0}
      BY GenerationAssumption
    <3>5. IF Feeds(q) THEN s = Whole(q, Len(emitted[q])) ELSE s.from = ChunkTokens /\ q \in finished_requests
      BY <2>3, <2>5, <3>2, <3>4 DEF Whole
    <3> QED
      BY <1>6, <2>2, <3>1, <3>2, <3>3, <3>5 DEF Grown
  <2> QED
    BY <2>7, <2>8
<1> QED
  BY <1>4, <1>5, <1>6

(* After the output of a chunk the request has used all it got; a repeat   *)
(* leaves it there.                                                        *)
LEMMA UpdateProgress ==
  ASSUME GenerationInv, ProgressInv, SentInv, UpdateFromOutput
  PROVE  ProgressInv'
<1>1. /\ engine_pc = "update" /\ batch' = <<>> /\ requests' \subseteq requests
      /\ UNCHANGED <<pending_load_reqs, finished_load_reqs, get_req_chunk, recv_req, recv_pc>>
      /\ UNCHANGED <<status, num_computed_tokens, requests_with_ready_chunks, loaded, snapshot, marking>>
      /\ engine_pc' = "idle" /\ finished_requests' = finished_requests
  BY DEF UpdateFromOutput, linkVars, recvVars, loadVars
<1>2. ToVisit = {} /\ ToVisit' = {} /\ marking = NoReq
  <2>1. Elements(<<>>) = {}
    BY DEF Elements
  <2> QED
    BY <1>1, <2>1 DEF GenerationInv, PhaseInv, ToVisit
<1>3. ASSUME NEW q \in requests' PROVE ProgressOf(q)'
  <2>1. /\ q \in requests /\ q \in Reqs /\ q # NoReq /\ ProgressOf(q) /\ emitted[q] \in Seq(Steps)
        /\ Len(emitted[q]) \in Nat /\ get_req_chunk[q] \in Nat
    BY <1>1, LiveFacts
  <2>2. /\ Delivered(q)' = Delivered(q) /\ (Emits(q)' <=> Emits(q)) /\ (Arrived(q)' <=> Arrived(q))
    BY <1>1, <1>2 DEF Delivered, Emits, Arrived
  <2>3. ~Feeds(q)' /\ \A i \in DOMAIN batch' : FALSE
    BY <1>1 DEF Feeds
  <2>4. CASE emitted'[q] = emitted[q] /\ status[q] = "FINISHED_STOPPED"
    <3>1. status'[q] = "FINISHED_STOPPED" /\ marking' # q
      BY <1>1, <1>2, <2>1, <2>4
    <3>2. q \in pending_load_reqs' => Len(emitted'[q]) = Delivered(q)'
      BY <1>1, <2>1, <2>2, <2>4 DEF ProgressOf
    <3> QED
      BY <3>1, <3>2, FinishedProgress
  <2>5. CASE emitted'[q] = emitted[q] /\ ~Feeds(q)
    BY <1>1, <2>1, <2>2, <2>3, <2>5 DEF ProgressOf
  <2>6. ASSUME NEW s \in Steps, Grown(q, s) PROVE ProgressOf(q)'
    <3>1. /\ emitted'[q] = Append(emitted[q], s) /\ q \notin pending_load_reqs /\ ~Arrived(q)
          /\ Feeds(q) \/ q \in finished_requests
      BY <2>6 DEF Grown
    <3>2. Len(emitted'[q]) = Len(emitted[q]) + 1
      BY <2>1, <3>1
    <3>3. status[q] # "FINISHED_STOPPED"
      BY <2>6 DEF Grown
    <3>4. /\ IF Feeds(q) THEN get_req_chunk[q] = Len(emitted[q]) + 1
             ELSE get_req_chunk[q] <= Len(emitted[q])
          /\ get_req_chunk[q] = 0 \/ num_computed_tokens[q] = ChunkTokens
      BY <2>1, <3>1, <3>3 DEF ProgressOf, Emits
    <3>5. /\ get_req_chunk[q] <= Len(emitted'[q])
          /\ get_req_chunk[q] = Len(emitted'[q]) \/ q \in finished_requests
      BY <2>1, <3>1, <3>2, <3>4
    <3> QED
      BY <1>1, <2>2, <2>3, <3>1, <3>4, <3>5 DEF ProgressOf
  <2> QED
    BY <2>1, <2>4, <2>5, <2>6, UpdateOutputs
<1> QED
  BY <1>3 DEF ProgressInv

-----------------------------------------------------------------------------
(* What the outputs of a request come from.                                *)

(* A step that sends nothing, and that asks for no chunk of a request      *)
(* whose final one is marked.                                              *)
KeptBy(q) ==
  /\ emitted'[q] = emitted[q] /\ put_req_chunk'[q] <= MaxChunks
  /\ q \in finished_requests => q \in finished_requests'
  /\ IF q \in pending_load_reqs THEN get_req_chunk'[q] \in {get_req_chunk[q], get_req_chunk[q] + 1}
     ELSE /\ get_req_chunk'[q] = get_req_chunk[q]
          /\ q \in pending_load_reqs' => q \notin finished_requests
          /\ status'[q] = "FINISHED_STOPPED" => status[q] = "FINISHED_STOPPED"

(* Such a step leaves the outputs what they were.                          *)
LEMMA SentKept ==
  ASSUME GenerationInv, SentInv, \A q \in Reqs : KeptBy(q)
  PROVE  SentInv'
<1>1. ASSUME NEW q \in Reqs, NEW i \in DOMAIN emitted[q]
      PROVE  IF i <= get_req_chunk'[q] THEN emitted[q][i] = Whole(q, i - 1)
             ELSE /\ emitted[q][i].from = ChunkTokens
                  /\ q \in finished_requests' /\ q \notin pending_load_reqs'
                  /\ status'[q] # "FINISHED_STOPPED"
  <2>1. get_req_chunk[q] \in Nat /\ i \in Nat
    <3>1. get_req_chunk[q] \in Nat /\ emitted[q] \in Seq(Steps)
      BY DEF GenerationInv, TypeOK, LinkTypeOK
    <3> QED
      BY <1>1, <3>1, LenProperties
  <2>2. IF i <= get_req_chunk[q] THEN emitted[q][i] = Whole(q, i - 1)
        ELSE /\ emitted[q][i].from = ChunkTokens
             /\ q \in finished_requests /\ q \notin pending_load_reqs
             /\ status[q] # "FINISHED_STOPPED"
    BY <1>1 DEF SentInv, SentOf
  <2>3. KeptBy(q)
    OBVIOUS
  <2> QED
    BY <2>1, <2>2, <2>3 DEF KeptBy
<1>2. \A q \in Reqs : emitted'[q] = emitted[q] /\ put_req_chunk'[q] <= MaxChunks
  BY DEF KeptBy
<1>3. \A q \in Reqs : SentOf(q)'
  BY <1>1, <1>2 DEF SentOf, Whole
<1> QED
  BY <1>2, <1>3 DEF SentInv

(* Clients: a new or an aborted request is not marked as stopped.          *)
LEMMA ClientSent ==
  ASSUME GenerationInv, SentInv, NEW r \in Reqs, AddRequest(r) \/ Abort(r)
  PROVE  SentInv'
<1>1. /\ UNCHANGED <<emitted, put_req_chunk, get_req_chunk, pending_load_reqs, finished_requests>>
      /\ \/ status' = [status EXCEPT ![r] = "WAITING"]
         \/ status' = [status EXCEPT ![r] = "FINISHED_ABORTED"]
  BY DEF AddRequest, Abort, linkVars, producerVars, recvVars, loadVars
<1>2. ASSUME NEW q \in Reqs PROVE KeptBy(q)
  BY <1>1, EngineTypes DEF KeptBy, SentInv
<1> QED
  BY <1>2, SentKept

(* The engine thread: a chunk of a request is asked for only if its final  *)
(* one is not marked, and no visit sets the status of a stopped request.   *)
LEMMA EngineSent ==
  ASSUME GenerationInv, SentInv, BeginSchedule \/ ProcessPendingChunks \/ Schedule
  PROVE  SentInv'
<1>1. UNCHANGED <<emitted, put_req_chunk, get_req_chunk, finished_requests>>
  BY DEF BeginSchedule, ProcessPendingChunks, Schedule, VisitReady, VisitAsk, VisitAskMark,
         VisitLoaded, VisitUnloaded, NextQueue, linkVars, producerVars, recvVars, loadVars
<1>2. \/ pending_load_reqs' = pending_load_reqs
      \/ \E v \in Reqs : pending_load_reqs' = pending_load_reqs \cup {v} /\ v \notin finished_requests
  <2>1. CASE VisitAsk
    BY <2>1, VisitFacts DEF VisitAsk, LoadAsync, HasChunk
  <2>2. CASE ~VisitAsk
    BY <2>2 DEF BeginSchedule, ProcessPendingChunks, Schedule, VisitReady, VisitAskMark,
                VisitLoaded, VisitUnloaded, NextQueue, linkVars, loadVars
  <2> QED
    BY <2>1, <2>2
<1>3. ASSUME NEW q \in Reqs PROVE status'[q] = "FINISHED_STOPPED" => status[q] = "FINISHED_STOPPED"
  <2>1. CASE VisitAskMark
    BY <2>1, EngineTypes DEF VisitAskMark
  <2>2. CASE VisitLoaded
    <3>1. PICK st : /\ status' = [status EXCEPT ![Visited] = st]
                    /\ st = IF engine_pc = "waiting" THEN "WAITING" ELSE "RUNNING"
      BY <2>2 DEF VisitLoaded
    <3>2. st # "FINISHED_STOPPED"
      BY <3>1
    <3> QED
      BY <3>1, <3>2, EngineTypes
  <2>3. CASE ~VisitAskMark /\ ~VisitLoaded
    BY <2>3 DEF BeginSchedule, ProcessPendingChunks, Schedule, VisitReady, VisitAsk,
                VisitUnloaded, NextQueue
  <2> QED
    BY <2>1, <2>2, <2>3
<1>4. ASSUME NEW q \in Reqs PROVE KeptBy(q)
  BY <1>1, <1>2, <1>3 DEF KeptBy, SentInv
<1> QED
  BY <1>4, SentKept

(* The receive thread counts, marks and fills only what it was asked for.  *)
LEMMA ReceiveSent ==
  ASSUME GenerationInv, SentInv, Receive
  PROVE  SentInv'
<1>1. UNCHANGED <<emitted, put_req_chunk>> /\ finished_requests \subseteq finished_requests'
  BY DEF Receive, RecvSnapshot, PollPublish, PollMiss, PollHit, MarkStatus, PollMark, FillPrompt,
         PollFill, engineVars, producerVars
<1>2. pending_load_reqs' \subseteq pending_load_reqs
  BY DEF Receive, RecvSnapshot, PollPublish, PollMiss, PollHit, MarkStatus, PollMark, FillPrompt,
         PollFill, loadVars
<1>3. \/ get_req_chunk' = get_req_chunk
      \/ \E v \in pending_load_reqs : get_req_chunk' = [get_req_chunk EXCEPT ![v] = @ + 1]
  BY PolledFacts DEF Receive, RecvSnapshot, PollPublish, PollMiss, PollHit, MarkStatus, PollMark,
                     FillPrompt, PollFill
<1>4. \/ status' = status
      \/ \E v \in pending_load_reqs : status' = [status EXCEPT ![v] = "FINISHED_STOPPED"]
  BY PolledFacts DEF Receive, MarkStatus, PollMark, FillPrompt, engineVars
<1>5. get_req_chunk \in [Reqs -> Nat]
  BY DEF GenerationInv, LinkInv, LinkTypeOK
<1>6. ASSUME NEW q \in Reqs PROVE KeptBy(q)
  <2>1. IF q \in pending_load_reqs THEN get_req_chunk'[q] \in {get_req_chunk[q], get_req_chunk[q] + 1}
        ELSE get_req_chunk'[q] = get_req_chunk[q]
    BY <1>3, <1>5
  <2>2. q \notin pending_load_reqs => status'[q] = status[q]
    BY <1>4, EngineTypes
  <2> QED
    BY <1>1, <1>2, <2>1, <2>2 DEF KeptBy, SentInv
<1> QED
  BY <1>6, SentKept

(* The producing stage makes no more chunks than it may.                   *)
LEMMA ArriveSent ==
  ASSUME GenerationInv, SentInv, NEW r \in Reqs, NEW last \in BOOLEAN, Arrive(r, last)
  PROVE  SentInv'
<1>1. /\ UNCHANGED <<emitted, status, get_req_chunk, pending_load_reqs, finished_requests>>
      /\ put_req_chunk' = [put_req_chunk EXCEPT ![r] = @ + 1] /\ put_req_chunk[r] < MaxChunks
  BY DEF Arrive, recvVars, loadVars, engineVars
<1>2. ASSUME NEW q \in Reqs PROVE KeptBy(q)
  <2>1. put_req_chunk \in [Reqs -> Nat] /\ put_req_chunk[q] <= MaxChunks /\ MaxChunks \in Nat
    BY LinkAssumption DEF GenerationInv, LinkInv, LinkTypeOK, SentInv
  <2>2. put_req_chunk'[q] <= MaxChunks
    BY <1>1, <2>1
  <2> QED
    BY <1>1, <2>2 DEF KeptBy
<1> QED
  BY <1>2, SentKept

(* An output is that of the next chunk, or it is past all chunks and the   *)
(* final mark was overwritten.                                             *)
LEMMA UpdateSent ==
  ASSUME GenerationInv, ProgressInv, SentInv, UpdateFromOutput
  PROVE  SentInv'
<1>1. UNCHANGED <<status, put_req_chunk, get_req_chunk, pending_load_reqs, finished_requests>>
  BY DEF UpdateFromOutput, linkVars, producerVars, recvVars, loadVars
<1>2. ASSUME NEW q \in Reqs PROVE SentOf(q)'
  <2>1. SentOf(q) /\ emitted[q] \in Seq(Steps)
    BY DEF SentInv, GenerationInv, TypeOK
  <2>2. CASE emitted'[q] = emitted[q]
    BY <1>1, <2>1, <2>2 DEF SentOf, Whole
  <2>3. ASSUME NEW s \in Steps, Grown(q, s) PROVE SentOf(q)'
    <3>1. PICK e \in Seq(Steps) : e = emitted[q]
      BY <2>1
    <3>2. PICK n \in Nat : n = Len(e) /\ DOMAIN e = 1..n
      BY <3>1, LenProperties
    <3>3. /\ emitted'[q] = Append(e, s) /\ DOMAIN emitted'[q] = 1..(n + 1)
          /\ emitted'[q][n + 1] = s /\ \A i \in 1..n : emitted'[q][i] = e[i]
      BY <2>3, <3>1, <3>2 DEF Grown
    <3>4. /\ status[q] # "FINISHED_STOPPED" /\ q \notin pending_load_reqs
          /\ IF Feeds(q) THEN get_req_chunk[q] = n + 1 /\ s = Whole(q, n)
             ELSE get_req_chunk[q] <= n /\ s.from = ChunkTokens /\ q \in finished_requests
      <4>1. q \in requests /\ ProgressOf(q) /\ Emits(q) /\ ~Arrived(q) /\ q \notin pending_load_reqs
        BY <2>3, LiveFacts DEF Grown, Emits
      <4>2. IF Feeds(q) THEN get_req_chunk[q] = n + 1 ELSE get_req_chunk[q] <= n
        BY <3>1, <3>2, <4>1 DEF ProgressOf
      <4> QED
        BY <2>3, <3>1, <3>2, <4>1, <4>2 DEF Grown
    <3>5. get_req_chunk[q] \in Nat
      BY DEF GenerationInv, LinkInv, LinkTypeOK
    <3>6. ASSUME NEW i \in 1..(n + 1)
          PROVE  IF i <= get_req_chunk[q] THEN emitted'[q][i] = Whole(q, i - 1)
                 ELSE /\ emitted'[q][i].from = ChunkTokens
                      /\ q \in finished_requests /\ q \notin pending_load_reqs
                      /\ status[q] # "FINISHED_STOPPED"
      <4>1. CASE i = n + 1
        <5>1. i - 1 = n /\ emitted'[q][i] = s
          BY <3>3, <4>1
        <5> QED
          BY <3>4, <3>5, <4>1, <5>1
      <4>2. CASE i # n + 1
        <5>1. i \in 1..n
          BY <4>2
        <5> QED
          BY <2>1, <3>1, <3>2, <3>3, <5>1 DEF SentOf
      <4> QED
        BY <4>1, <4>2
    <3> QED
      BY <1>1, <3>3, <3>6 DEF SentOf, Whole
  <2> QED
    BY <2>2, <2>3, UpdateOutputs
<1>3. \A q \in Reqs : put_req_chunk'[q] <= MaxChunks
  BY <1>1 DEF SentInv
<1> QED
  BY <1>2, <1>3 DEF SentInv

(* Every step: one lemma per part of the next-state relation.              *)
LEMMA NextSent ==
  ASSUME GenerationInv, ProgressInv, SentInv, [Next]_vars
  PROVE  SentInv'
<1>1. ASSUME NEW r \in Reqs, AddRequest(r) \/ Abort(r) PROVE SentInv'
  BY <1>1, ClientSent
<1>2. CASE EngineStep
  BY <1>2, EngineSent, UpdateSent DEF EngineStep
<1>3. CASE Receive
  BY <1>3, ReceiveSent
<1>4. ASSUME NEW r \in Reqs, NEW last \in BOOLEAN, Arrive(r, last) PROVE SentInv'
  BY <1>4, ArriveSent
<1>5. CASE UNCHANGED vars
  <2>1. UNCHANGED <<emitted, status, put_req_chunk, get_req_chunk, pending_load_reqs, finished_requests>>
    BY <1>5 DEF vars, linkVars, producerVars, recvVars, loadVars, engineVars
  <2>2. ASSUME NEW q \in Reqs PROVE KeptBy(q)
    BY <2>1 DEF KeptBy, SentInv
  <2> QED
    BY <2>2, SentKept
<1> QED
  BY <1>1, <1>2, <1>3, <1>4, <1>5 DEF Next

(* Nothing was asked for and nothing was sent.                             *)
LEMMA InitProgress == Init => ProgressInv /\ SentInv
<1> SUFFICES ASSUME Init PROVE ProgressInv /\ SentInv
  OBVIOUS
<1>1. requests = {} /\ \A r \in Reqs : emitted[r] = <<>> /\ put_req_chunk[r] = 0
  BY DEF Init, LinkInit
<1> QED
  BY <1>1, LinkAssumption DEF ProgressInv, SentInv, SentOf

(* A step that changes nothing.                                            *)
LEMMA StutterProgress ==
  ASSUME ProgressInv, UNCHANGED vars
  PROVE  ProgressInv'
<1> USE DEF vars, linkVars, recvVars, loadVars, engineVars
<1>1. ASSUME NEW q \in requests PROVE ProgressOf(q)'
  <2>1. (Emits(q)' <=> Emits(q)) /\ (Arrived(q)' <=> Arrived(q)) /\ Delivered(q)' = Delivered(q)
    BY DEF Emits, Arrived, ToVisit, Delivered, queueVars
  <2>2. SameFor(q)
    BY <2>1 DEF SameFor
  <2> QED
    BY <2>2, SameProgress DEF ProgressInv
<1> QED
  BY <1>1 DEF ProgressInv

(* Under an ample budget ProgressInv is inductive: one lemma per action.   *)
LEMMA NextProgress ==
  ASSUME GenerationInv, ProgressInv, SentInv, Ample, [Next]_vars
  PROVE  ProgressInv'
<1>1. ASSUME NEW r \in Reqs, AddRequest(r) \/ Abort(r) PROVE ProgressInv'
  BY <1>1, AddRequestProgress, AbortProgress
<1>2. CASE EngineStep
  <2>1. CASE ProcessPendingChunks
    BY <2>1, VisitReadyProgress, VisitAskProgress, VisitAskMarkProgress, VisitLoadedProgress,
       VisitUnloadedProgress, NextQueueProgress DEF ProcessPendingChunks
  <2> QED
    BY <1>2, <2>1, BeginScheduleProgress, ScheduleProgress, UpdateProgress DEF EngineStep
<1>3. CASE Receive
  BY <1>3, PollProgress, PublishProgress, MarkProgress, FillProgress DEF Receive
<1>4. ASSUME NEW r \in Reqs, NEW last \in BOOLEAN, Arrive(r, last) PROVE ProgressInv'
  BY <1>4, ArriveProgress
<1>5. CASE UNCHANGED vars
  BY <1>5, StutterProgress
<1> QED
  BY <1>1, <1>2, <1>3, <1>4, <1>5 DEF Next

(* With a token budget for a chunk of every running request, the first     *)
(* outputs of a request come from steps on whole chunks, in the order in   *)
(* which the producer made them, none twice and none skipped; the next     *)
(* chunk is asked for only when the outputs sent are those of all earlier  *)
(* ones.  Outputs beyond the chunks, from steps past the end of the        *)
(* prompt, go only to a request whose final mark the engine thread         *)
(* overwrote.  With a smaller budget the fast path computes a part of a    *)
(* chunk.                                                                  *)
THEOREM ChunksEmittedInOrder ==
  ASSUME TokenBudget >= MaxNumSeqs * ChunkTokens
  PROVE  Spec => []EmittedInOrder
<1> DEFINE I == GenerationInv /\ ProgressInv /\ SentInv
<1>1. Init => I
  BY InitGen, InitProgress
<1>2. Ample
  BY DEF Ample
<1>3. I /\ [Next]_vars => I'
  BY <1>2, NextGen, NextProgress, NextSent
<1>4. I => EmittedInOrder
  BY DEF ProgressInv, ProgressOf, SentInv, SentOf, Whole, EmittedInOrder, MarkOverwritten
<1> HIDE DEF I
<1> QED
  BY <1>1, <1>3, <1>4, PTL DEF Spec

=============================================================================
