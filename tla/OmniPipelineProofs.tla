------------------------- MODULE OmniPipelineProofs -------------------------
(***************************************************************************)
(* OmniPipeline for any number of requests and stages, any configuration   *)
(* of final outputs and any bounds: types, and how concurrent requests,    *)
(* pauses, aborts and the shared stage objects keep out of each other's    *)
(* way, that outputs keep their order, and that generate() and the stages  *)
(* agree on where a request is.                                            *)
(***************************************************************************)
EXTENDS OmniPipeline, SequenceLemmas

Unadmitted == {"new", "waiting", "notified"}
Unfinished == Unadmitted \cup {"running", "yielding"}

(* In sequential mode a request has finished the stages before the one it  *)
(* is at, and the result it has yielded is one of that stage.              *)
At(r, k) ==
  /\ all_stages_finished[r] = 0..k - 1
  /\ phase[r] = "yielding" => held[r].stage = k

StagesInOrder ==
  ~async_chunk =>
    \A r \in Requests : phase[r] \in Unfinished => \E k \in 0..FinalStage[r] : At(r, k)

(* No stage knows of a request that was not admitted yet.                  *)
UnadmittedUnknown ==
  \A r \in Requests : phase[r] \in Unadmitted =>
    \A s \in Stages : r \notin tasks[s] /\ ~MentionedIn(in_q[s], r)

TaskInv == OwnInputs /\ UnadmittedUnknown /\ AbortReachesWork
PipelineInv == TypeOK /\ StagesInOrder /\ WaitsOnlyInPause /\ TaskInv
-----------------------------------------------------------------------------
(* The stage of the loop is the first one that is not finished.            *)
LEMMA CurrentIs ==
  ASSUME NEW r \in Requests, NEW k \in Stages, all_stages_finished[r] = 0..k - 1
  PROVE  Current(r) = k
<1>1. k \notin all_stages_finished[r] /\ \A t \in 0..k - 1 : t \in all_stages_finished[r]
  BY PipelineAssumption DEF Stages
<1>2. ASSUME NEW s \in Stages, s \notin all_stages_finished[r],
             \A t \in 0..s - 1 : t \in all_stages_finished[r]
      PROVE  s = k
  BY <1>2, PipelineAssumption DEF Stages
<1>3. QED
  BY <1>1, <1>2 DEF Current

(* The two tasks of a request belong to it and can be told apart.          *)
LEMMA TaskTypes ==
  ASSUME NEW r \in Requests
  PROVE  /\ Generate(r, r) \in Tasks /\ Abort(r) \in Tasks
         /\ Generate(r, r).source = r /\ Generate(r, r).rid = r
         /\ Abort(r).source = r /\ Abort(r).rid = r
         /\ Generate(r, r) # Abort(r)
BY DEF Tasks, Generate, Abort

(* What submitting a task does to the queue of each stage.                 *)
LEMMA SubmitFacts ==
  ASSUME NEW S, NEW task \in Tasks, Submit(S, task), in_q \in [Stages -> Seq(Tasks)]
  PROVE  /\ in_q' \in [Stages -> Seq(Tasks)]
         /\ \A s \in Stages :
              /\ Len(in_q'[s]) \in Nat /\ Len(in_q[s]) \in Nat
              /\ DOMAIN in_q[s] = 1..Len(in_q[s]) /\ DOMAIN in_q'[s] = 1..Len(in_q'[s])
              /\ Len(in_q'[s]) = Len(in_q[s]) + (IF s \in S THEN 1 ELSE 0)
              /\ \A i \in 1..Len(in_q[s]) : in_q'[s][i] = in_q[s][i]
              /\ s \in S => in_q'[s][Len(in_q[s]) + 1] = task
<1>1. in_q' \in [Stages -> Seq(Tasks)]
  BY DEF Submit
<1>2. ASSUME NEW s \in Stages
      PROVE  /\ Len(in_q'[s]) \in Nat /\ Len(in_q[s]) \in Nat
             /\ DOMAIN in_q[s] = 1..Len(in_q[s]) /\ DOMAIN in_q'[s] = 1..Len(in_q'[s])
             /\ Len(in_q'[s]) = Len(in_q[s]) + (IF s \in S THEN 1 ELSE 0)
             /\ \A i \in 1..Len(in_q[s]) : in_q'[s][i] = in_q[s][i]
             /\ s \in S => in_q'[s][Len(in_q[s]) + 1] = task
  <2>1. in_q[s] \in Seq(Tasks) /\ in_q'[s] \in Seq(Tasks)
    BY <1>1
  <2>2. CASE s \in S
    <3>1. in_q'[s] = Append(in_q[s], task)
      BY <2>2 DEF Submit
    <3>2. QED
      BY <2>1, <2>2, <3>1
  <2>3. CASE s \notin S
    <3>1. in_q'[s] = in_q[s]
      BY <2>3 DEF Submit
    <3>2. QED
      BY <2>1, <2>3, <3>1
  <2>4. QED
    BY <2>2, <2>3
<1>3. QED
  BY <1>1, <1>2

(* A request that is being admitted or served is submitted to some stages. *)
LEMMA SubmitKeeps ==
  ASSUME NEW S, NEW r \in Requests, Submit(S, Generate(r, r)),
         in_q \in [Stages -> Seq(Tasks)], TaskInv,
         UNCHANGED <<tasks, aborting>>, phase'[r] \notin Unadmitted \cup {"aborted"},
         \A q \in Requests \ {r} : phase'[q] = phase[q]
  PROVE  in_q' \in [Stages -> Seq(Tasks)] /\ TaskInv'
<1>1. /\ Generate(r, r) \in Tasks
      /\ Generate(r, r).source = r /\ Generate(r, r).rid = r
  BY TaskTypes
<1>2. /\ in_q' \in [Stages -> Seq(Tasks)]
      /\ \A s \in Stages :
           /\ Len(in_q'[s]) \in Nat /\ Len(in_q[s]) \in Nat
           /\ DOMAIN in_q[s] = 1..Len(in_q[s]) /\ DOMAIN in_q'[s] = 1..Len(in_q'[s])
           /\ Len(in_q'[s]) = Len(in_q[s]) + (IF s \in S THEN 1 ELSE 0)
           /\ \A i \in 1..Len(in_q[s]) : in_q'[s][i] = in_q[s][i]
           /\ s \in S => in_q'[s][Len(in_q[s]) + 1] = Generate(r, r)
  BY <1>1, SubmitFacts
<1>3. ASSUME NEW s \in Stages, NEW i \in DOMAIN in_q'[s]
      PROVE  \/ i \in DOMAIN in_q[s] /\ in_q'[s][i] = in_q[s][i]
             \/ in_q'[s][i] = Generate(r, r)
  <2>1. i \in 1..Len(in_q[s]) \/ (i = Len(in_q[s]) + 1 /\ s \in S)
    BY <1>2
  <2>2. QED
    BY <1>2, <2>1
<1>4. OwnInputs'
  BY <1>1, <1>3 DEF OwnInputs, TaskInv
<1>5. UnadmittedUnknown'
  BY <1>1, <1>3 DEF UnadmittedUnknown, MentionedIn, TaskInv
<1>6. AbortReachesWork'
  <2>1. ASSUME NEW q \in Requests, phase'[q] = "aborted", NEW s \in Stages
        PROVE  /\ q \in tasks'[s] => q \in aborting'[s] \/ \E i \in DOMAIN in_q'[s] : in_q'[s][i] = Abort(q)
               /\ \A i \in DOMAIN in_q'[s] : in_q'[s][i] = Generate(q, q) =>
                    \E j \in DOMAIN in_q'[s] : j > i /\ in_q'[s][j] = Abort(q)
    <3>1. q # r /\ phase[q] = "aborted"
      BY <2>1
    <3>2. Generate(r, r) # Generate(q, q)
      BY <3>1 DEF Generate
    <3>3. ASSUME NEW j \in DOMAIN in_q[s]
          PROVE  j \in DOMAIN in_q'[s] /\ in_q'[s][j] = in_q[s][j]
      <4>1. Len(in_q[s]) <= Len(in_q'[s]) /\ j \in 1..Len(in_q[s])
        BY <1>2
      <4>2. QED
        BY <4>1, <1>2
    <3>4. /\ q \in tasks[s] => q \in aborting[s] \/ \E i \in DOMAIN in_q[s] : in_q[s][i] = Abort(q)
          /\ \A i \in DOMAIN in_q[s] : in_q[s][i] = Generate(q, q) =>
               \E j \in DOMAIN in_q[s] : j > i /\ in_q[s][j] = Abort(q)
      BY <3>1 DEF TaskInv, AbortReachesWork
    <3>5. q \in tasks'[s] => q \in aborting'[s] \/ \E i \in DOMAIN in_q'[s] : in_q'[s][i] = Abort(q)
      BY <3>3, <3>4
    <3>6. ASSUME NEW i \in DOMAIN in_q'[s], in_q'[s][i] = Generate(q, q)
          PROVE  \E j \in DOMAIN in_q'[s] : j > i /\ in_q'[s][j] = Abort(q)
      <4>1. i \in DOMAIN in_q[s] /\ in_q[s][i] = Generate(q, q)
        BY <3>6, <1>3, <3>2
      <4>2. PICK j \in DOMAIN in_q[s] : j > i /\ in_q[s][j] = Abort(q)
        BY <4>1, <3>4
      <4>3. QED
        BY <4>2, <3>3
    <3>7. QED
      BY <3>5, <3>6
  <2>2. QED
    BY <2>1 DEF AbortReachesWork
<1>7. QED
  BY <1>2, <1>4, <1>5, <1>6 DEF TaskInv

(* Requests move on without a word to the stages.                          *)
LEMMA QuietKeeps ==
  ASSUME TaskInv, UNCHANGED <<in_q, tasks, aborting>>,
         \A q \in Requests : /\ phase'[q] \in Unadmitted => phase[q] \in Unadmitted
                             /\ phase'[q] = "aborted" => phase[q] = "aborted"
  PROVE  TaskInv'
<1>1. OwnInputs'
  BY DEF TaskInv, OwnInputs
<1>2. UnadmittedUnknown'
  BY DEF TaskInv, UnadmittedUnknown, MentionedIn
<1>3. AbortReachesWork'
  BY DEF TaskInv, AbortReachesWork
<1>4. QED
  BY <1>1, <1>2, <1>3 DEF TaskInv

(* A request goes away and every stage is told.                            *)
LEMMA CancelKeeps ==
  ASSUME NEW r \in Requests, Submit(Stages, Abort(r)), in_q \in [Stages -> Seq(Tasks)],
         TaskInv, UNCHANGED <<tasks, aborting>>, phase'[r] = "aborted",
         \A q \in Requests \ {r} : phase'[q] = phase[q],
         phase[r] \notin Unadmitted
  PROVE  in_q' \in [Stages -> Seq(Tasks)] /\ TaskInv'
<1>1. /\ Abort(r) \in Tasks /\ Abort(r).source = r /\ Abort(r).rid = r
      /\ \A q \in Requests : Abort(r) # Generate(q, q)
  BY DEF Abort, Generate, Tasks
<1>2. /\ in_q' \in [Stages -> Seq(Tasks)]
      /\ \A s \in Stages :
           /\ Len(in_q'[s]) \in Nat /\ Len(in_q[s]) \in Nat
           /\ DOMAIN in_q[s] = 1..Len(in_q[s]) /\ DOMAIN in_q'[s] = 1..Len(in_q'[s])
           /\ Len(in_q'[s]) = Len(in_q[s]) + 1
           /\ \A i \in 1..Len(in_q[s]) : in_q'[s][i] = in_q[s][i]
           /\ in_q'[s][Len(in_q[s]) + 1] = Abort(r)
  BY <1>1, SubmitFacts
<1>3. ASSUME NEW s \in Stages, NEW i \in DOMAIN in_q'[s]
      PROVE  \/ i \in DOMAIN in_q[s] /\ in_q'[s][i] = in_q[s][i]
             \/ in_q'[s][i] = Abort(r)
  <2>1. i \in 1..Len(in_q[s]) \/ i = Len(in_q[s]) + 1
    BY <1>2
  <2>2. QED
    BY <1>2, <2>1
<1>4. OwnInputs'
  BY <1>1, <1>3 DEF OwnInputs, TaskInv
<1>5. UnadmittedUnknown'
  BY <1>1, <1>3 DEF UnadmittedUnknown, MentionedIn, TaskInv, Unadmitted
<1>6. AbortReachesWork'
  <2>1. ASSUME NEW q \in Requests, phase'[q] = "aborted", NEW s \in Stages
        PROVE  /\ q \in tasks'[s] => q \in aborting'[s] \/ \E i \in DOMAIN in_q'[s] : in_q'[s][i] = Abort(q)
               /\ \A i \in DOMAIN in_q'[s] : in_q'[s][i] = Generate(q, q) =>
                    \E j \in DOMAIN in_q'[s] : j > i /\ in_q'[s][j] = Abort(q)
    <3>1. ASSUME NEW j \in DOMAIN in_q[s]
          PROVE  j \in DOMAIN in_q'[s] /\ in_q'[s][j] = in_q[s][j]
      <4>1. Len(in_q[s]) <= Len(in_q'[s]) /\ j \in 1..Len(in_q[s])
        BY <1>2
      <4>2. QED
        BY <4>1, <1>2
    <3>2. ASSUME q = r
          PROVE  /\ \E i \in DOMAIN in_q'[s] : in_q'[s][i] = Abort(q)
                 /\ \A i \in DOMAIN in_q'[s] : in_q'[s][i] = Generate(q, q) =>
                      \E j \in DOMAIN in_q'[s] : j > i /\ in_q'[s][j] = Abort(q)
      <4> DEFINE last == Len(in_q[s]) + 1
      <4>1. last \in DOMAIN in_q'[s] /\ in_q'[s][last] = Abort(q)
        BY <1>2, <3>2
      <4>2. ASSUME NEW i \in DOMAIN in_q'[s], in_q'[s][i] = Generate(q, q)
            PROVE  last > i
        <5>1. i \in DOMAIN in_q[s]
          BY <4>2, <1>1, <1>3
        <5>2. QED
          BY <5>1, <1>2
      <4> HIDE DEF last
      <4>3. QED
        BY <4>1, <4>2
    <3>3. ASSUME q # r
          PROVE  /\ q \in tasks[s] => q \in aborting[s] \/ \E i \in DOMAIN in_q[s] : in_q[s][i] = Abort(q)
                 /\ \A i \in DOMAIN in_q[s] : in_q[s][i] = Generate(q, q) =>
                      \E j \in DOMAIN in_q[s] : j > i /\ in_q[s][j] = Abort(q)
      BY <2>1, <3>3 DEF TaskInv, AbortReachesWork
    <3>4. q \in tasks'[s] => q \in aborting'[s] \/ \E i \in DOMAIN in_q'[s] : in_q'[s][i] = Abort(q)
      BY <3>1, <3>2, <3>3
    <3>5. ASSUME NEW i \in DOMAIN in_q'[s], in_q'[s][i] = Generate(q, q), q # r
          PROVE  \E j \in DOMAIN in_q'[s] : j > i /\ in_q'[s][j] = Abort(q)
      <4>1. i \in DOMAIN in_q[s] /\ in_q[s][i] = Generate(q, q)
        BY <3>5, <1>3, <1>1
      <4>2. PICK j \in DOMAIN in_q[s] : j > i /\ in_q[s][j] = Abort(q)
        BY <4>1, <3>3, <3>5
      <4>3. QED
        BY <4>2, <3>1
    <3>6. QED
      BY <3>2, <3>4, <3>5
  <2>2. QED
    BY <2>1 DEF AbortReachesWork
<1>7. QED
  BY <1>2, <1>4, <1>5, <1>6 DEF TaskInv

(* An engine is done with a request, or drops it.                          *)
LEMMA LessWorkKeeps ==
  ASSUME TaskInv, UNCHANGED <<in_q, phase>>,
         \A t \in Stages : /\ tasks'[t] \subseteq tasks[t]
                           /\ aborting[t] \cap tasks'[t] \subseteq aborting'[t]
  PROVE  TaskInv'
<1>1. OwnInputs'
  BY DEF TaskInv, OwnInputs
<1>2. UnadmittedUnknown'
  BY DEF TaskInv, UnadmittedUnknown, MentionedIn
<1>3. AbortReachesWork'
  BY DEF TaskInv, AbortReachesWork
<1>4. QED
  BY <1>1, <1>2, <1>3 DEF TaskInv

(* A worker takes the first of its tasks.                                  *)
LEMMA TakeTaskKeeps ==
  ASSUME NEW s \in Stages, in_q \in [Stages -> Seq(Tasks)], in_q[s] # <<>>, TaskInv,
         tasks \in [Stages -> SUBSET Requests], aborting \in [Stages -> SUBSET Requests],
         in_q' = [in_q EXCEPT ![s] = Tail(@)], UNCHANGED phase,
         IF Head(in_q[s]).type = "abort"
         THEN aborting' = [aborting EXCEPT ![s] = @ \cup {Head(in_q[s]).rid}] /\ UNCHANGED tasks
         ELSE tasks' = [tasks EXCEPT ![s] = @ \cup {Head(in_q[s]).rid}] /\ UNCHANGED aborting
  PROVE  /\ in_q' \in [Stages -> Seq(Tasks)]
         /\ tasks' \in [Stages -> SUBSET Requests] /\ aborting' \in [Stages -> SUBSET Requests]
         /\ TaskInv'
<1> DEFINE task == Head(in_q[s])
<1>1. in_q[s] \in Seq(Tasks) /\ Len(in_q[s]) \in Nat /\ DOMAIN in_q[s] = 1..Len(in_q[s])
  OBVIOUS
<1>2. 1 \in DOMAIN in_q[s] /\ task = in_q[s][1] /\ task \in Tasks
  BY <1>1
<1>3. in_q'[s] = Tail(in_q[s]) /\ \A t \in Stages \ {s} : in_q'[t] = in_q[t]
  OBVIOUS
<1>4. in_q' \in [Stages -> Seq(Tasks)]
  BY <1>1, <1>3
<1>5. Len(in_q'[s]) = Len(in_q[s]) - 1 /\ DOMAIN in_q'[s] = 1..Len(in_q[s]) - 1
  BY <1>1, <1>3
<1>6. ASSUME NEW i \in DOMAIN in_q'[s]
      PROVE  i \in Nat /\ i + 1 \in DOMAIN in_q[s] /\ in_q'[s][i] = in_q[s][i + 1]
  BY <1>1, <1>3, <1>5, <1>6
<1>7. ASSUME NEW j \in DOMAIN in_q[s]
      PROVE  j = 1 \/ (j > 1 /\ j - 1 \in DOMAIN in_q'[s] /\ in_q'[s][j - 1] = in_q[s][j])
  <2>1. CASE j > 1
    <3>1. j - 1 \in DOMAIN in_q'[s] /\ (j - 1) + 1 = j
      BY <2>1, <1>1, <1>5
    <3>2. QED
      BY <2>1, <3>1, <1>6
  <2>2. QED
    BY <2>1, <1>1
<1>8. \A q \in Requests : task = Abort(q) => task.type = "abort" /\ task.rid = q
  BY DEF Abort
<1>9. task.type = "abort" \/ task = Generate(task.rid, task.rid)
  <2>1. task.source = task.rid
    BY <1>2 DEF TaskInv, OwnInputs
  <2>2. QED
    BY <2>1, <1>2 DEF Tasks, Generate
<1>10. task.rid \in Requests
  BY <1>2 DEF Tasks
<1>11. IF task.type = "abort"
       THEN aborting' = [aborting EXCEPT ![s] = @ \cup {task.rid}] /\ UNCHANGED tasks
       ELSE tasks' = [tasks EXCEPT ![s] = @ \cup {task.rid}] /\ UNCHANGED aborting
  OBVIOUS
<1> HIDE DEF task
<1>12. tasks' \in [Stages -> SUBSET Requests] /\ aborting' \in [Stages -> SUBSET Requests]
  <2>1. CASE task.type = "abort"
    <3>1. aborting' = [aborting EXCEPT ![s] = @ \cup {task.rid}] /\ tasks' = tasks
      BY <2>1, <1>11
    <3>2. QED
      BY <3>1, <1>10
  <2>2. CASE task.type # "abort"
    <3>1. tasks' = [tasks EXCEPT ![s] = @ \cup {task.rid}] /\ aborting' = aborting
      BY <2>2, <1>11
    <3>2. QED
      BY <3>1, <1>10
  <2>3. QED
    BY <2>1, <2>2
<1>13. OwnInputs'
  <2>1. ASSUME NEW t \in Stages, NEW i \in DOMAIN in_q'[t]
        PROVE  in_q'[t][i].source = in_q'[t][i].rid
    BY <2>1, <1>3, <1>6 DEF TaskInv, OwnInputs
  <2>2. QED
    BY <2>1 DEF OwnInputs
<1>14. UnadmittedUnknown'
  <2>1. ASSUME NEW q \in Requests, phase'[q] \in Unadmitted, NEW t \in Stages
        PROVE  q \notin tasks'[t] /\ ~MentionedIn(in_q'[t], q)
    <3>1. q \notin tasks[t] /\ \A i \in DOMAIN in_q[t] : in_q[t][i].rid # q
      BY <2>1 DEF TaskInv, UnadmittedUnknown, MentionedIn
    <3>2. ASSUME t = s
          PROVE  task.rid # q /\ \A i \in DOMAIN in_q'[s] : in_q'[s][i].rid # q
      BY <3>1, <3>2, <1>2, <1>6
    <3>3. \A i \in DOMAIN in_q'[t] : in_q'[t][i].rid # q
      BY <3>1, <3>2, <1>3
    <3>4. q \notin tasks'[t]
      BY <3>1, <3>2, <1>11
    <3>5. QED
      BY <3>3, <3>4 DEF MentionedIn
  <2>2. QED
    BY <2>1 DEF UnadmittedUnknown
<1>15. AbortReachesWork'
  <2>1. ASSUME NEW q \in Requests, phase'[q] = "aborted", NEW t \in Stages
        PROVE  /\ q \in tasks'[t] => q \in aborting'[t] \/ \E i \in DOMAIN in_q'[t] : in_q'[t][i] = Abort(q)
               /\ \A i \in DOMAIN in_q'[t] : in_q'[t][i] = Generate(q, q) =>
                    \E j \in DOMAIN in_q'[t] : j > i /\ in_q'[t][j] = Abort(q)
    <3>1. /\ q \in tasks[t] => q \in aborting[t] \/ \E i \in DOMAIN in_q[t] : in_q[t][i] = Abort(q)
          /\ \A i \in DOMAIN in_q[t] : in_q[t][i] = Generate(q, q) =>
               \E j \in DOMAIN in_q[t] : j > i /\ in_q[t][j] = Abort(q)
      BY <2>1 DEF TaskInv, AbortReachesWork
    <3>2. ASSUME t # s
          PROVE  in_q'[t] = in_q[t] /\ tasks'[t] = tasks[t] /\ aborting'[t] = aborting[t]
      BY <3>2, <1>3, <1>11
    <3>3. ASSUME t = s, q \in tasks'[s]
          PROVE  q \in aborting'[s] \/ \E i \in DOMAIN in_q'[s] : in_q'[s][i] = Abort(q)
      <4>1. aborting[s] \subseteq aborting'[s] /\ (task.type = "abort" => task.rid \in aborting'[s])
        BY <1>11
      <4>2. ASSUME NEW j \in DOMAIN in_q[s], in_q[s][j] = Abort(q), task # Abort(q)
            PROVE  \E i \in DOMAIN in_q'[s] : in_q'[s][i] = Abort(q)
        BY <4>2, <1>2, <1>7, ZenonT(40)
      <4>3. CASE task = Abort(q)
        BY <4>1, <4>3, <1>8
      <4>4. ASSUME task # Abort(q), q \in tasks[s]
            PROVE  q \in aborting'[s] \/ \E i \in DOMAIN in_q'[s] : in_q'[s][i] = Abort(q)
        BY <4>1, <4>2, <4>4, <3>1, <3>3
      <4>5. ASSUME q \notin tasks[s]
            PROVE  \E i \in DOMAIN in_q'[s] : in_q'[s][i] = Abort(q)
        <5>1. task.type # "abort" /\ task.rid = q
          BY <4>5, <3>3, <1>11
        <5>2. task = Generate(q, q)
          BY <5>1, <1>9
        <5>3. PICK j \in DOMAIN in_q[s] : j > 1 /\ in_q[s][j] = Abort(q)
          BY <5>2, <1>2, <3>1, <3>3
        <5>4. QED
          BY <5>1, <5>3, <4>2, <1>8
      <4>6. QED
        BY <4>3, <4>4, <4>5
    <3>4. ASSUME t = s, NEW i \in DOMAIN in_q'[s], in_q'[s][i] = Generate(q, q)
          PROVE  \E j \in DOMAIN in_q'[s] : j > i /\ in_q'[s][j] = Abort(q)
      <4>1. i \in Nat /\ i + 1 \in DOMAIN in_q[s] /\ in_q[s][i + 1] = Generate(q, q)
        BY <3>4, <1>6
      <4>2. PICK j \in DOMAIN in_q[s] : j > i + 1 /\ in_q[s][j] = Abort(q)
        BY <4>1, <3>1, <3>4
      <4>3. j > 1 /\ j - 1 > i /\ j \in Nat
        BY <4>1, <4>2, <1>1
      <4>4. j - 1 \in DOMAIN in_q'[s] /\ in_q'[s][j - 1] = Abort(q)
        BY <4>2, <4>3, <1>7
      <4>5. QED
        BY <4>3, <4>4
    <3>5. QED
      BY <3>1, <3>2, <3>3, <3>4
  <2>2. QED
    BY <2>1 DEF AbortReachesWork
<1>16. QED
  BY <1>4, <1>12, <1>13, <1>14, <1>15 DEF TaskInv
-----------------------------------------------------------------------------
(* A request is at no other stage than before as long as it finishes none  *)
(* and yields nothing.                                                     *)
LEMMA OrderKeeps ==
  ASSUME StagesInOrder, UNCHANGED <<async_chunk, all_stages_finished, held>>,
         \A q \in Requests : phase'[q] = phase[q]
                             \/ phase'[q] \notin Unfinished \cup {"yielding"}
                             \/ (phase[q] \in Unfinished /\ phase'[q] # "yielding")
  PROVE  StagesInOrder'
BY DEF StagesInOrder, At, Unfinished, Unadmitted

(* A request ends at a stage, and only its last one has no successor.      *)
LEMMA StageConstants ==
  /\ Stages \subseteq Nat /\ 0 \in Stages
  /\ \A r \in Requests : /\ FinalStage[r] \in Stages /\ 0 \in 0..FinalStage[r]
                         /\ \A k \in 0..FinalStage[r] : k \in Stages
                         /\ \A k \in 0..FinalStage[r] : k < FinalStage[r] => k + 1 \in Stages
<1>1. NumStages \in Nat \ {0} /\ Stages = 0..NumStages - 1
  BY PipelineAssumption DEF Stages
<1>2. ASSUME NEW r \in Requests
      PROVE  FinalStage[r] \in Stages
  <2>1. FinalStage[r] \in FinalOutput \cup {NumStages - 1} /\ FinalOutput \subseteq Stages
    BY PipelineAssumption
  <2>2. NumStages - 1 \in Stages
    BY <1>1
  <2>3. QED
    BY <2>1, <2>2
<1>3. QED
  BY <1>1, <1>2

(* A bound that was not reached yet leaves room for one more.              *)
LEMMA Bounds ==
  /\ MaxDisruptions \in Nat /\ MaxPauses \in Nat
  /\ \A n \in 0..MaxDisruptions : n < MaxDisruptions => n + 1 \in 0..MaxDisruptions
  /\ \A n \in 0..MaxPauses : n < MaxPauses => n + 1 \in 0..MaxPauses
<1>1. MaxDisruptions \in Nat /\ MaxPauses \in Nat
  BY PipelineAssumption
<1>2. QED
  BY <1>1

(* No request was called and every queue is empty.                         *)
LEMMA InitInv == Init => PipelineInv
<1> SUFFICES ASSUME Init PROVE PipelineInv
  OBVIOUS
<1>1. TypeOK
  <2>1. /\ async_chunk \in BOOLEAN /\ paused \in BOOLEAN
        /\ phase \in [Requests -> Phases]
        /\ all_stages_finished \in [Requests -> SUBSET Stages]
        /\ request_states \subseteq Requests
        /\ stage_id \in [Requests -> Stages \cup {-1}]
        /\ engine_outputs \in [Stages -> Requests \cup {NoRequest}]
    BY DEF Init, Phases
  <2>2. held \in [Requests -> [stage : Stages, last : BOOLEAN]]
    BY StageConstants DEF Init, NoResult
  <2>3. /\ queue \in [Requests -> [Stages -> Seq(Results)]]
        /\ in_q \in [Stages -> Seq(Tasks)]
        /\ out_q \in [Stages -> Seq(Results)]
        /\ generation_out_q \in [Stages -> Seq(Results)]
        /\ batch \in [Stages -> Seq(Results)]
        /\ received \in [Requests -> [Stages -> Seq(Stages \X (Nat \ {0}))]]
    BY DEF Init
  <2>4. /\ tasks \in [Stages -> SUBSET Requests]
        /\ aborting \in [Stages -> SUBSET Requests]
        /\ produced \in [Stages -> [Requests -> Nat]]
        /\ ended \in [Stages -> SUBSET Requests]
        /\ disruptions \in 0..MaxDisruptions /\ pauses \in 0..MaxPauses
    BY Bounds DEF Init
  <2>5. QED
    BY <2>1, <2>2, <2>3, <2>4 DEF TypeOK
<1>2. StagesInOrder
  <2>1. ASSUME NEW r \in Requests
        PROVE  0 \in 0..FinalStage[r] /\ At(r, 0)
    BY StageConstants DEF Init, At
  <2>2. QED
    BY <2>1 DEF StagesInOrder
<1>3. WaitsOnlyInPause
  BY DEF Init, WaitsOnlyInPause
<1>4. TaskInv
  <2>1. \A s \in Stages : DOMAIN in_q[s] = {} /\ tasks[s] = {}
    BY DEF Init
  <2>2. QED
    BY <2>1 DEF Init, TaskInv, OwnInputs, UnadmittedUnknown, AbortReachesWork, MentionedIn
<1>5. QED
  BY <1>1, <1>2, <1>3, <1>4 DEF PipelineInv

(* A pause moves no request.                                               *)
LEMMA PauseKeeps == PipelineInv /\ Pause => PipelineInv'
<1> SUFFICES ASSUME PipelineInv, Pause PROVE PipelineInv'
  OBVIOUS
<1> USE DEF Pause, requestVars, handlerVars, workerVars
<1>1. TypeOK'
  BY Bounds DEF PipelineInv, TypeOK
<1>2. StagesInOrder'
  BY OrderKeeps DEF PipelineInv
<1>3. WaitsOnlyInPause'
  BY DEF WaitsOnlyInPause
<1>4. TaskInv'
  BY QuietKeeps DEF PipelineInv
<1>5. QED
  BY <1>1, <1>2, <1>3, <1>4 DEF PipelineInv

(* A resume leaves nobody waiting.                                         *)
LEMMA ResumeKeeps == PipelineInv /\ Resume => PipelineInv'
<1> SUFFICES ASSUME PipelineInv, Resume PROVE PipelineInv'
  OBVIOUS
<1> USE DEF Resume, NotifyAll, handlerVars, workerVars
<1>1. TypeOK'
  BY DEF PipelineInv, TypeOK, Phases
<1>2. StagesInOrder'
  BY OrderKeeps DEF PipelineInv, Unfinished, Unadmitted
<1>3. WaitsOnlyInPause'
  BY DEF WaitsOnlyInPause
<1>4. TaskInv'
  BY QuietKeeps DEF PipelineInv, Unadmitted
<1>5. QED
  BY <1>1, <1>2, <1>3, <1>4 DEF PipelineInv

(* A request that is called or woken is admitted unless it is a pause.     *)
LEMMA AdmitKeeps ==
  ASSUME PipelineInv, NEW r \in Requests, phase[r] \in Unadmitted, Admit(r)
  PROVE  PipelineInv'
<1>1. CASE paused
  <2>1. /\ phase' = [phase EXCEPT ![r] = "waiting"]
        /\ UNCHANGED <<request_states, in_q>>
        /\ UNCHANGED <<async_chunk, pauseVars, all_stages_finished, held, engine_outputs,
                      received, handlerVars, out_q, workerVars, disruptions>>
    BY <1>1 DEF Admit, Move
  <2> USE <2>1 DEF pauseVars, handlerVars, workerVars
  <2>2. TypeOK'
    BY DEF PipelineInv, TypeOK, Phases
  <2>3. phase \in [Requests -> Phases]
    BY DEF PipelineInv, TypeOK
  <2>4. StagesInOrder'
    BY <2>3, OrderKeeps DEF PipelineInv, Unfinished
  <2>5. WaitsOnlyInPause'
    BY <1>1, <2>3 DEF PipelineInv, WaitsOnlyInPause
  <2>6. TaskInv'
    BY <2>3, QuietKeeps DEF PipelineInv, Unadmitted
  <2>7. QED
    BY <2>2, <2>4, <2>5, <2>6 DEF PipelineInv
<1>2. CASE ~paused
  <2>1. /\ phase' = [phase EXCEPT ![r] = "running"]
        /\ request_states' = request_states \cup {r}
        /\ Submit({0}, Generate(r, r))
        /\ UNCHANGED <<async_chunk, pauseVars, all_stages_finished, held, engine_outputs,
                      received, handlerVars, out_q, workerVars, disruptions>>
    BY <1>2 DEF Admit, Start, Move
  <2>2. phase \in [Requests -> Phases] /\ in_q \in [Stages -> Seq(Tasks)]
    BY DEF PipelineInv, TypeOK
  <2>3. /\ phase'[r] \notin Unadmitted \cup {"aborted"}
        /\ \A q \in Requests \ {r} : phase'[q] = phase[q]
    BY <2>1, <2>2 DEF Unadmitted
  <2>4. in_q' \in [Stages -> Seq(Tasks)] /\ TaskInv'
    BY <2>1, <2>2, <2>3, SubmitKeeps DEF PipelineInv, workerVars
  <2> USE <2>1 DEF pauseVars, handlerVars, workerVars
  <2>5. TypeOK'
    BY <2>4 DEF PipelineInv, TypeOK, Phases
  <2>6. StagesInOrder'
    BY <2>2, OrderKeeps DEF PipelineInv, Unfinished
  <2>7. WaitsOnlyInPause'
    BY <2>2 DEF PipelineInv, WaitsOnlyInPause
  <2>8. QED
    BY <2>4, <2>5, <2>6, <2>7 DEF PipelineInv
<1>3. QED
  BY <1>1, <1>2

(* A client goes away: the stages are told, or know nothing of it.         *)
LEMMA CancelStepKeeps ==
  ASSUME PipelineInv, NEW r \in Requests, Cancel(r)
  PROVE  PipelineInv'
<1>1. /\ phase' = [phase EXCEPT ![r] = "aborted"]
      /\ UNCHANGED <<async_chunk, pauseVars, all_stages_finished, request_states, held,
                    engine_outputs, received, handlerVars, out_q, workerVars>>
      /\ disruptions < MaxDisruptions /\ disruptions' = disruptions + 1
      /\ \/ phase[r] \in {"running", "yielding"} /\ Submit(Stages, Abort(r))
         \/ phase[r] \in {"waiting", "notified"} /\ UNCHANGED in_q
  BY DEF Cancel, Move, Disrupt, TellStages, NothingToTell
<1>2. phase \in [Requests -> Phases] /\ in_q \in [Stages -> Seq(Tasks)]
  BY DEF PipelineInv, TypeOK
<1>3. phase'[r] = "aborted" /\ \A q \in Requests \ {r} : phase'[q] = phase[q]
  BY <1>1, <1>2
<1>4. in_q' \in [Stages -> Seq(Tasks)] /\ TaskInv'
  <2>1. CASE phase[r] \in {"running", "yielding"} /\ Submit(Stages, Abort(r))
    BY <1>1, <1>2, <1>3, <2>1, CancelKeeps DEF PipelineInv, workerVars, Unadmitted
  <2>2. CASE phase[r] \in {"waiting", "notified"} /\ UNCHANGED in_q
    <3>1. phase[r] \in Unadmitted /\ UNCHANGED <<in_q, tasks, aborting>>
      BY <1>1, <2>2 DEF Unadmitted, workerVars
    <3>2. OwnInputs'
      BY <3>1 DEF PipelineInv, TaskInv, OwnInputs
    <3>3. UnadmittedUnknown'
      BY <1>3, <3>1 DEF PipelineInv, TaskInv, UnadmittedUnknown, MentionedIn, Unadmitted
    <3>4. AbortReachesWork'
      <4>1. ASSUME NEW s \in Stages
            PROVE  r \notin tasks[s] /\ \A i \in DOMAIN in_q[s] : in_q[s][i] # Generate(r, r)
        BY <3>1 DEF PipelineInv, TaskInv, UnadmittedUnknown, MentionedIn, Generate
      <4>2. QED
        BY <1>3, <3>1, <4>1 DEF PipelineInv, TaskInv, AbortReachesWork
    <3>5. QED
      BY <1>2, <3>1, <3>2, <3>3, <3>4 DEF TaskInv
  <2>3. QED
    BY <1>1, <2>1, <2>2
<1>5. TypeOK'
  BY <1>1, <1>4, Bounds
     DEF PipelineInv, TypeOK, Phases, pauseVars, handlerVars, workerVars
<1>6. StagesInOrder'
  BY <1>1, <1>3, OrderKeeps DEF PipelineInv, Unfinished, Unadmitted
<1>7. WaitsOnlyInPause'
  BY <1>1, <1>3 DEF PipelineInv, WaitsOnlyInPause, pauseVars
<1>8. QED
  BY <1>4, <1>5, <1>6, <1>7 DEF PipelineInv
-----------------------------------------------------------------------------
(* The handler and the workers leave every request at its stage.           *)
LEMMA PhaseKeeps ==
  ASSUME StagesInOrder, WaitsOnlyInPause,
         UNCHANGED <<async_chunk, paused, phase, all_stages_finished, held>>
  PROVE  StagesInOrder' /\ WaitsOnlyInPause'
BY DEF StagesInOrder, At, WaitsOnlyInPause

(* The handler passes a result on or drops it.                             *)
LEMMA CollectKeeps ==
  ASSUME PipelineInv, NEW s \in Stages, Collect(s)
  PROVE  PipelineInv'
<1> DEFINE result == Head(out_q[s])
<1>1. /\ out_q[s] # <<>>
      /\ out_q' = [out_q EXCEPT ![s] = Tail(@)]
      /\ IF result.rid \in request_states
         THEN Hand(result.rid, s, result)
         ELSE UNCHANGED handlerVars
      /\ UNCHANGED <<async_chunk, pauseVars, requestVars, in_q, workerVars, disruptions>>
  BY DEF Collect
<1>2. out_q[s] \in Seq(Results) /\ out_q \in [Stages -> Seq(Results)]
  BY DEF PipelineInv, TypeOK
<1>3. result \in Results /\ out_q' \in [Stages -> Seq(Results)]
  BY <1>1, <1>2
<1>4. result.rid \in Requests
  BY <1>3 DEF Results
<1> HIDE DEF result
<1>5. /\ queue \in [Requests -> [Stages -> Seq(Results)]]
      /\ stage_id \in [Requests -> Stages \cup {-1}]
  BY DEF PipelineInv, TypeOK
<1>6. /\ queue' \in [Requests -> [Stages -> Seq(Results)]]
      /\ stage_id' \in [Requests -> Stages \cup {-1}]
  <2>1. CASE UNCHANGED handlerVars
    BY <1>5, <2>1 DEF handlerVars
  <2>2. CASE Hand(result.rid, s, result)
    <3>1. PICK k \in Stages : queue' = [queue EXCEPT ![result.rid][k] = Append(@, result)]
      BY <2>2, StageConstants DEF Hand
    <3>2. stage_id' = stage_id \/ stage_id' = [stage_id EXCEPT ![result.rid] = s]
      BY <2>2 DEF Hand, NoteStage
    <3>3. Append(queue[result.rid][k], result) \in Seq(Results)
      BY <1>3, <1>4, <1>5
    <3>4. queue' \in [Requests -> [Stages -> Seq(Results)]]
      BY <1>4, <1>5, <3>1, <3>3
    <3>5. QED
      BY <1>4, <1>5, <3>2, <3>4
  <2>3. QED
    BY <1>1, <2>1, <2>2
<1>7. TypeOK'
  BY <1>1, <1>3, <1>6 DEF PipelineInv, TypeOK, pauseVars, requestVars, workerVars
<1>8. StagesInOrder' /\ WaitsOnlyInPause'
  BY <1>1, PhaseKeeps DEF PipelineInv, pauseVars, requestVars
<1>9. TaskInv'
  BY <1>1, QuietKeeps DEF PipelineInv, requestVars, workerVars
<1>10. QED
  BY <1>7, <1>8, <1>9 DEF PipelineInv

(* A worker takes a task and collects outputs.                             *)
LEMMA RoundKeeps ==
  ASSUME PipelineInv, NEW s \in Stages, Round(s)
  PROVE  PipelineInv'
<1>1. /\ batch' = [batch EXCEPT ![s] = generation_out_q[s]]
      /\ generation_out_q' = [generation_out_q EXCEPT ![s] = <<>>]
      /\ UNCHANGED <<async_chunk, pauseVars, requestVars, handlerVars, out_q, produced, ended,
                    disruptions>>
  BY DEF Round
<1>2. /\ batch \in [Stages -> Seq(Results)] /\ generation_out_q \in [Stages -> Seq(Results)]
      /\ in_q \in [Stages -> Seq(Tasks)]
      /\ tasks \in [Stages -> SUBSET Requests] /\ aborting \in [Stages -> SUBSET Requests]
      /\ TaskInv
  BY DEF PipelineInv, TypeOK
<1>3. batch' \in [Stages -> Seq(Results)] /\ generation_out_q' \in [Stages -> Seq(Results)]
  BY <1>1, <1>2
<1>4. /\ in_q' \in [Stages -> Seq(Tasks)]
      /\ tasks' \in [Stages -> SUBSET Requests] /\ aborting' \in [Stages -> SUBSET Requests]
      /\ TaskInv'
  <2>1. CASE in_q[s] = <<>>
    <3>1. UNCHANGED <<in_q, tasks, aborting, phase>>
      BY <2>1 DEF Round, requestVars
    <3>2. QED
      BY <3>1, <1>2, QuietKeeps
  <2>2. CASE in_q[s] # <<>>
    <3>1. /\ in_q' = [in_q EXCEPT ![s] = Tail(@)] /\ UNCHANGED phase
          /\ IF Head(in_q[s]).type = "abort"
             THEN aborting' = [aborting EXCEPT ![s] = @ \cup {Head(in_q[s]).rid}] /\ UNCHANGED tasks
             ELSE tasks' = [tasks EXCEPT ![s] = @ \cup {Head(in_q[s]).rid}] /\ UNCHANGED aborting
      BY <2>2 DEF Round, requestVars
    <3>2. QED
      BY <2>2, <3>1, <1>2, TakeTaskKeeps
  <2>3. QED
    BY <2>1, <2>2
<1>5. TypeOK'
  BY <1>1, <1>3, <1>4 DEF PipelineInv, TypeOK, pauseVars, requestVars, handlerVars
<1>6. StagesInOrder' /\ WaitsOnlyInPause'
  BY <1>1, PhaseKeeps DEF PipelineInv, pauseVars, requestVars
<1>7. QED
  BY <1>4, <1>5, <1>6 DEF PipelineInv

(* A worker sends what it collected.                                       *)
LEMMA SendKeeps ==
  ASSUME PipelineInv, NEW s \in Stages, Send(s)
  PROVE  PipelineInv'
<1> USE DEF Send
<1>1. TypeOK'
  BY DEF PipelineInv, TypeOK, pauseVars, requestVars, handlerVars
<1>2. StagesInOrder' /\ WaitsOnlyInPause'
  BY PhaseKeeps DEF PipelineInv, pauseVars, requestVars
<1>3. TaskInv'
  BY QuietKeeps DEF PipelineInv, requestVars
<1>4. QED
  BY <1>1, <1>2, <1>3 DEF PipelineInv

(* An engine yields an output; with the last one its work is done.         *)
LEMMA OutputKeeps ==
  ASSUME PipelineInv, NEW s \in Stages, NEW r \in Requests, Output(s, r)
  PROVE  PipelineInv'
<1>1. PICK last \in BOOLEAN :
        /\ generation_out_q' = [generation_out_q EXCEPT
                                  ![s] = Append(@, Result(r, s, produced[s][r] + 1, last))]
        /\ tasks' = IF last THEN [tasks EXCEPT ![s] = @ \ {r}] ELSE tasks
        /\ ended' = IF last THEN [ended EXCEPT ![s] = @ \cup {r}] ELSE ended
  BY DEF Output
<1>2. /\ produced' = [produced EXCEPT ![s][r] = @ + 1]
      /\ UNCHANGED <<async_chunk, pauseVars, requestVars, handlerVars, in_q, out_q, aborting,
                    batch, disruptions>>
  BY DEF Output
<1>3. /\ generation_out_q \in [Stages -> Seq(Results)] /\ produced \in [Stages -> [Requests -> Nat]]
      /\ tasks \in [Stages -> SUBSET Requests] /\ ended \in [Stages -> SUBSET Requests]
  BY DEF PipelineInv, TypeOK
<1>4. Result(r, s, produced[s][r] + 1, last) \in Results
  BY <1>3 DEF Result, Results
<1>5. generation_out_q' \in [Stages -> Seq(Results)]
  BY <1>1, <1>3, <1>4
<1>6. /\ tasks' \in [Stages -> SUBSET Requests] /\ ended' \in [Stages -> SUBSET Requests]
      /\ \A t \in Stages : tasks'[t] \subseteq tasks[t]
  BY <1>1, <1>3
<1>7. produced' \in [Stages -> [Requests -> Nat]]
  BY <1>2, <1>3
<1>8. TypeOK'
  BY <1>2, <1>5, <1>6, <1>7 DEF PipelineInv, TypeOK, pauseVars, requestVars, handlerVars
<1>9. StagesInOrder' /\ WaitsOnlyInPause'
  BY <1>2, PhaseKeeps DEF PipelineInv, pauseVars, requestVars
<1>10. TaskInv'
  BY <1>2, <1>6, LessWorkKeeps DEF PipelineInv, requestVars
<1>11. QED
  BY <1>8, <1>9, <1>10 DEF PipelineInv

(* An engine raises, and works on the request no more.                     *)
LEMMA FailKeeps ==
  ASSUME PipelineInv, NEW s \in Stages, NEW r \in Requests, Fail(s, r)
  PROVE  PipelineInv'
<1>1. /\ disruptions < MaxDisruptions /\ disruptions' = disruptions + 1
      /\ tasks' = [tasks EXCEPT ![s] = @ \ {r}]
      /\ out_q' = [out_q EXCEPT ![s] = Append(@, Error(r, s))]
      /\ UNCHANGED <<async_chunk, pauseVars, requestVars, handlerVars, in_q, aborting,
                    generation_out_q, batch, produced, ended>>
  BY DEF Fail, Disrupt
<1>2. Error(r, s) \in Results
  BY DEF Error, Result, Results
<1>3. TypeOK'
  BY <1>1, <1>2, Bounds, SMTT(30) DEF PipelineInv, TypeOK, pauseVars, requestVars, handlerVars
<1>4. StagesInOrder' /\ WaitsOnlyInPause'
  BY <1>1, PhaseKeeps DEF PipelineInv, pauseVars, requestVars
<1>5. tasks \in [Stages -> SUBSET Requests]
  BY DEF PipelineInv, TypeOK
<1>6. TaskInv'
  BY <1>1, <1>5, LessWorkKeeps DEF PipelineInv, requestVars
<1>7. QED
  BY <1>3, <1>4, <1>6 DEF PipelineInv

(* An engine drops the request it is told to abort.                        *)
LEMMA AbortTaskKeeps ==
  ASSUME PipelineInv, NEW s \in Stages, NEW r \in Requests, AbortTask(s, r)
  PROVE  PipelineInv'
<1>1. /\ aborting' = [aborting EXCEPT ![s] = @ \ {r}]
      /\ tasks' = [tasks EXCEPT ![s] = @ \ {r}]
      /\ UNCHANGED <<async_chunk, pauseVars, requestVars, handlerVars, in_q, out_q,
                    generation_out_q, batch, produced, ended, disruptions>>
  BY DEF AbortTask
<1>2. TypeOK'
  BY <1>1 DEF PipelineInv, TypeOK, pauseVars, requestVars, handlerVars
<1>3. StagesInOrder' /\ WaitsOnlyInPause'
  BY <1>1, PhaseKeeps DEF PipelineInv, pauseVars, requestVars
<1>4. tasks \in [Stages -> SUBSET Requests] /\ aborting \in [Stages -> SUBSET Requests]
  BY DEF PipelineInv, TypeOK
<1>5. TaskInv'
  BY <1>1, <1>4, LessWorkKeeps DEF PipelineInv, requestVars
<1>6. QED
  BY <1>2, <1>3, <1>5 DEF PipelineInv
-----------------------------------------------------------------------------
(* The parts of the type invariant that the coroutine of a request may     *)
(* change besides the queue of its results.                                *)
RequestTypes ==
  /\ phase \in [Requests -> Phases]
  /\ all_stages_finished \in [Requests -> SUBSET Stages]
  /\ request_states \subseteq Requests
  /\ held \in [Requests -> [stage : Stages, last : BOOLEAN]]
  /\ engine_outputs \in [Stages -> Requests \cup {NoRequest}]
  /\ in_q \in [Stages -> Seq(Tasks)]
  /\ disruptions \in 0..MaxDisruptions

RequestOwns == RequestTypes /\ StagesInOrder /\ WaitsOnlyInPause /\ TaskInv

(* A request that moves on, is complete or fails, without a new task.      *)
LEMMA MoveKeeps ==
  ASSUME RequestOwns, NEW r \in Requests, phase[r] \in Unfinished,
         NEW to \in {"running", "yielding", "done", "failed"},
         phase' = [phase EXCEPT ![r] = to],
         UNCHANGED <<async_chunk, paused, in_q, tasks, aborting>>
  PROVE  /\ phase' \in [Requests -> Phases]
         /\ \A q \in Requests \ {r} : phase'[q] = phase[q]
         /\ phase'[r] = to
         /\ WaitsOnlyInPause' /\ TaskInv'
<1>1. phase \in [Requests -> Phases]
  BY DEF RequestOwns, RequestTypes
<1>2. /\ phase' \in [Requests -> Phases]
      /\ \A q \in Requests \ {r} : phase'[q] = phase[q]
      /\ phase'[r] = to
  BY <1>1 DEF Phases
<1>3. WaitsOnlyInPause'
  BY <1>2 DEF RequestOwns, WaitsOnlyInPause
<1>4. TaskInv'
  BY <1>2, QuietKeeps DEF RequestOwns, Unadmitted
<1>5. QED
  BY <1>2, <1>3, <1>4

(* A request that submits a task of its own on the way.                    *)
LEMMA MoveSubmitKeeps ==
  ASSUME RequestOwns, NEW r \in Requests, NEW S,
         NEW to \in {"running", "yielding", "done", "failed"},
         phase' = [phase EXCEPT ![r] = to], Submit(S, Generate(r, r)),
         UNCHANGED <<async_chunk, paused, tasks, aborting>>
  PROVE  /\ phase' \in [Requests -> Phases] /\ in_q' \in [Stages -> Seq(Tasks)]
         /\ \A q \in Requests \ {r} : phase'[q] = phase[q]
         /\ phase'[r] = to
         /\ WaitsOnlyInPause' /\ TaskInv'
<1>1. phase \in [Requests -> Phases] /\ in_q \in [Stages -> Seq(Tasks)]
  BY DEF RequestOwns, RequestTypes
<1>2. /\ phase' \in [Requests -> Phases]
      /\ \A q \in Requests \ {r} : phase'[q] = phase[q]
      /\ phase'[r] = to
  BY <1>1 DEF Phases
<1>3. WaitsOnlyInPause'
  BY <1>2 DEF RequestOwns, WaitsOnlyInPause
<1>4. in_q' \in [Stages -> Seq(Tasks)] /\ TaskInv'
  BY <1>1, <1>2, SubmitKeeps DEF RequestOwns, Unadmitted
<1>5. QED
  BY <1>2, <1>3, <1>4

(* Sequential mode: the request stays at its stage, goes to the next, is   *)
(* complete or fails.                                                      *)
LEMMA AfterResultKeeps ==
  ASSUME RequestOwns, NEW r \in Requests, phase[r] \in Serving, ~async_chunk,
         NEW k \in 0..FinalStage[r], At(r, k), NEW last \in BOOLEAN,
         AfterResult(r, k, last), UNCHANGED <<async_chunk, paused, held, tasks, aborting>>
  PROVE  RequestOwns'
<1>1. phase[r] \in Unfinished /\ k \in Stages /\ k \in Nat /\ k + 1 \in Nat
  BY StageConstants DEF Unfinished, Serving
<1>2. /\ RequestTypes /\ StagesInOrder
      /\ all_stages_finished[r] = 0..k - 1
  BY DEF RequestOwns, At
<1>3. CASE ~last
  <2>1. /\ phase' = [phase EXCEPT ![r] = "running"]
        /\ UNCHANGED <<all_stages_finished, engine_outputs, request_states, in_q, disruptions>>
    BY <1>3 DEF AfterResult, Move
  <2>2. /\ phase' \in [Requests -> Phases]
        /\ \A q \in Requests \ {r} : phase'[q] = phase[q]
        /\ phase'[r] = "running"
        /\ WaitsOnlyInPause' /\ TaskInv'
    BY <1>1, <2>1, MoveKeeps
  <2>3. StagesInOrder'
    BY <1>1, <1>2, <2>1, <2>2, OrderKeeps
  <2>4. RequestTypes'
    BY <1>2, <2>1, <2>2 DEF RequestTypes
  <2>5. QED
    BY <2>2, <2>3, <2>4 DEF RequestOwns
<1>4. CASE last
  <2>1. /\ all_stages_finished' = [all_stages_finished EXCEPT ![r] = @ \cup {k}]
        /\ engine_outputs' = [engine_outputs EXCEPT ![k] = r]
    BY <1>4 DEF AfterResult, SetEngineOutputs
  <2>2. /\ all_stages_finished' \in [Requests -> SUBSET Stages]
        /\ \A q \in Requests \ {r} : all_stages_finished'[q] = all_stages_finished[q]
        /\ all_stages_finished'[r] = 0..k - 1 \cup {k}
        /\ engine_outputs' \in [Stages -> Requests \cup {NoRequest}]
        /\ engine_outputs'[k] = r
    BY <1>1, <1>2, <2>1 DEF RequestTypes
  <2>3. all_stages_finished'[r] = 0..(k + 1) - 1
    BY <1>1, <2>2
  <2>4. ASSUME \A q \in Requests \ {r} : phase'[q] = phase[q],
               phase'[r] # "yielding",
               phase'[r] \in Unfinished => k + 1 \in 0..FinalStage[r]
        PROVE  StagesInOrder'
    <3>1. ASSUME NEW q \in Requests, phase'[q] \in Unfinished
          PROVE  \E j \in 0..FinalStage[q] : At(q, j)'
      <4>1. CASE q = r
        BY <2>3, <2>4, <3>1, <4>1 DEF At
      <4>2. CASE q # r
        <5>1. PICK j \in 0..FinalStage[q] : At(q, j)
          BY <1>2, <2>4, <3>1, <4>2 DEF StagesInOrder
        <5>2. QED
          BY <2>2, <2>4, <4>2, <5>1 DEF At
      <4>3. QED
        BY <4>1, <4>2
    <3>2. QED
      BY <3>1 DEF StagesInOrder
  <2>5. CASE k < FinalStage[r]
    <3>1. Forward(r, k) /\ UNCHANGED request_states /\ k + 1 \in 0..FinalStage[r]
      <4>1. Forward(r, k) /\ UNCHANGED request_states
        BY <1>4, <2>5 DEF AfterResult
      <4>2. FinalStage[r] \in Nat
        BY StageConstants
      <4>3. QED
        BY <1>1, <2>5, <4>1, <4>2
    <3>2. CASE /\ Submit({k + 1}, Generate(r, engine_outputs'[k]))
               /\ phase' = [phase EXCEPT ![r] = "running"]
               /\ UNCHANGED disruptions
      <4>1. /\ phase' \in [Requests -> Phases] /\ in_q' \in [Stages -> Seq(Tasks)]
            /\ \A q \in Requests \ {r} : phase'[q] = phase[q]
            /\ phase'[r] = "running"
            /\ WaitsOnlyInPause' /\ TaskInv'
        BY <2>2, <3>2, MoveSubmitKeeps
      <4>2. StagesInOrder'
        BY <2>4, <3>1, <4>1
      <4>3. RequestTypes'
        BY <1>2, <2>2, <3>1, <3>2, <4>1 DEF RequestTypes
      <4>4. QED
        BY <4>1, <4>2, <4>3 DEF RequestOwns
    <3>3. CASE /\ disruptions < MaxDisruptions /\ disruptions' = disruptions + 1
               /\ phase' = [phase EXCEPT ![r] = "failed"]
               /\ UNCHANGED in_q
      <4>1. /\ phase' \in [Requests -> Phases]
            /\ \A q \in Requests \ {r} : phase'[q] = phase[q]
            /\ phase'[r] = "failed"
            /\ WaitsOnlyInPause' /\ TaskInv'
        BY <1>1, <3>3, MoveKeeps
      <4>2. StagesInOrder'
        BY <2>4, <3>1, <4>1
      <4>3. RequestTypes'
        BY <1>2, <2>2, <3>1, <3>3, <4>1, Bounds DEF RequestTypes
      <4>4. QED
        BY <4>1, <4>2, <4>3 DEF RequestOwns
    <3>4. QED
      BY <3>1, <3>2, <3>3 DEF Forward, Disrupt, Move
  <2>6. CASE ~(k < FinalStage[r])
    <3>1. /\ phase' = [phase EXCEPT ![r] = "done"]
          /\ request_states' = request_states \ {r}
          /\ UNCHANGED <<in_q, disruptions>>
      BY <1>4, <2>6 DEF AfterResult, Complete, Move
    <3>2. /\ phase' \in [Requests -> Phases]
          /\ \A q \in Requests \ {r} : phase'[q] = phase[q]
          /\ phase'[r] = "done"
          /\ WaitsOnlyInPause' /\ TaskInv'
      BY <1>1, <3>1, MoveKeeps
    <3>3. StagesInOrder'
      BY <2>4, <3>2 DEF Unfinished, Unadmitted
    <3>4. RequestTypes'
      BY <1>2, <2>2, <3>1, <3>2 DEF RequestTypes
    <3>5. QED
      BY <3>2, <3>3, <3>4 DEF RequestOwns
  <2>7. QED
    BY <2>5, <2>6
<1>5. QED
  BY <1>3, <1>4

(* The invariant, by who may change its parts.                             *)
LEMMA Split ==
  PipelineInv <=>
    /\ RequestOwns
    /\ async_chunk \in BOOLEAN /\ paused \in BOOLEAN
    /\ queue \in [Requests -> [Stages -> Seq(Results)]]
    /\ stage_id \in [Requests -> Stages \cup {-1}]
    /\ out_q \in [Stages -> Seq(Results)]
    /\ tasks \in [Stages -> SUBSET Requests]
    /\ aborting \in [Stages -> SUBSET Requests]
    /\ generation_out_q \in [Stages -> Seq(Results)]
    /\ batch \in [Stages -> Seq(Results)]
    /\ produced \in [Stages -> [Requests -> Nat]]
    /\ ended \in [Stages -> SUBSET Requests]
    /\ received \in [Requests -> [Stages -> Seq(Stages \X (Nat \ {0}))]]
    /\ pauses \in 0..MaxPauses
BY DEF PipelineInv, TypeOK, RequestOwns, RequestTypes

(* What a coroutine leaves alone keeps its type.                           *)
LEMMA Join ==
  ASSUME PipelineInv, RequestOwns',
         queue' \in [Requests -> [Stages -> Seq(Results)]],
         received' \in [Requests -> [Stages -> Seq(Stages \X (Nat \ {0}))]],
         UNCHANGED <<async_chunk, pauseVars, stage_id, out_q, workerVars>>
  PROVE  PipelineInv'
<1>1. TypeOK'
  BY DEF PipelineInv, TypeOK, RequestOwns, RequestTypes, pauseVars, workerVars
<1>2. QED
  BY <1>1 DEF PipelineInv, RequestOwns

(* Taking the first result of a queue, and recording it.                   *)
LEMMA DequeueTypes ==
  ASSUME NEW r \in Requests, NEW k \in Stages, Dequeue(r, k), queue[r][k] # <<>>,
         queue \in [Requests -> [Stages -> Seq(Results)]]
  PROVE  /\ queue' \in [Requests -> [Stages -> Seq(Results)]]
         /\ Head(queue[r][k]) \in Results
<1>1. queue[r][k] \in Seq(Results)
  OBVIOUS
<1>2. Tail(queue[r][k]) \in Seq(Results) /\ Head(queue[r][k]) \in Results
  BY <1>1
<1>3. queue' = [queue EXCEPT ![r][k] = Tail(@)]
  BY DEF Dequeue
<1>4. QED
  BY <1>2, <1>3

(* Only outputs are recorded: their number is positive.                    *)
LEMMA RecordTypes ==
  ASSUME NEW r \in Requests, NEW s \in Stages, NEW result \in Results, ~IsError(result),
         Record(r, s, result),
         received \in [Requests -> [Stages -> Seq(Stages \X (Nat \ {0}))]]
  PROVE  received' \in [Requests -> [Stages -> Seq(Stages \X (Nat \ {0}))]]
<1>1. <<result.stage, result.n>> \in Stages \X (Nat \ {0})
  BY DEF IsError, Results
<1>2. received[r][s] \in Seq(Stages \X (Nat \ {0}))
  OBVIOUS
<1> DEFINE more == Append(received[r][s], <<result.stage, result.n>>)
<1>3. more \in Seq(Stages \X (Nat \ {0}))
  BY <1>1, <1>2
<1>4. received' = [received EXCEPT ![r][s] = more]
  BY DEF Record
<1> HIDE DEF more
<1>5. QED
  BY <1>3, <1>4

(* An error, or a result of another stage than the request is at.          *)
LEMMA RaiseKeeps ==
  ASSUME RequestOwns, NEW r \in Requests, phase[r] \in Unfinished, Raise(r),
         UNCHANGED <<async_chunk, paused, tasks, aborting>>
  PROVE  RequestOwns'
<1>1. /\ phase' = [phase EXCEPT ![r] = "failed"]
      /\ UNCHANGED <<all_stages_finished, request_states, held, engine_outputs, received, in_q,
                    disruptions>>
  BY DEF Raise, Move
<1>2. /\ phase' \in [Requests -> Phases]
      /\ \A q \in Requests \ {r} : phase'[q] = phase[q]
      /\ phase'[r] = "failed"
      /\ WaitsOnlyInPause' /\ TaskInv'
  BY <1>1, MoveKeeps
<1>3. StagesInOrder'
  BY <1>1, <1>2, OrderKeeps DEF RequestOwns, Unfinished, Unadmitted
<1>4. RequestTypes'
  BY <1>1, <1>2 DEF RequestOwns, RequestTypes
<1>5. QED
  BY <1>2, <1>3, <1>4 DEF RequestOwns

(* The result is of the stage the request is at, or the request fails.     *)
LEMMA TakeSequentialKeeps ==
  ASSUME PipelineInv, NEW r \in Requests, TakeSequential(r)
  PROVE  PipelineInv'
<1> DEFINE result == Head(queue[r][0])
           s == Current(r)
<1>1. /\ ~async_chunk /\ phase[r] = "running" /\ queue[r][0] # <<>>
      /\ Dequeue(r, 0)
      /\ UNCHANGED <<async_chunk, pauseVars, stage_id, out_q, workerVars>>
  BY DEF TakeSequential
<1>2. IF stage_id[r] # s \/ IsError(result)
      THEN Raise(r)
      ELSE /\ Record(r, s, result)
           /\ IF s \in FinalOutput
              THEN /\ Yield(r, s, result)
                   /\ UNCHANGED <<all_stages_finished, engine_outputs, request_states, in_q, disruptions>>
              ELSE /\ AfterResult(r, s, result.last)
                   /\ UNCHANGED held
  BY DEF TakeSequential
<1>3. /\ RequestOwns /\ phase[r] \in Unfinished /\ phase[r] \in Serving
      /\ UNCHANGED <<async_chunk, paused, tasks, aborting>>
  BY <1>1, Split DEF Unfinished, Serving, pauseVars, workerVars
<1>4. PICK k \in 0..FinalStage[r] : At(r, k)
  BY <1>1, <1>3 DEF RequestOwns, StagesInOrder
<1>5. k \in Stages /\ 0 \in Stages /\ s = k
  BY <1>4, StageConstants, CurrentIs DEF At
<1>6. queue' \in [Requests -> [Stages -> Seq(Results)]] /\ result \in Results
  BY <1>1, <1>5, Split, DequeueTypes
<1>7. result.last \in BOOLEAN
  BY <1>6 DEF Results
<1>8. received \in [Requests -> [Stages -> Seq(Stages \X (Nat \ {0}))]]
  BY Split
<1> HIDE DEF result, s
<1>9. CASE stage_id[r] # s \/ IsError(result)
  <2>1. Raise(r)
    BY <1>2, <1>9
  <2>2. RequestOwns' /\ received' = received
    BY <2>1, <1>3, RaiseKeeps DEF Raise
  <2>3. QED
    BY <2>2, <1>1, <1>6, <1>8, Join
<1>10. CASE ~(stage_id[r] # s \/ IsError(result))
  <2>1. received' \in [Requests -> [Stages -> Seq(Stages \X (Nat \ {0}))]]
    BY <1>2, <1>5, <1>6, <1>8, <1>10, RecordTypes
  <2>2. CASE s \in FinalOutput
    <3>1. /\ held' = [held EXCEPT ![r] = [stage |-> s, last |-> result.last]]
          /\ phase' = [phase EXCEPT ![r] = "yielding"]
          /\ UNCHANGED <<all_stages_finished, engine_outputs, request_states, in_q, disruptions>>
      BY <1>2, <1>10, <2>2 DEF Yield, Move
    <3>2. /\ phase' \in [Requests -> Phases]
          /\ \A q \in Requests \ {r} : phase'[q] = phase[q]
          /\ phase'[r] = "yielding"
          /\ WaitsOnlyInPause' /\ TaskInv'
      BY <1>3, <3>1, MoveKeeps
    <3>3. /\ held' \in [Requests -> [stage : Stages, last : BOOLEAN]]
          /\ \A q \in Requests \ {r} : held'[q] = held[q]
          /\ held'[r].stage = k
      BY <1>3, <1>5, <1>7, <3>1 DEF RequestOwns, RequestTypes
    <3>4. StagesInOrder'
      <4>1. ASSUME NEW q \in Requests, phase'[q] \in Unfinished
            PROVE  \E j \in 0..FinalStage[q] : At(q, j)'
        <5>1. CASE q = r
          BY <1>4, <3>1, <3>3, <5>1 DEF At
        <5>2. CASE q # r
          <6>1. PICK j \in 0..FinalStage[q] : At(q, j)
            BY <1>1, <1>3, <3>2, <4>1, <5>2 DEF RequestOwns, StagesInOrder
          <6>2. QED
            BY <3>1, <3>2, <3>3, <5>2, <6>1 DEF At
        <5>3. QED
          BY <5>1, <5>2
      <4>2. QED
        BY <4>1 DEF StagesInOrder
    <3>5. RequestTypes'
      BY <1>3, <3>1, <3>2, <3>3 DEF RequestOwns, RequestTypes
    <3>6. RequestOwns'
      BY <3>2, <3>4, <3>5 DEF RequestOwns
    <3>7. QED
      BY <3>6, <2>1, <1>1, <1>6, Join
  <2>3. CASE s \notin FinalOutput
    <3>1. AfterResult(r, k, result.last) /\ UNCHANGED held
      BY <1>2, <1>5, <1>10, <2>3
    <3>2. RequestOwns'
      BY <3>1, <1>1, <1>3, <1>4, <1>7, AfterResultKeeps
    <3>3. QED
      BY <3>2, <2>1, <1>1, <1>6, Join
  <2>4. QED
    BY <2>2, <2>3
<1>11. QED
  BY <1>9, <1>10

(* In async-chunk mode the order of the stages is left to the connector.   *)
LEMMA TakeChunkKeeps ==
  ASSUME PipelineInv, NEW r \in Requests, NEW s \in Stages, TakeChunk(r, s)
  PROVE  PipelineInv'
<1> DEFINE result == Head(queue[r][s])
<1>1. /\ async_chunk /\ phase[r] = "running" /\ queue[r][s] # <<>>
      /\ Dequeue(r, s)
      /\ UNCHANGED <<async_chunk, pauseVars, stage_id, out_q, workerVars>>
  BY DEF TakeChunk
<1>2. IF IsError(result)
      THEN Raise(r)
      ELSE /\ Record(r, s, result)
           /\ SubmitOthers(r, s)
           /\ all_stages_finished' = [all_stages_finished EXCEPT
                                        ![r] = IF result.last THEN @ \cup {s} ELSE @]
           /\ IF s \in FinalOutput
              THEN Yield(r, s, result) /\ UNCHANGED request_states
              ELSE /\ IF Served(r) THEN Complete(r)
                                   ELSE Move(r, "running") /\ UNCHANGED request_states
                   /\ UNCHANGED held
           /\ UNCHANGED <<engine_outputs, disruptions>>
  BY DEF TakeChunk
<1>3. /\ RequestOwns /\ RequestTypes /\ phase[r] \in Unfinished
      /\ UNCHANGED <<async_chunk, paused, tasks, aborting>>
  BY <1>1, Split DEF RequestOwns, Unfinished, pauseVars, workerVars
<1>4. queue' \in [Requests -> [Stages -> Seq(Results)]] /\ result \in Results
  BY <1>1, Split, DequeueTypes
<1>5. result.last \in BOOLEAN
  BY <1>4 DEF Results
<1>6. received \in [Requests -> [Stages -> Seq(Stages \X (Nat \ {0}))]]
  BY Split
<1> HIDE DEF result
<1>7. CASE IsError(result)
  <2>1. Raise(r)
    BY <1>2, <1>7
  <2>2. RequestOwns' /\ received' = received
    BY <2>1, <1>3, RaiseKeeps DEF Raise
  <2>3. QED
    BY <2>2, <1>1, <1>4, <1>6, Join
<1>8. CASE ~IsError(result)
  <2>1. received' \in [Requests -> [Stages -> Seq(Stages \X (Nat \ {0}))]]
    BY <1>2, <1>4, <1>6, <1>8, RecordTypes
  <2>2. /\ UNCHANGED <<engine_outputs, disruptions>>
        /\ all_stages_finished' \in [Requests -> SUBSET Stages]
    <3>1. /\ UNCHANGED <<engine_outputs, disruptions>>
          /\ \/ all_stages_finished' = [all_stages_finished EXCEPT ![r] = @ \cup {s}]
             \/ all_stages_finished' = [all_stages_finished EXCEPT ![r] = @]
      BY <1>2, <1>8
    <3>2. all_stages_finished \in [Requests -> SUBSET Stages]
      BY <1>3 DEF RequestTypes
    <3>3. QED
      BY <3>1, <3>2
  <2>3. held' \in [Requests -> [stage : Stages, last : BOOLEAN]]
    <3>1. held' = held \/ held' = [held EXCEPT ![r] = [stage |-> s, last |-> result.last]]
      BY <1>2, <1>8 DEF Yield
    <3>2. held \in [Requests -> [stage : Stages, last : BOOLEAN]]
      BY <1>3 DEF RequestTypes
    <3>3. QED
      BY <1>5, <3>1, <3>2
  <2>4. PICK to \in {"running", "yielding", "done"} : phase' = [phase EXCEPT ![r] = to]
    BY <1>2, <1>8 DEF Yield, Complete, Move
  <2>5. request_states' \subseteq Requests
    <3>1. request_states' \subseteq request_states
      BY <1>2, <1>8 DEF Complete
    <3>2. QED
      BY <1>3, <3>1 DEF RequestTypes
  <2>6. /\ phase' \in [Requests -> Phases] /\ in_q' \in [Stages -> Seq(Tasks)]
        /\ WaitsOnlyInPause' /\ TaskInv'
    <3>1. CASE Submit(Stages \ {0}, Generate(r, r))
      BY <1>3, <2>4, <3>1, MoveSubmitKeeps
    <3>2. CASE UNCHANGED in_q
      <4>1. in_q' \in [Stages -> Seq(Tasks)]
        BY <1>3, <3>2 DEF RequestTypes
      <4>2. QED
        BY <1>3, <2>4, <3>2, <4>1, MoveKeeps
    <3>3. QED
      BY <1>2, <1>8, <3>1, <3>2 DEF SubmitOthers
  <2>7. RequestTypes'
    BY <1>3, <2>2, <2>3, <2>5, <2>6 DEF RequestTypes
  <2>8. StagesInOrder'
    BY <1>1, <1>3 DEF StagesInOrder
  <2>9. RequestOwns'
    BY <2>6, <2>7, <2>8 DEF RequestOwns
  <2>10. QED
    BY <2>9, <2>1, <1>1, <1>4, Join
<1>9. QED
  BY <1>7, <1>8

(* What was yielded was of the stage the request is at.                    *)
LEMMA ContinueKeeps ==
  ASSUME PipelineInv, NEW r \in Requests, Continue(r)
  PROVE  PipelineInv'
<1>1. /\ phase[r] = "yielding"
      /\ UNCHANGED <<async_chunk, pauseVars, held, received, handlerVars, out_q, workerVars>>
  BY DEF Continue
<1>2. /\ RequestOwns /\ RequestTypes /\ phase[r] \in Unfinished /\ phase[r] \in Serving
      /\ UNCHANGED <<async_chunk, paused, tasks, aborting>>
  BY <1>1, Split DEF RequestOwns, Unfinished, Serving, pauseVars, workerVars
<1>3. /\ queue' \in [Requests -> [Stages -> Seq(Results)]]
      /\ received' \in [Requests -> [Stages -> Seq(Stages \X (Nat \ {0}))]]
      /\ UNCHANGED <<async_chunk, pauseVars, stage_id, out_q, workerVars>>
  BY <1>1, Split DEF handlerVars
<1>4. RequestOwns'
  <2>1. CASE async_chunk
    <3>1. /\ UNCHANGED <<all_stages_finished, engine_outputs, in_q, disruptions>>
          /\ request_states' \subseteq request_states
      BY <2>1 DEF Continue, Complete
    <3>2. PICK to \in {"running", "done"} : phase' = [phase EXCEPT ![r] = to]
      BY <2>1 DEF Continue, Complete, Move
    <3>3. phase' \in [Requests -> Phases] /\ WaitsOnlyInPause' /\ TaskInv'
      BY <1>2, <3>1, <3>2, MoveKeeps
    <3>4. RequestTypes'
      BY <1>1, <1>2, <3>1, <3>3 DEF RequestTypes
    <3>5. StagesInOrder'
      BY <1>1, <2>1 DEF StagesInOrder
    <3>6. QED
      BY <3>3, <3>4, <3>5 DEF RequestOwns
  <2>2. CASE ~async_chunk
    <3>1. AfterResult(r, held[r].stage, held[r].last)
      BY <2>2 DEF Continue
    <3>2. PICK k \in 0..FinalStage[r] : At(r, k)
      BY <1>2, <2>2 DEF RequestOwns, StagesInOrder
    <3>3. held[r].stage = k
      BY <1>1, <3>2 DEF At
    <3>4. held[r].last \in BOOLEAN
      BY <1>2 DEF RequestTypes
    <3>5. QED
      BY <1>1, <1>2, <2>2, <3>1, <3>2, <3>3, <3>4, AfterResultKeeps
  <2>3. QED
    BY <2>1, <2>2
<1>5. QED
  BY <1>3, <1>4, Join

-----------------------------------------------------------------------------
(* No step breaks the invariant.                                           *)
LEMMA NextInv == PipelineInv /\ [Next]_vars => PipelineInv'
<1> SUFFICES ASSUME PipelineInv, [Next]_vars PROVE PipelineInv'
  OBVIOUS
<1>1. CASE Pause
  BY <1>1, PauseKeeps
<1>2. CASE Resume
  BY <1>2, ResumeKeeps
<1>3. ASSUME NEW r \in Requests, Call(r) PROVE PipelineInv'
  BY <1>3, AdmitKeeps DEF Call, Unadmitted
<1>4. ASSUME NEW r \in Requests, Wake(r) PROVE PipelineInv'
  BY <1>4, AdmitKeeps DEF Wake, Unadmitted
<1>5. ASSUME NEW r \in Requests, Cancel(r) PROVE PipelineInv'
  BY <1>5, CancelStepKeeps
<1>6. ASSUME NEW r \in Requests, TakeSequential(r) PROVE PipelineInv'
  BY <1>6, TakeSequentialKeeps
<1>7. ASSUME NEW r \in Requests, NEW s \in Stages, TakeChunk(r, s) PROVE PipelineInv'
  BY <1>7, TakeChunkKeeps
<1>8. ASSUME NEW r \in Requests, Continue(r) PROVE PipelineInv'
  BY <1>8, ContinueKeeps
<1>9. ASSUME NEW s \in Stages, Collect(s) PROVE PipelineInv'
  BY <1>9, CollectKeeps
<1>10. ASSUME NEW s \in Stages, Round(s) PROVE PipelineInv'
  BY <1>10, RoundKeeps
<1>11. ASSUME NEW s \in Stages, Send(s) PROVE PipelineInv'
  BY <1>11, SendKeeps
<1>12. ASSUME NEW s \in Stages, NEW r \in Requests, Output(s, r) PROVE PipelineInv'
  BY <1>12, OutputKeeps
<1>13. ASSUME NEW s \in Stages, NEW r \in Requests, AbortTask(s, r) PROVE PipelineInv'
  BY <1>13, AbortTaskKeeps
<1>14. ASSUME NEW s \in Stages, NEW r \in Requests, Fail(s, r) PROVE PipelineInv'
  BY <1>14, FailKeeps
<1>15. CASE UNCHANGED vars
  <2>1. TypeOK'
    BY <1>15 DEF PipelineInv, TypeOK, vars, pauseVars, requestVars, handlerVars, workerVars
  <2>2. StagesInOrder' /\ WaitsOnlyInPause'
    BY <1>15, PhaseKeeps DEF PipelineInv, vars, pauseVars, requestVars
  <2>3. TaskInv'
    BY <1>15, QuietKeeps DEF PipelineInv, vars, requestVars, workerVars
  <2>4. QED
    BY <2>1, <2>2, <2>3 DEF PipelineInv
<1>16. CASE Progress
  BY <1>4, <1>6, <1>7, <1>8, <1>9, <1>10, <1>11, <1>12, <1>13, <1>16 DEF Progress, Advance, Serve
<1>17. QED
  BY <1>1, <1>2, <1>3, <1>5, <1>14, <1>15, <1>16 DEF Next

(* The orchestrator and its workers, in every reachable state: a request is *)
(* at one stage in sequential mode and waits only in a pause, its tasks are *)
(* its own, and once its client has gone away every stage is told of it.   *)
THEOREM PipelineInvariant == Safety => []PipelineInv
<1>1. QED
  BY InitInv, NextInv, PTL DEF Safety

(* Every variable keeps its type, whatever the modes, the number of        *)
(* requests and stages and the outputs a stage yields.                     *)
THEOREM TypeCorrect == Spec => []TypeOK
<1>1. PipelineInv => TypeOK
  BY DEF PipelineInv
<1>2. QED
  BY <1>1, PipelineInvariant, PTL DEF Spec

(* However many requests are under way, the inputs a stage is given were   *)
(* derived from the outputs of the same request, although the stage        *)
(* objects are shared.                                                     *)
THEOREM InputsAreOwn == Spec => []OwnInputs
<1>1. PipelineInv => OwnInputs
  BY DEF PipelineInv, TaskInv
<1>2. QED
  BY <1>1, PipelineInvariant, PTL DEF Spec

(* No request reaches a stage for the first time during a pause.           *)
THEOREM PauseHolds == Spec => PausedAdmitsNone
<1>1. ASSUME paused, [Next]_vars
      PROVE  request_states' \subseteq request_states
  <2>1. ASSUME NEW r \in Requests, Call(r) \/ Wake(r)
        PROVE  request_states' \subseteq request_states
    BY <1>1, <2>1 DEF Call, Wake, Admit
  <2>2. ASSUME NEW r \in Requests, NEW s, NEW last, AfterResult(r, s, last)
        PROVE  request_states' \subseteq request_states
    BY <2>2 DEF AfterResult, Complete
  <2>3. ASSUME NEW r \in Requests, TakeSequential(r)
        PROVE  request_states' \subseteq request_states
    BY <2>2, <2>3 DEF TakeSequential, Raise
  <2>4. ASSUME NEW r \in Requests, NEW s \in Stages, TakeChunk(r, s)
        PROVE  request_states' \subseteq request_states
    BY <2>4 DEF TakeChunk, Raise, Complete
  <2>5. ASSUME NEW r \in Requests, Continue(r)
        PROVE  request_states' \subseteq request_states
    BY <2>2, <2>5 DEF Continue, Complete
  <2>6. CASE \/ Pause \/ Resume \/ UNCHANGED vars
             \/ \E r \in Requests : Cancel(r)
             \/ \E s \in Stages : Collect(s) \/ Round(s) \/ Send(s)
             \/ \E s \in Stages, r \in Requests : Fail(s, r) \/ Output(s, r) \/ AbortTask(s, r)
    BY <2>6 DEF Pause, Resume, Cancel, Collect, Round, Send, Fail, Output, AbortTask, vars, requestVars
  <2>7. QED
    BY <1>1, <2>1, <2>3, <2>4, <2>5, <2>6 DEF Next, Progress, Advance, Serve
<1>2. [Next]_vars => [paused => request_states' \subseteq request_states]_vars
  BY <1>1
<1>3. QED
  BY <1>2, PTL DEF Spec, Safety, PausedAdmitsNone

(* A request waits only during a pause: a resume wakes all that wait and   *)
(* a woken request that meets a new pause waits again.                     *)
THEOREM WaitersArePaused == Spec => []WaitsOnlyInPause
<1>1. PipelineInv => WaitsOnlyInPause
  BY DEF PipelineInv
<1>2. QED
  BY <1>1, PipelineInvariant, PTL DEF Spec

(* When a client goes away every stage that works on its request, or will  *)
(* take it from its queue, is told and told after it.                      *)
THEOREM AbortsReach == Spec => []AbortReachesWork
<1>1. PipelineInv => AbortReachesWork
  BY DEF PipelineInv, TaskInv
<1>2. QED
  BY <1>1, PipelineInvariant, PTL DEF Spec


-----------------------------------------------------------------------------
(* The order of the outputs.                                               *)

(* What is on its way from the engine of stage s to the request r.         *)
Flow(r, s) == Queued(r, s) \o out_q[s] \o batch[s] \o generation_out_q[s]

(* Of that, the results of the stage for the request, errors included; and *)
(* of those the outputs.                                                   *)
Of(r, s) == [x \in Results |-> IF x.rid = r /\ x.stage = s THEN <<x>> ELSE <<>>]
NumbersOf(r, s) ==
  [x \in Results |-> IF x.rid = r /\ x.stage = s /\ x.n # 0 THEN << <<x.stage, x.n>> >> ELSE <<>>]
Mine(r, s) == Mapped(Of(r, s), Flow(r, s))
Numbers(r, s) == Mapped(NumbersOf(r, s), Flow(r, s))

(* The stage may still yield outputs for the request.                      *)
Pending(r, s) == r \in tasks[s] \/ MentionedIn(in_q[s], r)

(* The stage has nothing for the request and nothing to do for it.         *)
Idle(r, s) == ~Pending(r, s) /\ Mine(r, s) = <<>>

(* Results are in queues of their stage and request.                       *)
Tagged ==
  /\ \A s \in Stages :
       /\ \A x \in Elements(out_q[s]) : x.stage = s
       /\ \A x \in Elements(batch[s]) : x.stage = s
       /\ \A x \in Elements(generation_out_q[s]) : x.stage = s
  /\ \A r \in Requests, s \in Stages : \A x \in Elements(queue[r][s]) :
       x.rid = r /\ (async_chunk => x.stage = s)

(* A request that was not admitted has left no trace.                      *)
Fresh(r) ==
  /\ all_stages_finished[r] = {}
  /\ \A s \in Stages : /\ Mine(r, s) = <<>> /\ Numbers(r, s) = <<>> /\ produced[s][r] = 0
                       /\ received[r][s] = <<>> /\ queue[r][s] = <<>>

(* Which stages were given the request, and which are finished with it.    *)
Given(r, s) ==
  IF async_chunk THEN s = 0 \/ received[r][0] # <<>>
  ELSE 0..s - 1 \subseteq all_stages_finished[r]
Finished(r, s) ==
  \/ s \in all_stages_finished[r]
  \/ phase[r] = "yielding" /\ held[r].stage = s /\ held[r].last

(* A stage has the request once.                                           *)
OneTask(r, s) ==
  /\ \A i, j \in DOMAIN in_q[s] : in_q[s][i].rid = r /\ in_q[s][j].rid = r => i = j
  /\ r \in tasks[s] => ~MentionedIn(in_q[s], r)

(* After the last output nothing of the stage follows.                     *)
LastIsLast(r, s) ==
  \A i \in 1..Len(Mine(r, s)) : Mine(r, s)[i].last => i = Len(Mine(r, s)) /\ ~Pending(r, s)

(* What was processed and what is on its way is what the engine yielded.   *)
FirstOutputs(s, n) == [i \in 1..n |-> <<s, i>>]
InSequence(r, s) == received[r][s] \o Numbers(r, s) = FirstOutputs(s, produced[s][r])

(* A request and a stage, while the request is served.                     *)
ServedBy(r, s) ==
  /\ OneTask(r, s) /\ LastIsLast(r, s) /\ InSequence(r, s)
  /\ Finished(r, s) \/ ~Given(r, s) => Idle(r, s)
  /\ Finished(r, s) => Given(r, s)

(* The stage the handler noted is the one of all the results it has handed *)
(* over.                                                                   *)
Noted(r) == ~async_chunk => \A x \in Elements(queue[r][0]) : x.stage = stage_id[r]

(* Something of the request is in the processes of the stage.              *)
Trace(r, s) ==
  \/ r \in tasks[s] \/ MentionedIn(in_q[s], r)
  \/ MentionedIn(out_q[s], r) \/ MentionedIn(generation_out_q[s], r) \/ MentionedIn(batch[s], r)

(* A request, from before it is admitted until it is complete.             *)
InOrder(r) ==
  /\ phase[r] \in Unadmitted => Fresh(r)
  /\ phase[r] \in Serving => r \in request_states /\ Noted(r) /\ \A s \in Stages : ServedBy(r, s)
  /\ phase[r] = "done" => \A s \in 0..FinalStage[r] : ~Trace(r, s)

OrderInv == Tagged /\ \A r \in Requests : InOrder(r)

-----------------------------------------------------------------------------
(* Views of the results on their way.                                      *)

(* f looks at the results of stage s for request r only.                   *)
View(f, U, r, s) ==
  /\ Maps(f, Results, U)
  /\ \A x \in Results : x.rid # r \/ x.stage # s => f[x] = <<>>

(* The two views the properties speak of.                                  *)
LEMMA Views ==
  ASSUME NEW r, NEW s
  PROVE  /\ View(Of(r, s), Results, r, s)
         /\ View(NumbersOf(r, s), Stages \X Nat, r, s)
         /\ \A q \in Seq(Results) : Outputs(r, s, q) = Mapped(NumbersOf(r, s), q)
<1>1. View(Of(r, s), Results, r, s)
  BY DEF View, Maps, Of
<1>2. View(NumbersOf(r, s), Stages \X Nat, r, s)
  <2>1. \A x \in Results : x.stage \in Stages /\ x.n \in Nat
    BY DEF Results
  <2>2. \A x \in Results : << <<x.stage, x.n>> >> \in Seq(Stages \X Nat)
    BY <2>1
  <2>3. <<>> \in Seq(Stages \X Nat)
    OBVIOUS
  <2>4. NumbersOf(r, s) \in [Results -> Seq(Stages \X Nat)]
    BY <2>2, <2>3 DEF NumbersOf
  <2>. QED BY <2>4 DEF View, Maps, NumbersOf
<1>3. ASSUME NEW q \in Seq(Results)
      PROVE  Outputs(r, s, q) = Mapped(NumbersOf(r, s), q)
  <2>1. \A i \in DOMAIN q : q[i] \in Results
    BY LenProperties, ElementOfSeq
  <2>2. [i \in DOMAIN q |-> IF q[i].rid = r /\ q[i].stage = s /\ q[i].n # 0
                            THEN << <<q[i].stage, q[i].n>> >> ELSE <<>>]
        = [i \in DOMAIN q |-> NumbersOf(r, s)[q[i]]]
    BY <2>1 DEF NumbersOf
  <2>. QED BY <2>2 DEF Outputs, Mapped
<1>. QED BY <1>1, <1>2, <1>3

(* A concatenation of two.                                                 *)
LEMMA ViewOfTwo ==
  ASSUME NEW f, NEW U, Maps(f, Results, U), NEW a \in Seq(Results), NEW b \in Seq(Results)
  PROVE  a \o b \in Seq(Results) /\ Mapped(f, a \o b) = Mapped(f, a) \o Mapped(f, b)
<1>1. a \o b \in Seq(Results)
  BY ConcatProperties
<1>. QED BY <1>1, MappedConcat

(* The four queues a result goes through.                                  *)
Four(a, b, c, d) ==
  a \in Seq(Results) /\ b \in Seq(Results) /\ c \in Seq(Results) /\ d \in Seq(Results)

(* A view of a concatenation of four.                                      *)
LEMMA ViewConcat ==
  ASSUME NEW f, NEW U, NEW r, NEW s, View(f, U, r, s), NEW a, NEW b, NEW c, NEW d, Four(a, b, c, d)
  PROVE  /\ a \o b \o c \o d \in Seq(Results)
         /\ Mapped(f, a) \in Seq(U) /\ Mapped(f, b) \in Seq(U) /\ Mapped(f, c) \in Seq(U)
         /\ Mapped(f, d) \in Seq(U) /\ Mapped(f, a \o b \o c \o d) \in Seq(U)
         /\ Mapped(f, a \o b \o c \o d) = Mapped(f, a) \o Mapped(f, b) \o Mapped(f, c) \o Mapped(f, d)
<1>1. Maps(f, Results, U)
  BY DEF View
<1> USE DEF Four
<1> DEFINE ab == a \o b
           abc == ab \o c
<1>2. ab \in Seq(Results) /\ Mapped(f, ab) = Mapped(f, a) \o Mapped(f, b)
  BY <1>1, ViewOfTwo
<1>3. abc \in Seq(Results) /\ Mapped(f, abc) = Mapped(f, ab) \o Mapped(f, c)
  <2> HIDE DEF ab
  <2>. QED BY <1>1, <1>2, ViewOfTwo, ZenonT(40)
<1>4. abc \o d \in Seq(Results) /\ Mapped(f, abc \o d) = Mapped(f, abc) \o Mapped(f, d)
  <2> HIDE DEF abc
  <2>. QED BY <1>1, <1>3, ViewOfTwo, ZenonT(40)
<1>5. /\ Mapped(f, a) \in Seq(U) /\ Mapped(f, b) \in Seq(U) /\ Mapped(f, c) \in Seq(U)
      /\ Mapped(f, d) \in Seq(U)
  BY <1>1, MappedType
<1>6. Mapped(f, abc \o d) \in Seq(U)
  BY <1>1, <1>4, MappedType
<1>. QED BY <1>2, <1>3, <1>4, <1>5, <1>6

(* The queues between an engine and a request.                             *)
LEMMA FlowTypes ==
  ASSUME TypeOK, NEW r \in Requests, NEW s \in Stages
  PROVE  /\ Queued(r, s) \in Seq(Results) /\ out_q[s] \in Seq(Results)
         /\ batch[s] \in Seq(Results) /\ generation_out_q[s] \in Seq(Results)
         /\ Flow(r, s) \in Seq(Results)
<1>1. 0 \in Stages
  BY PipelineAssumption DEF Stages
<1>2. /\ Queued(r, s) \in Seq(Results) /\ out_q[s] \in Seq(Results)
      /\ batch[s] \in Seq(Results) /\ generation_out_q[s] \in Seq(Results)
  BY <1>1, ZenonT(40) DEF TypeOK, Queued
<1>. QED BY <1>2, ConcatProperties DEF Flow

(* And after a step.                                                       *)
LEMMA FlowTypesNext ==
  ASSUME TypeOK', NEW r \in Requests, NEW s \in Stages
  PROVE  /\ Queued(r, s)' \in Seq(Results) /\ out_q'[s] \in Seq(Results)
         /\ batch'[s] \in Seq(Results) /\ generation_out_q'[s] \in Seq(Results)
         /\ Flow(r, s)' \in Seq(Results)
<1>1. 0 \in Stages
  BY PipelineAssumption DEF Stages
<1>2. /\ Queued(r, s)' \in Seq(Results) /\ out_q'[s] \in Seq(Results)
      /\ batch'[s] \in Seq(Results) /\ generation_out_q'[s] \in Seq(Results)
  BY <1>1, ZenonT(40) DEF TypeOK, Queued
<1>. QED BY <1>2, ConcatProperties DEF Flow

(* A view of all that is on its way, queue by queue.                       *)
LEMMA FlowView ==
  ASSUME TypeOK, NEW r \in Requests, NEW s \in Stages, NEW f, NEW U, View(f, U, r, s)
  PROVE  /\ Mapped(f, Queued(r, s)) \in Seq(U) /\ Mapped(f, out_q[s]) \in Seq(U)
         /\ Mapped(f, batch[s]) \in Seq(U) /\ Mapped(f, generation_out_q[s]) \in Seq(U)
         /\ Mapped(f, Flow(r, s)) \in Seq(U)
         /\ Mapped(f, Flow(r, s)) = Mapped(f, Queued(r, s)) \o Mapped(f, out_q[s])
                                    \o Mapped(f, batch[s]) \o Mapped(f, generation_out_q[s])
<1> DEFINE a == Queued(r, s)
           b == out_q[s]
           c == batch[s]
           d == generation_out_q[s]
<1>1. Four(a, b, c, d)
  BY FlowTypes DEF Four
<1>2. Flow(r, s) = a \o b \o c \o d
  BY DEF Flow
<1> HIDE DEF a, b, c, d
<1>3. /\ Mapped(f, a) \in Seq(U) /\ Mapped(f, b) \in Seq(U) /\ Mapped(f, c) \in Seq(U)
      /\ Mapped(f, d) \in Seq(U) /\ Mapped(f, a \o b \o c \o d) \in Seq(U)
      /\ Mapped(f, a \o b \o c \o d) = Mapped(f, a) \o Mapped(f, b) \o Mapped(f, c) \o Mapped(f, d)
  BY <1>1, ViewConcat, SMTT(30)
<1>. QED BY <1>2, <1>3 DEF a, b, c, d

(* And after a step.                                                       *)
LEMMA FlowViewNext ==
  ASSUME TypeOK', NEW r \in Requests, NEW s \in Stages, NEW f, NEW U, View(f, U, r, s)
  PROVE  /\ Mapped(f, Queued(r, s)') \in Seq(U) /\ Mapped(f, out_q'[s]) \in Seq(U)
         /\ Mapped(f, batch'[s]) \in Seq(U) /\ Mapped(f, generation_out_q'[s]) \in Seq(U)
         /\ Mapped(f, Flow(r, s)') \in Seq(U)
         /\ Mapped(f, Flow(r, s)') = Mapped(f, Queued(r, s)') \o Mapped(f, out_q'[s])
                                     \o Mapped(f, batch'[s]) \o Mapped(f, generation_out_q'[s])
<1>1. Four(Queued(r, s)', out_q'[s], batch'[s], generation_out_q'[s])
  BY FlowTypesNext DEF Four
<1>2. Flow(r, s)' = Queued(r, s)' \o out_q'[s] \o batch'[s] \o generation_out_q'[s]
  BY DEF Flow
<1>3. \A a, b, c, d : Four(a, b, c, d) =>
        /\ Mapped(f, a) \in Seq(U) /\ Mapped(f, b) \in Seq(U) /\ Mapped(f, c) \in Seq(U)
        /\ Mapped(f, d) \in Seq(U) /\ Mapped(f, a \o b \o c \o d) \in Seq(U)
        /\ Mapped(f, a \o b \o c \o d) = Mapped(f, a) \o Mapped(f, b) \o Mapped(f, c) \o Mapped(f, d)
  BY ViewConcat, SMTT(30)
<1>. QED BY <1>1, <1>2, <1>3


(* The queues stay: so does every view.                                    *)
LEMMA FlowStays ==
  ASSUME UNCHANGED <<async_chunk, queue, out_q, batch, generation_out_q>>
  PROVE  \A r \in Requests, s \in Stages : Flow(r, s)' = Flow(r, s)
BY DEF Flow, Queued

(* What a stage sees of a flow, as a concatenation of four.                *)
Parts(f, U, r, s, q, p, b, g) ==
  /\ q \in Seq(U) /\ p \in Seq(U) /\ b \in Seq(U) /\ g \in Seq(U)
  /\ q = Mapped(f, Queued(r, s)) /\ p = Mapped(f, out_q[s])
  /\ b = Mapped(f, batch[s]) /\ g = Mapped(f, generation_out_q[s])
  /\ Mapped(f, Flow(r, s)) = q \o p \o b \o g

(* A round and the sending of its batch move results, and change no view.  *)
LEMMA MovedView ==
  ASSUME TypeOK, TypeOK', NEW t \in Stages, Round(t) \/ Send(t),
         NEW r \in Requests, NEW s \in Stages, NEW f, NEW U, View(f, U, r, s)
  PROVE  Mapped(f, Flow(r, s)') = Mapped(f, Flow(r, s))
<1>0. async_chunk' = async_chunk /\ queue' = queue
  BY DEF Round, Send, handlerVars
<1>1. Queued(r, s)' = Queued(r, s)
  BY <1>0 DEF Queued
<1>2. CASE s # t
  <2>1. out_q'[s] = out_q[s] /\ batch'[s] = batch[s] /\ generation_out_q'[s] = generation_out_q[s]
    BY <1>2, ZenonT(40) DEF Round, Send, TypeOK
  <2>. QED BY <1>1, <2>1 DEF Flow
<1>3. CASE s = t
  <2>1. PICK q \in Seq(U), p \in Seq(U), b \in Seq(U), g \in Seq(U) :
          Parts(f, U, r, s, q, p, b, g)
    BY FlowView DEF Parts
  <2>2. Mapped(f, Flow(r, s)') = q \o Mapped(f, out_q'[s]) \o Mapped(f, batch'[s])
                                  \o Mapped(f, generation_out_q'[s])
    BY <1>1, <2>1, FlowViewNext DEF Parts
  <2>3. Mapped(f, <<>>) = <<>> /\ Maps(f, Results, U)
    BY MappedEmpty DEF View
  <2>4. /\ q \o p \o <<>> \o g = q \o p \o g \o <<>>
        /\ q \o (p \o b) \o <<>> \o g = q \o p \o b \o g
    OBVIOUS
  <2>5. CASE Round(t)
    <3>1. /\ out_q'[s] = out_q[s] /\ batch[s] = <<>>
          /\ batch'[s] = generation_out_q[s] /\ generation_out_q'[s] = <<>>
      BY <1>3, <2>5 DEF Round, TypeOK
    <3>2. b = <<>> /\ Mapped(f, batch'[s]) = g /\ Mapped(f, generation_out_q'[s]) = <<>>
      BY <2>1, <2>3, <3>1 DEF Parts
    <3>3. Mapped(f, out_q'[s]) = p /\ Mapped(f, Flow(r, s)) = q \o p \o b \o g
      BY <2>1, <3>1 DEF Parts
    <3>. QED BY <2>2, <2>4, <3>2, <3>3
  <2>6. CASE Send(t)
    <3>1. /\ out_q'[s] = out_q[s] \o batch[s] /\ batch'[s] = <<>>
          /\ generation_out_q'[s] = generation_out_q[s]
      BY <1>3, <2>6, ZenonT(40) DEF Send, TypeOK
    <3>2. Mapped(f, out_q[s] \o batch[s]) = Mapped(f, out_q[s]) \o Mapped(f, batch[s])
      <4>1. \A x, y \in Seq(Results) : Mapped(f, x \o y) = Mapped(f, x) \o Mapped(f, y)
        BY <2>3, ViewOfTwo
      <4>. QED BY <4>1, FlowTypes
    <3>3. Mapped(f, out_q'[s]) = p \o b
      BY <2>1, <3>1, <3>2 DEF Parts
    <3>4. Mapped(f, batch'[s]) = <<>> /\ Mapped(f, generation_out_q'[s]) = g
          /\ Mapped(f, Flow(r, s)) = q \o p \o b \o g
      BY <2>1, <2>3, <3>1 DEF Parts
    <3>. QED BY <2>2, <2>4, <3>3, <3>4
  <2>. QED BY <2>5, <2>6
<1>. QED BY <1>2, <1>3

(* Only the queues of one stage differ, by what a view does not see.       *)
LEMMA ViewParts ==
  ASSUME TypeOK, NEW r \in Requests, NEW s \in Stages, NEW f, NEW U, View(f, U, r, s)
  PROVE  /\ Maps(f, Results, U) /\ f \in [Results -> Seq(U)]
         /\ \A x, y \in Seq(Results) : Mapped(f, x \o y) = Mapped(f, x) \o Mapped(f, y)
         /\ \A x \in Seq(Results), e \in Results :
              /\ Append(x, e) \in Seq(Results)
              /\ Mapped(f, Append(x, e)) = Mapped(f, x) \o f[e]
         /\ \A x \in Seq(Results) : x # <<>> =>
              /\ Head(x) \in Results /\ Tail(x) \in Seq(Results)
              /\ Mapped(f, x) = f[Head(x)] \o Mapped(f, Tail(x))
         /\ \A x \in Seq(Results) : Mapped(f, x) \in Seq(U)
         /\ \E q, p, b, g \in Seq(U) : Parts(f, U, r, s, q, p, b, g)
<1>1. Maps(f, Results, U) /\ f \in [Results -> Seq(U)]
  BY DEF View, Maps
<1>2. \A x, y \in Seq(Results) : Mapped(f, x \o y) = Mapped(f, x) \o Mapped(f, y)
  BY <1>1, ViewOfTwo
<1>3. \A x \in Seq(Results), e \in Results : Mapped(f, Append(x, e)) = Mapped(f, x) \o f[e]
  BY <1>1, MappedAppend
<1>4. \A x \in Seq(Results), e \in Results : Append(x, e) \in Seq(Results)
  BY AppendProperties
<1>5. \A x \in Seq(Results) : x # <<>> =>
         /\ Head(x) \in Results /\ Tail(x) \in Seq(Results)
         /\ Mapped(f, x) = f[Head(x)] \o Mapped(f, Tail(x))
  BY <1>1, MappedTail
<1>6. \A x \in Seq(Results) : Mapped(f, x) \in Seq(U)
  BY <1>1, MappedType
<1>7. \E q, p, b, g \in Seq(U) : Parts(f, U, r, s, q, p, b, g)
  BY FlowView DEF Parts
<1>. QED BY <1>1, <1>2, <1>3, <1>4, <1>5, <1>6, <1>7

(* An engine yields x; an error x goes to the results of its stage.        *)
Yields(t, x) ==
  /\ UNCHANGED <<async_chunk, queue, out_q, batch>>
  /\ generation_out_q' = [generation_out_q EXCEPT ![t] = Append(@, x)]
Errs(t, x) ==
  /\ UNCHANGED <<async_chunk, queue, batch, generation_out_q>>
  /\ out_q' = [out_q EXCEPT ![t] = Append(@, x)]

(* What an engine yields is the last on its way.                           *)
LEMMA YieldedView ==
  ASSUME TypeOK, TypeOK', NEW t \in Stages, NEW x \in Results,
         Yields(t, x),
         NEW r \in Requests, NEW s \in Stages, NEW f, NEW U, View(f, U, r, s)
  PROVE  /\ Mapped(f, Flow(r, s)) \in Seq(U) /\ f[x] \in Seq(U)
         /\ s = t => Mapped(f, Flow(r, s)') = Mapped(f, Flow(r, s)) \o f[x]
         /\ s # t => Mapped(f, Flow(r, s)') = Mapped(f, Flow(r, s))
<1>0. /\ UNCHANGED <<async_chunk, queue, out_q, batch>>
      /\ generation_out_q' = [generation_out_q EXCEPT ![t] = Append(@, x)]
  BY DEF Yields
<1> USE <1>0
<1>1. Queued(r, s)' = Queued(r, s)
  BY DEF Queued
<1>2. generation_out_q'[s] = IF s = t THEN Append(generation_out_q[s], x) ELSE generation_out_q[s]
  BY DEF TypeOK
<1>3. Mapped(f, Flow(r, s)) \in Seq(U)
  BY FlowView
<1>4. f[x] \in Seq(U)
  <2>1. f \in [Results -> Seq(U)]
    BY ViewParts
  <2>. QED BY <2>1
<1>5. CASE s # t
  BY <1>1, <1>2, <1>3, <1>4, <1>5 DEF Flow
<1>6. CASE s = t
  <2>1. PICK q \in Seq(U), p \in Seq(U), b \in Seq(U), g \in Seq(U) :
          Parts(f, U, r, s, q, p, b, g)
    BY ViewParts
  <2>2. Mapped(f, Flow(r, s)') = q \o p \o b \o Mapped(f, generation_out_q'[s])
    <3>1. Mapped(f, Queued(r, s)') = q /\ Mapped(f, out_q'[s]) = p /\ Mapped(f, batch'[s]) = b
      BY <1>1, <2>1 DEF Parts
    <3>2. Mapped(f, Flow(r, s)') = Mapped(f, Queued(r, s)') \o Mapped(f, out_q'[s])
                                    \o Mapped(f, batch'[s]) \o Mapped(f, generation_out_q'[s])
      BY FlowViewNext
    <3>. QED BY <3>1, <3>2
  <2>3. Mapped(f, generation_out_q'[s]) = g \o f[x]
    <3>1. Mapped(f, Append(generation_out_q[s], x)) = Mapped(f, generation_out_q[s]) \o f[x]
      <4>1. generation_out_q[s] \in Seq(Results)
        BY FlowTypes
      <4>2. \A y \in Seq(Results), e \in Results :
              /\ Append(y, e) \in Seq(Results)
              /\ Mapped(f, Append(y, e)) = Mapped(f, y) \o f[e]
        BY ViewParts, SMTT(30)
      <4>. QED BY <4>1, <4>2
    <3>. QED BY <1>2, <1>6, <2>1, <3>1 DEF Parts
  <2>4. Mapped(f, Flow(r, s)) = q \o p \o b \o g
    BY <2>1 DEF Parts
  <2>5. q \o p \o b \o (g \o f[x]) = (q \o p \o b \o g) \o f[x]
    <3> DEFINE e == f[x]
    <3>1. e \in Seq(U)
      BY <1>4
    <3> HIDE DEF e
    <3>2. q \o p \o b \o (g \o e) = (q \o p \o b \o g) \o e
      BY <3>1, SMTT(30)
    <3>. QED BY <3>2 DEF e
  <2>. QED BY <1>3, <1>4, <1>6, <2>2, <2>3, <2>4, <2>5
<1>. QED BY <1>5, <1>6

(* Something is put into a sequence.                                       *)
Inserted(U, old, new, e) ==
  \E before, after \in Seq(U) : old = before \o after /\ new = before \o e \o after

(* An error overtakes what the worker has not sent yet.                    *)
LEMMA ErrorView ==
  ASSUME TypeOK, TypeOK', NEW t \in Stages, NEW x \in Results,
         Errs(t, x),
         NEW r \in Requests, NEW s \in Stages, NEW f, NEW U, View(f, U, r, s)
  PROVE  /\ f[x] \in Seq(U)
         /\ s = t => Inserted(U, Mapped(f, Flow(r, s)), Mapped(f, Flow(r, s)'), f[x])
         /\ s # t => Mapped(f, Flow(r, s)') = Mapped(f, Flow(r, s))
<1>0. /\ UNCHANGED <<async_chunk, queue, batch, generation_out_q>>
      /\ out_q' = [out_q EXCEPT ![t] = Append(@, x)]
  BY DEF Errs
<1> USE <1>0
<1>1. Queued(r, s)' = Queued(r, s)
  BY DEF Queued
<1>2. out_q'[s] = IF s = t THEN Append(out_q[s], x) ELSE out_q[s]
  BY DEF TypeOK
<1>4. f[x] \in Seq(U)
  <2>1. f \in [Results -> Seq(U)]
    BY ViewParts
  <2>. QED BY <2>1
<1>5. CASE s # t
  BY <1>1, <1>2, <1>4, <1>5 DEF Flow
<1>6. CASE s = t
  <2>1. PICK q \in Seq(U), p \in Seq(U), b \in Seq(U), g \in Seq(U) :
          Parts(f, U, r, s, q, p, b, g)
    BY ViewParts
  <2>2. Mapped(f, Flow(r, s)') = q \o Mapped(f, out_q'[s]) \o b \o g
    <3>1. Mapped(f, Queued(r, s)') = q /\ Mapped(f, batch'[s]) = b /\ Mapped(f, generation_out_q'[s]) = g
      BY <1>1, <2>1 DEF Parts
    <3>2. Mapped(f, Flow(r, s)') = Mapped(f, Queued(r, s)') \o Mapped(f, out_q'[s])
                                    \o Mapped(f, batch'[s]) \o Mapped(f, generation_out_q'[s])
      BY FlowViewNext
    <3>. QED BY <3>1, <3>2
  <2>3. Mapped(f, out_q'[s]) = p \o f[x]
    <3>1. Mapped(f, Append(out_q[s], x)) = Mapped(f, out_q[s]) \o f[x]
      <4>1. out_q[s] \in Seq(Results)
        BY FlowTypes
      <4>2. \A y \in Seq(Results), e \in Results :
              /\ Append(y, e) \in Seq(Results)
              /\ Mapped(f, Append(y, e)) = Mapped(f, y) \o f[e]
        BY ViewParts
      <4>. QED BY <4>1, <4>2
    <3>. QED BY <1>2, <1>6, <2>1, <3>1 DEF Parts
  <2>4. Mapped(f, Flow(r, s)) = q \o p \o b \o g
    BY <2>1 DEF Parts
  <2>5. /\ q \o (p \o f[x]) \o b \o g = (q \o p) \o f[x] \o (b \o g)
        /\ q \o p \o b \o g = (q \o p) \o (b \o g)
        /\ q \o p \in Seq(U) /\ b \o g \in Seq(U)
    <3> DEFINE e == f[x]
    <3>1. e \in Seq(U)
      BY <1>4
    <3> HIDE DEF e
    <3>2. q \o (p \o e) \o b \o g = (q \o p) \o e \o (b \o g)
      BY <3>1, SMTT(30)
    <3>3. q \o p \o b \o g = (q \o p) \o (b \o g) /\ q \o p \in Seq(U) /\ b \o g \in Seq(U)
      BY SMTT(30)
    <3>. QED BY <3>2, <3>3 DEF e
  <2>. QED BY <1>4, <1>6, <2>2, <2>3, <2>4, <2>5 DEF Inserted
<1>. QED BY <1>5, <1>6

(* What the handler does with the first result of a stage.                 *)
LEMMA CollectFacts ==
  ASSUME TypeOK, Tagged, NEW t \in Stages, Collect(t)
  PROVE  /\ Head(out_q[t]) \in Results /\ Head(out_q[t]).stage = t /\ out_q[t] # <<>>
         /\ Head(out_q[t]) \in Elements(out_q[t])
         /\ out_q' = [out_q EXCEPT ![t] = Tail(@)]
         /\ UNCHANGED <<async_chunk, requestVars, in_q, workerVars>>
         /\ \A r \in Requests, s \in Stages :
              queue'[r][s] =
                IF r = Head(out_q[t]).rid /\ r \in request_states /\ s = (IF async_chunk THEN t ELSE 0)
                THEN Append(queue[r][s], Head(out_q[t])) ELSE queue[r][s]
         /\ \A r \in Requests :
              stage_id'[r] = IF r = Head(out_q[t]).rid /\ r \in request_states /\ ~async_chunk
                             THEN t ELSE stage_id[r]
<1> DEFINE x == Head(out_q[t])
<1>1. /\ out_q[t] # <<>> /\ out_q' = [out_q EXCEPT ![t] = Tail(@)]
      /\ UNCHANGED <<async_chunk, requestVars, in_q, workerVars>>
      /\ IF x.rid \in request_states THEN Hand(x.rid, t, x) ELSE UNCHANGED handlerVars
  BY DEF Collect
<1>2. out_q[t] \in Seq(Results)
  BY DEF TypeOK
<1>3. x \in Results /\ x \in Elements(out_q[t])
  <2>1. x = out_q[t][1] /\ 1 \in 1..Len(out_q[t]) /\ x \in Results
    BY <1>1, <1>2
  <2>. QED BY <2>1 DEF Elements
<1>4. x.stage = t /\ x.rid \in Requests
  BY <1>3 DEF Tagged, Results
<1>5. queue \in [Requests -> [Stages -> Seq(Results)]] /\ stage_id \in [Requests -> Stages \cup {-1}]
  BY DEF TypeOK
<1> HIDE DEF x
<1>6. ASSUME NEW r \in Requests, NEW s \in Stages
      PROVE  queue'[r][s] = IF r = x.rid /\ r \in request_states /\ s = (IF async_chunk THEN t ELSE 0)
                            THEN Append(queue[r][s], x) ELSE queue[r][s]
  <2>1. CASE x.rid \notin request_states
    BY <1>1, <2>1 DEF handlerVars
  <2>2. CASE x.rid \in request_states /\ async_chunk
    <3>1. queue' = [queue EXCEPT ![x.rid][t] = Append(@, x)]
      BY <1>1, <2>2 DEF Hand
    <3>. QED BY <1>4, <1>5, <2>2, <3>1
  <2>3. CASE x.rid \in request_states /\ ~async_chunk
    <3>1. queue' = [queue EXCEPT ![x.rid][0] = Append(@, x)]
      BY <1>1, <2>3 DEF Hand
    <3>. QED BY <1>4, <1>5, <2>3, <3>1
  <2>. QED BY <2>1, <2>2, <2>3
<1>7. ASSUME NEW r \in Requests
      PROVE  stage_id'[r] = IF r = x.rid /\ r \in request_states /\ ~async_chunk THEN t ELSE stage_id[r]
  BY <1>1, <1>4, <1>5 DEF Hand, NoteStage, handlerVars
<1>. QED BY <1>1, <1>3, <1>4, <1>6, <1>7 DEF x

(* The handler hands over what a request still wants, and no view changes. *)
LEMMA CollectView ==
  ASSUME TypeOK, TypeOK', Tagged, NEW t \in Stages, Collect(t),
         NEW r \in Requests, Head(out_q[t]).rid = r => r \in request_states,
         NEW s \in Stages, NEW f, NEW U, View(f, U, r, s)
  PROVE  Mapped(f, Flow(r, s)') = Mapped(f, Flow(r, s))
<1> DEFINE x == Head(out_q[t])
<1>1. /\ x \in Results /\ x.stage = t /\ out_q[t] # <<>>
      /\ out_q' = [out_q EXCEPT ![t] = Tail(@)]
      /\ UNCHANGED <<async_chunk, requestVars, in_q, workerVars>>
      /\ \A q \in Requests, k \in Stages :
           queue'[q][k] = IF q = x.rid /\ q \in request_states /\ k = (IF async_chunk THEN t ELSE 0)
                          THEN Append(queue[q][k], x) ELSE queue[q][k]
  BY CollectFacts
<1>2. x.rid = r => r \in request_states
  OBVIOUS
<1>3. /\ out_q[s] \in Seq(Results) /\ Queued(r, s) \in Seq(Results)
      /\ 0 \in Stages
  BY FlowTypes, StageConstants
<1>4. f \in [Results -> Seq(U)] /\ (x.rid # r \/ x.stage # s => f[x] = <<>>)
  BY <1>1 DEF View, Maps
<1>5. f[x] \in Seq(U)
  BY <1>1, <1>4
<1>6. /\ Mapped(f, Append(Queued(r, s), x)) = Mapped(f, Queued(r, s)) \o f[x]
      /\ out_q[s] # <<>> => Mapped(f, out_q[s]) = f[Head(out_q[s])] \o Mapped(f, Tail(out_q[s]))
      /\ out_q[s] # <<>> => Mapped(f, Tail(out_q[s])) \in Seq(U)
  <2>1. /\ \A y \in Seq(Results), e \in Results :
             /\ Append(y, e) \in Seq(Results)
             /\ Mapped(f, Append(y, e)) = Mapped(f, y) \o f[e]
        /\ \A y \in Seq(Results) : y # <<>> =>
              /\ Head(y) \in Results /\ Tail(y) \in Seq(Results)
              /\ Mapped(f, y) = f[Head(y)] \o Mapped(f, Tail(y))
        /\ \A y \in Seq(Results) : Mapped(f, y) \in Seq(U)
    BY ViewParts, SMTT(30)
  <2> HIDE DEF x
  <2>. QED BY <1>1, <1>3, <2>1
<1>7. PICK q \in Seq(U), p \in Seq(U), b \in Seq(U), g \in Seq(U) : Parts(f, U, r, s, q, p, b, g)
  BY ViewParts
<1>8. /\ Mapped(f, batch'[s]) = b /\ Mapped(f, generation_out_q'[s]) = g
      /\ Mapped(f, Queued(r, s)) = q /\ Mapped(f, out_q[s]) = p
      /\ Mapped(f, Flow(r, s)) = q \o p \o b \o g
  BY <1>1, <1>7 DEF Parts, workerVars
<1>9. Mapped(f, Flow(r, s)') = Mapped(f, Queued(r, s)') \o Mapped(f, out_q'[s]) \o b \o g
  <2>1. Mapped(f, Flow(r, s)') = Mapped(f, Queued(r, s)') \o Mapped(f, out_q'[s])
                                  \o Mapped(f, batch'[s]) \o Mapped(f, generation_out_q'[s])
    BY FlowViewNext
  <2>. QED BY <1>8, <2>1
<1>10. Queued(r, s)' = IF x.rid = r /\ (async_chunk => s = t) THEN Append(Queued(r, s), x)
                       ELSE Queued(r, s)
  <2> HIDE DEF x
  <2>. QED BY <1>1, <1>2, <1>3 DEF Queued
<1>11. out_q'[s] = IF s = t THEN Tail(out_q[s]) ELSE out_q[s]
  BY <1>1 DEF TypeOK
<1> HIDE DEF x
<1>12. CASE s = t
  <2>1. Mapped(f, out_q'[s]) \in Seq(U) /\ p = f[x] \o Mapped(f, out_q'[s])
    BY <1>1, <1>6, <1>8, <1>11, <1>12 DEF x
  <2> DEFINE e == f[x]
             m == Mapped(f, out_q'[s])
  <2>2. e \in Seq(U) /\ m \in Seq(U) /\ p = e \o m
    BY <1>5, <2>1
  <2>3. Mapped(f, Queued(r, s)') = q \o e
    <3>1. CASE x.rid = r
      BY <1>6, <1>8, <1>10, <1>12, <3>1
    <3>2. CASE x.rid # r
      <4>1. Mapped(f, Queued(r, s)') = q /\ e = <<>>
        BY <1>4, <1>8, <1>10, <3>2
      <4>. QED BY <4>1
    <3>. QED BY <3>1, <3>2
  <2>4. Mapped(f, Flow(r, s)') = (q \o e) \o m \o b \o g
    BY <1>9, <2>3
  <2> HIDE DEF e, m
  <2>5. (q \o e) \o m \o b \o g = q \o (e \o m) \o b \o g
    BY <2>2, SMTT(30)
  <2>. QED BY <1>8, <2>2, <2>4, <2>5
<1>13. CASE s # t
  <2>1. f[x] = <<>> /\ Mapped(f, out_q'[s]) = p
    BY <1>1, <1>4, <1>8, <1>11, <1>13
  <2>2. Mapped(f, Queued(r, s)') = q
    <3>1. Mapped(f, Queued(r, s)') = q \o f[x] \/ Mapped(f, Queued(r, s)') = q
      BY <1>6, <1>8, <1>10
    <3>2. q \o <<>> = q
      OBVIOUS
    <3>. QED BY <2>1, <3>1, <3>2
  <2>. QED BY <1>8, <1>9, <2>1, <2>2
<1>. QED BY <1>12, <1>13

(* A request takes its first result: the first of what is on its way.      *)
Removes(r, s, k) ==
  /\ k = (IF async_chunk THEN s ELSE 0)
  /\ queue[r][k] # <<>> /\ Dequeue(r, k)
  /\ UNCHANGED <<async_chunk, out_q, batch, generation_out_q>>
LosesFirst(f, U, r, s, k) ==
  /\ Mapped(f, Flow(r, s)') \in Seq(U) /\ f[Head(queue[r][k])] \in Seq(U)
  /\ Mapped(f, Flow(r, s)) = f[Head(queue[r][k])] \o Mapped(f, Flow(r, s)')

(* Without its first output, a queue loses the start of what it carries.   *)
LEMMA TakenView ==
  ASSUME TypeOK, TypeOK', NEW r \in Requests, NEW s \in Stages, NEW k \in Stages, Removes(r, s, k),
         NEW f, NEW U, View(f, U, r, s)
  PROVE  LosesFirst(f, U, r, s, k)
<1>0. /\ k = (IF async_chunk THEN s ELSE 0)
      /\ queue[r][k] # <<>> /\ Dequeue(r, k)
      /\ UNCHANGED <<async_chunk, out_q, batch, generation_out_q>>
  BY DEF Removes
<1>1. Queued(r, s) = queue[r][k] /\ queue[r][k] \in Seq(Results)
  BY <1>0, ZenonT(40) DEF Queued, TypeOK
<1>2. Queued(r, s)' = Tail(queue[r][k])
  BY <1>0 DEF Queued, TypeOK, Dequeue
<1>3. PICK q \in Seq(U), p \in Seq(U), b \in Seq(U), g \in Seq(U) : Parts(f, U, r, s, q, p, b, g)
  BY ViewParts
<1>4. /\ Mapped(f, out_q'[s]) = p /\ Mapped(f, batch'[s]) = b /\ Mapped(f, generation_out_q'[s]) = g
      /\ Mapped(f, queue[r][k]) = q
      /\ Mapped(f, Flow(r, s)) = q \o p \o b \o g
  BY <1>0, <1>1, <1>3, SMTT(30) DEF Parts
<1> DEFINE e == f[Head(queue[r][k])]
           m == Mapped(f, Tail(queue[r][k]))
<1>5. e \in Seq(U) /\ m \in Seq(U) /\ q = e \o m
  <2>0. f \in [Results -> Seq(U)]
    BY ViewParts
  <2>1. \A y \in Seq(Results) : y # <<>> =>
          /\ Head(y) \in Results /\ Tail(y) \in Seq(Results)
          /\ Mapped(f, y) = f[Head(y)] \o Mapped(f, Tail(y))
    <3>1. Maps(f, Results, U)
      BY DEF View
    <3>. QED BY <3>1, MappedTail
  <2>3. \A y \in Seq(Results) : Mapped(f, y) \in Seq(U)
    BY ViewParts
  <2>2. Head(queue[r][k]) \in Results /\ Tail(queue[r][k]) \in Seq(Results)
        /\ Mapped(f, queue[r][k]) = e \o m
    BY <1>0, <1>1, <2>1
  <2>. QED BY <1>4, <2>0, <2>1, <2>2, <2>3, Zenon
<1>6. Mapped(f, Flow(r, s)') = m \o p \o b \o g /\ Mapped(f, Flow(r, s)') \in Seq(U)
  <2>1. /\ Mapped(f, Flow(r, s)') = Mapped(f, Queued(r, s)') \o Mapped(f, out_q'[s])
                                    \o Mapped(f, batch'[s]) \o Mapped(f, generation_out_q'[s])
        /\ Mapped(f, Flow(r, s)') \in Seq(U)
    BY FlowViewNext
  <2>. QED BY <1>2, <1>4, <2>1
<1>7. (e \o m) \o p \o b \o g = e \o (m \o p \o b \o g)
  <2> HIDE DEF e, m
  <2>1. (e \o m) \o p = e \o (m \o p) /\ m \o p \in Seq(U) /\ m \o p \o b \in Seq(U)
    BY <1>5
  <2>2. (e \o (m \o p)) \o b = e \o (m \o p \o b)
    <3> DEFINE y == m \o p
    <3>1. y \in Seq(U)
      BY <2>1
    <3> HIDE DEF y
    <3>2. (e \o y) \o b = e \o (y \o b)
      BY <1>5, <3>1, SMTT(30)
    <3>. QED BY <3>2 DEF y
  <2>3. (e \o (m \o p \o b)) \o g = e \o (m \o p \o b \o g)
    <3> DEFINE y == m \o p \o b
    <3>1. y \in Seq(U)
      BY <2>1
    <3> HIDE DEF y
    <3>2. (e \o y) \o g = e \o (y \o g)
      BY <1>5, <3>1, SMTT(30)
    <3>. QED BY <3>2 DEF y
  <2>. QED BY <2>1, <2>2, <2>3
<1>. QED BY <1>4, <1>5, <1>6, <1>7, Zenon DEF LosesFirst

-----------------------------------------------------------------------------
(* What is in the queues.                                                  *)

(* The elements of a sequence that was changed.                            *)
LEMMA ElementFacts ==
  ASSUME NEW T, NEW q \in Seq(T)
  PROVE  /\ Elements(<<>>) = {} /\ Elements(q) \subseteq T
         /\ \A r : MentionedIn(q, r) <=> \E x \in Elements(q) : x.rid = r
         /\ q # <<>> => /\ Elements(Tail(q)) \subseteq Elements(q) /\ Head(q) \in Elements(q)
                        /\ Elements(q) \subseteq Elements(Tail(q)) \cup {Head(q)}
         /\ q = <<>> <=> Elements(q) = {}
         /\ \A e \in T : Elements(Append(q, e)) = Elements(q) \cup {e}
<1>1. Elements(<<>>) = {}
  BY DEF Elements
<1>2. Len(q) \in Nat /\ DOMAIN q = 1..Len(q) /\ \A i \in 1..Len(q) : q[i] \in T
  OBVIOUS
<1>3. Elements(q) \subseteq T /\ \A r : MentionedIn(q, r) <=> \E x \in Elements(q) : x.rid = r
  BY <1>2 DEF Elements, MentionedIn
<1>4. ASSUME q # <<>>
      PROVE  /\ Elements(Tail(q)) \subseteq Elements(q) /\ Head(q) \in Elements(q)
             /\ Elements(q) \subseteq Elements(Tail(q)) \cup {Head(q)}
  <2>1. /\ Len(Tail(q)) = Len(q) - 1 /\ Len(q) >= 1 /\ Head(q) = q[1]
        /\ \A i \in 1..Len(q) - 1 : Tail(q)[i] = q[i + 1]
    BY <1>4
  <2>2. ASSUME NEW x \in Elements(Tail(q)) PROVE x \in Elements(q)
    <3>1. PICK i \in 1..Len(q) - 1 : x = Tail(q)[i]
      BY <2>1 DEF Elements
    <3>2. i + 1 \in 1..Len(q) /\ x = q[i + 1]
      BY <1>2, <2>1, <3>1
    <3>. QED BY <3>2 DEF Elements
  <2>3. Head(q) \in Elements(q)
    BY <1>2, <2>1 DEF Elements
  <2>4. ASSUME NEW x \in Elements(q), x # Head(q) PROVE x \in Elements(Tail(q))
    <3>1. PICK i \in 1..Len(q) : x = q[i]
      BY DEF Elements
    <3>2. i - 1 \in 1..Len(q) - 1 /\ x = Tail(q)[i - 1]
      BY <1>2, <2>1, <2>4, <3>1
    <3>. QED BY <2>1, <3>2 DEF Elements
  <2>. QED BY <2>2, <2>3, <2>4
<1>5. q = <<>> <=> Elements(q) = {}
  BY <1>1, <1>4
<1>6. \A e \in T : Elements(Append(q, e)) = Elements(q) \cup {e}
  BY ElementsAppend
<1>. QED BY <1>1, <1>3, <1>4, <1>5, <1>6

(* And of two that were put together.                                      *)
LEMMA ElementsOfTwo ==
  ASSUME NEW T, NEW a \in Seq(T), NEW b \in Seq(T)
  PROVE  a \o b \in Seq(T) /\ Elements(a \o b) = Elements(a) \cup Elements(b)
<1> DEFINE c == a \o b
<1>1. /\ c \in Seq(T) /\ Len(c) = Len(a) + Len(b) /\ Len(a) \in Nat /\ Len(b) \in Nat
      /\ \A i \in 1..Len(a) + Len(b) : c[i] = IF i <= Len(a) THEN a[i] ELSE b[i - Len(a)]
  BY ConcatProperties, LenProperties
<1> HIDE DEF c
<1>2. ASSUME NEW x \in Elements(c) PROVE x \in Elements(a) \cup Elements(b)
  <2>1. PICK i \in 1..Len(a) + Len(b) : x = c[i]
    BY <1>1 DEF Elements
  <2>2. CASE i <= Len(a)
    <3>1. x = a[i] /\ i \in 1..Len(a)
      BY <1>1, <2>1, <2>2
    <3>. QED BY <3>1 DEF Elements
  <2>3. CASE ~(i <= Len(a))
    <3>1. x = b[i - Len(a)] /\ i - Len(a) \in 1..Len(b)
      BY <1>1, <2>1, <2>3
    <3>. QED BY <3>1 DEF Elements
  <2>. QED BY <2>2, <2>3
<1>3. ASSUME NEW x \in Elements(a) PROVE x \in Elements(c)
  <2>1. PICK i \in 1..Len(a) : x = a[i]
    BY DEF Elements
  <2>2. i \in 1..Len(c) /\ c[i] = x
    BY <1>1, <2>1
  <2>. QED BY <2>2 DEF Elements
<1>4. ASSUME NEW x \in Elements(b) PROVE x \in Elements(c)
  <2>1. PICK i \in 1..Len(b) : x = b[i]
    BY DEF Elements
  <2>2. i + Len(a) \in 1..Len(c) /\ c[i + Len(a)] = x
    <3>1. i + Len(a) \in 1..Len(a) + Len(b) /\ ~(i + Len(a) <= Len(a)) /\ (i + Len(a)) - Len(a) = i
      BY <1>1
    <3>2. c[i + Len(a)] = b[(i + Len(a)) - Len(a)]
      BY <1>1, <3>1
    <3>. QED BY <1>1, <2>1, <3>1, <3>2
  <2>. QED BY <2>2 DEF Elements
<1>. QED BY <1>1, <1>2, <1>3, <1>4 DEF c

(* A stage that has nothing for a request and nothing to do for it has no  *)
(* trace of it, and every result of a request is among its own.            *)
LEMMA IdleQuiet ==
  ASSUME TypeOK, Tagged, NEW r \in Requests, NEW s \in Stages
  PROVE  /\ Trace(r, s) => Pending(r, s) \/ Mine(r, s) # <<>>
         /\ \A x \in Elements(Queued(r, s)) : x \in Results /\ x.rid = r
         /\ \A x \in Elements(Queued(r, s)) \cup Elements(out_q[s]) :
              x.rid = r /\ x.stage = s => Mine(r, s) # <<>>
<1>1. /\ Queued(r, s) \in Seq(Results) /\ out_q[s] \in Seq(Results)
      /\ batch[s] \in Seq(Results) /\ generation_out_q[s] \in Seq(Results)
      /\ Flow(r, s) \in Seq(Results)
  BY FlowTypes
<1>2. Elements(Flow(r, s)) = Elements(Queued(r, s)) \cup Elements(out_q[s]) \cup Elements(batch[s])
                              \cup Elements(generation_out_q[s])
  <2> DEFINE q == Queued(r, s)
             p == out_q[s]
             b == batch[s]
             g == generation_out_q[s]
             qp == q \o p
             qpb == qp \o b
  <2>1. q \in Seq(Results) /\ p \in Seq(Results) /\ b \in Seq(Results) /\ g \in Seq(Results)
    BY <1>1
  <2>2. qp \in Seq(Results) /\ Elements(qp) = Elements(q) \cup Elements(p)
    <3> HIDE DEF q, p
    <3>. QED BY <2>1, ElementsOfTwo
  <2>3. qpb \in Seq(Results) /\ Elements(qpb) = Elements(qp) \cup Elements(b)
    <3> HIDE DEF qp, b
    <3>. QED BY <2>1, <2>2, ElementsOfTwo
  <2>4. Elements(qpb \o g) = Elements(qpb) \cup Elements(g)
    <3> HIDE DEF qpb, g
    <3>. QED BY <2>1, <2>3, ElementsOfTwo
  <2>5. Flow(r, s) = qpb \o g
    BY DEF Flow
  <2> HIDE DEF qpb
  <2>. QED BY <2>2, <2>3, <2>4, <2>5
<1>3. Mine(r, s) = <<>> <=> \A x \in Elements(Flow(r, s)) : Of(r, s)[x] = <<>>
  <2>1. Maps(Of(r, s), Results, Results)
    BY Views DEF View
  <2>2. \A f, q : Maps(f, Results, Results) /\ q \in Seq(Results) =>
          (Mapped(f, q) = <<>> <=> \A x \in Elements(q) : f[x] = <<>>)
    BY MappedNothing
  <2>. QED BY <1>1, <2>1, <2>2 DEF Mine
<1>4. \A q \in Seq(Results) : /\ Elements(q) \subseteq Results
                              /\ MentionedIn(q, r) <=> \E x \in Elements(q) : x.rid = r
  BY ElementFacts
<1>5. \A x \in Results : x.rid = r /\ x.stage = s => Of(r, s)[x] # <<>>
  BY DEF Of
<1>6. ASSUME NEW x \in Elements(Flow(r, s)), x.rid = r, x.stage = s PROVE Mine(r, s) # <<>>
  BY <1>1, <1>3, <1>4, <1>5, <1>6
<1>7. \A x \in Elements(Queued(r, s)) : x \in Results /\ x.rid = r
  <2>1. Queued(r, s) = queue[r][s] \/ Queued(r, s) = queue[r][0]
    BY DEF Queued
  <2>. QED BY <1>1, <1>4, <2>1, StageConstants DEF Tagged
<1>8. Trace(r, s) => Pending(r, s) \/ Mine(r, s) # <<>>
  BY <1>1, <1>2, <1>4, <1>6 DEF Trace, Pending, Tagged
<1>9. \A x \in Elements(Queued(r, s)) \cup Elements(out_q[s]) :
        x.rid = r /\ x.stage = s => Mine(r, s) # <<>>
  BY <1>2, <1>6
<1>. QED BY <1>7, <1>8, <1>9

-----------------------------------------------------------------------------
(* Steps that do not concern a request.                                    *)

(* What its coroutine remembers is the same.                               *)
SameRequest(r) ==
  /\ async_chunk' = async_chunk
  /\ all_stages_finished'[r] = all_stages_finished[r]
  /\ held'[r] = held[r] /\ received'[r] = received[r]
  /\ r \in request_states => r \in request_states'

(* The stage yields nothing for it and gets no task of it.                 *)
Calm(r, s) ==
  /\ produced'[s][r] = produced[s][r]
  /\ Mine(r, s)' = Mine(r, s) /\ Numbers(r, s)' = Numbers(r, s)
  /\ OneTask(r, s) => OneTask(r, s)'
  /\ Pending(r, s)' => Pending(r, s)

(* A stage where nothing happens serves the request as before.             *)
LEMMA CalmServed ==
  ASSUME NEW r \in Requests, NEW s \in Stages, ServedBy(r, s),
         SameRequest(r), phase'[r] = phase[r], Calm(r, s)
  PROVE  ServedBy(r, s)'
<1>1. Finished(r, s)' = Finished(r, s) /\ Given(r, s)' = Given(r, s)
  BY DEF Finished, Given, SameRequest
<1>2. Idle(r, s) => Idle(r, s)'
  BY DEF Idle, Calm
<1>3. OneTask(r, s)' /\ LastIsLast(r, s)' /\ InSequence(r, s)'
  BY DEF ServedBy, OneTask, LastIsLast, InSequence, SameRequest, Calm
<1>. QED BY <1>1, <1>2, <1>3 DEF ServedBy

(* A step that does not concern a request.                                 *)
LEMMA CalmKeeps ==
  ASSUME NEW r \in Requests, InOrder(r), SameRequest(r),
         phase'[r] = phase[r] \/ (phase[r] \in Unadmitted /\ phase'[r] \in Unadmitted),
         phase[r] \in Unadmitted \cup Serving => \A s \in Stages : Calm(r, s),
         phase[r] \in Unadmitted => queue'[r] = queue[r],
         phase[r] \in Serving => Noted(r)',
         \A s \in Stages : Trace(r, s)' => Trace(r, s)
  PROVE  InOrder(r)'
<1>1. phase'[r] \in Unadmitted => Fresh(r)'
  <2>. SUFFICES ASSUME phase'[r] \in Unadmitted PROVE Fresh(r)'
    OBVIOUS
  <2>1. phase[r] \in Unadmitted /\ Fresh(r)
    BY DEF InOrder
  <2>2. /\ queue'[r] = queue[r] /\ \A s \in Stages : Calm(r, s)
    BY <2>1
  <2>. QED BY <2>1, <2>2 DEF Fresh, SameRequest, Calm
<1>2. phase'[r] \in Serving =>
        r \in request_states' /\ Noted(r)' /\ \A s \in Stages : ServedBy(r, s)'
  <2>. SUFFICES ASSUME phase'[r] \in Serving
                PROVE  r \in request_states' /\ Noted(r)' /\ \A s \in Stages : ServedBy(r, s)'
    OBVIOUS
  <2>1. phase'[r] = phase[r] /\ phase[r] \in Serving
    BY DEF Serving, Unadmitted
  <2>2. r \in request_states /\ \A s \in Stages : ServedBy(r, s)
    BY <2>1 DEF InOrder
  <2>3. \A s \in Stages : ServedBy(r, s)'
    BY <2>1, <2>2, CalmServed
  <2>. QED BY <2>1, <2>2, <2>3 DEF SameRequest
<1>3. phase'[r] = "done" => \A s \in 0..FinalStage[r] : ~Trace(r, s)'
  <2>1. phase'[r] = "done" => phase[r] = "done"
    BY DEF Unadmitted
  <2>. QED BY <2>1, StageConstants DEF InOrder
<1>. QED BY <1>1, <1>2, <1>3 DEF InOrder

(* The two views of the stages before and after a step.                    *)
LEMMA SeenOf ==
  ASSUME NEW r \in Requests, NEW s \in Stages,
         \A f, U : View(f, U, r, s) => Mapped(f, Flow(r, s)') = Mapped(f, Flow(r, s))
  PROVE  Mine(r, s)' = Mine(r, s) /\ Numbers(r, s)' = Numbers(r, s)
<1>1. View(Of(r, s), Results, r, s) /\ View(NumbersOf(r, s), Stages \X Nat, r, s)
  BY Views
<1>2. /\ Mapped(Of(r, s), Flow(r, s)') = Mapped(Of(r, s), Flow(r, s))
      /\ Mapped(NumbersOf(r, s), Flow(r, s)') = Mapped(NumbersOf(r, s), Flow(r, s))
  BY <1>1
<1>3. Mine(r, s)' = Mapped(Of(r, s), Flow(r, s)') /\ Numbers(r, s)' = Mapped(NumbersOf(r, s), Flow(r, s)')
  BY DEF Mine, Numbers
<1>. QED BY <1>2, <1>3 DEF Mine, Numbers

-----------------------------------------------------------------------------
(* The handler and the workers.                                            *)

(* A worker takes a task: nothing was, and nothing is, there twice.        *)
LEMMA RoundTasks ==
  ASSUME TypeOK, NEW t \in Stages, Round(t), NEW r \in Requests, NEW s \in Stages
  PROVE  /\ OneTask(r, s) => OneTask(r, s)'
         /\ Pending(r, s)' => Pending(r, s)
<1>1. /\ in_q \in [Stages -> Seq(Tasks)] /\ tasks \in [Stages -> SUBSET Requests]
      /\ in_q[t] \in Seq(Tasks)
  BY DEF TypeOK
<1>2. CASE in_q'[s] = in_q[s] /\ tasks'[s] = tasks[s]
  BY <1>2 DEF OneTask, Pending
<1>3. CASE ~(in_q'[s] = in_q[s] /\ tasks'[s] = tasks[s])
  <2>1. in_q[t] # <<>>
    BY <1>3 DEF Round
  <2> DEFINE q == in_q[t]
             task == Head(q)
  <2>2. /\ in_q' = [in_q EXCEPT ![t] = Tail(@)]
        /\ \/ tasks' = [tasks EXCEPT ![t] = @ \cup {task.rid}]
           \/ tasks' = tasks
    BY <2>1 DEF Round
  <2>3. s = t /\ in_q'[s] = Tail(q) /\ tasks'[s] \subseteq tasks[s] \cup {task.rid} /\ in_q[s] = q
    BY <1>1, <1>3, <2>2
  <2>4. /\ Len(q) \in Nat /\ Len(q) >= 1 /\ task = q[1] /\ DOMAIN q = 1..Len(q)
        /\ Len(Tail(q)) = Len(q) - 1 /\ DOMAIN Tail(q) = 1..Len(q) - 1
        /\ \A i \in 1..Len(q) - 1 : Tail(q)[i] = q[i + 1]
    BY <1>1, <2>1
  <2> DEFINE rest == Tail(q)
  <2>5. in_q'[s] = rest /\ DOMAIN rest = 1..Len(q) - 1 /\ \A i \in 1..Len(q) - 1 : rest[i] = q[i + 1]
    BY <2>3, <2>4
  <2> HIDE DEF q, rest, task
  <2>6. \A i \in DOMAIN rest : i + 1 \in DOMAIN q /\ rest[i] = q[i + 1] /\ i + 1 # 1
    BY <2>4, <2>5
  <2>7. MentionedIn(rest, r) => MentionedIn(q, r)
    BY <2>6 DEF MentionedIn
  <2>8. task.rid = r => MentionedIn(q, r)
    BY <2>4 DEF MentionedIn
  <2>9. Pending(r, s)' => Pending(r, s)
    BY <2>3, <2>5, <2>7, <2>8 DEF Pending
  <2>10. ASSUME OneTask(r, s) PROVE OneTask(r, s)'
    <3>1. /\ \A i, j \in DOMAIN q : q[i].rid = r /\ q[j].rid = r => i = j
          /\ r \in tasks[s] => ~MentionedIn(q, r)
      BY <2>3, <2>10 DEF OneTask
    <3>2. \A i, j \in DOMAIN rest : rest[i].rid = r /\ rest[j].rid = r => i = j
      <4>1. ASSUME NEW i \in DOMAIN rest, NEW j \in DOMAIN rest, rest[i].rid = r, rest[j].rid = r
            PROVE  i = j
        <5>1. i + 1 = j + 1
          BY <2>6, <3>1, <4>1
        <5>2. i \in Nat /\ j \in Nat
          BY <2>5
        <5>. QED BY <5>1, <5>2
      <4>. QED BY <4>1
    <3>3. r \in tasks'[s] => ~MentionedIn(rest, r)
      <4>1. CASE r \in tasks[s]
        BY <2>7, <3>1, <4>1
      <4>2. CASE r = task.rid
        <5>1. 1 \in DOMAIN q /\ q[1].rid = r
          BY <2>4, <4>2
        <5>. QED BY <2>6, <3>1, <5>1 DEF MentionedIn
      <4>. QED BY <2>3, <4>1, <4>2
    <3>. QED BY <2>5, <3>2, <3>3 DEF OneTask
  <2>. QED BY <2>9, <2>10
<1>. QED BY <1>2, <1>3

(* A round and its second half leave a request what it had.                *)
LEMMA MovedInOrder ==
  ASSUME TypeOK, TypeOK', OrderInv, NEW t \in Stages, Round(t) \/ Send(t)
  PROVE  \A r \in Requests : InOrder(r)'
<1> SUFFICES ASSUME NEW r \in Requests PROVE InOrder(r)'
  OBVIOUS
<1>1. /\ UNCHANGED <<async_chunk, requestVars, handlerVars, produced>>
      /\ InOrder(r)
  BY DEF Round, Send, OrderInv
<1>2. SameRequest(r) /\ phase'[r] = phase[r]
  BY <1>1 DEF SameRequest, requestVars
<1>3. ASSUME NEW s \in Stages PROVE Calm(r, s)
  <2>1. \A f, U : View(f, U, r, s) => Mapped(f, Flow(r, s)') = Mapped(f, Flow(r, s))
    BY MovedView
  <2>2. Mine(r, s)' = Mine(r, s) /\ Numbers(r, s)' = Numbers(r, s)
    BY <2>1, SeenOf
  <2>3. (OneTask(r, s) => OneTask(r, s)') /\ (Pending(r, s)' => Pending(r, s))
    <3>1. CASE Round(t)
      BY <3>1, RoundTasks
    <3>2. CASE Send(t)
      BY <3>2 DEF Send, OneTask, Pending
    <3>. QED BY <3>1, <3>2
  <2>. QED BY <1>1, <2>2, <2>3 DEF Calm
<1>4. Noted(r) => Noted(r)'
  BY <1>1 DEF Noted, handlerVars
<1>5. ASSUME NEW s \in Stages, Trace(r, s)' PROVE Trace(r, s)
  <2>1. /\ out_q[s] \in Seq(Results) /\ batch[s] \in Seq(Results) /\ out_q'[s] \in Seq(Results)
        /\ Elements(<<>>) = {}
    BY FlowTypes, FlowTypesNext DEF Elements
  <2>2. \A q \in Seq(Results) : MentionedIn(q, r) <=> \E x \in Elements(q) : x.rid = r
    BY ElementFacts
  <2>3. Elements(out_q[s] \o batch[s]) = Elements(out_q[s]) \cup Elements(batch[s])
    BY <2>1, ElementsOfTwo
  <2>4. ~MentionedIn(<<>>, r)
    BY DEF MentionedIn
  <2>5. CASE Round(t)
    <3>1. r \in tasks'[s] \/ MentionedIn(in_q'[s], r) => r \in tasks[s] \/ MentionedIn(in_q[s], r)
      BY <2>5, RoundTasks DEF Pending
    <3>2. /\ out_q'[s] = out_q[s]
          /\ batch'[s] = batch[s] \/ batch'[s] = generation_out_q[s]
          /\ generation_out_q'[s] = generation_out_q[s] \/ generation_out_q'[s] = <<>>
      BY <2>5 DEF Round, TypeOK
    <3>. QED BY <1>5, <2>4, <3>1, <3>2 DEF Trace
  <2>6. CASE Send(t)
    <3>1. /\ out_q'[s] = out_q[s] \/ out_q'[s] = out_q[s] \o batch[s]
          /\ batch'[s] = batch[s] \/ batch'[s] = <<>>
          /\ UNCHANGED <<in_q, tasks, generation_out_q>>
      BY <2>6, ZenonT(40) DEF Send, TypeOK
    <3>2. MentionedIn(out_q'[s], r) => MentionedIn(out_q[s], r) \/ MentionedIn(batch[s], r)
      BY <2>1, <2>2, <2>3, <3>1
    <3>. QED BY <1>5, <2>4, <3>1, <3>2 DEF Trace
  <2>. QED BY <2>5, <2>6
<1>6. /\ phase[r] \in Unadmitted => queue'[r] = queue[r]
      /\ phase[r] \in Serving => Noted(r)'
  BY <1>1, <1>4 DEF handlerVars, InOrder
<1>. QED BY <1>1, <1>2, <1>3, <1>5, <1>6, CalmKeeps

(* An abort reaches the engine: it has less to do.                         *)
LEMMA AbortedInOrder ==
  ASSUME TypeOK, OrderInv, NEW t \in Stages, NEW a \in Requests, AbortTask(t, a)
  PROVE  \A r \in Requests : InOrder(r)'
<1> SUFFICES ASSUME NEW r \in Requests PROVE InOrder(r)'
  OBVIOUS
<1>1. /\ UNCHANGED <<async_chunk, requestVars, handlerVars, in_q, out_q, generation_out_q, batch, produced>>
      /\ InOrder(r)
  BY DEF AbortTask, OrderInv
<1>2. SameRequest(r) /\ phase'[r] = phase[r]
  BY <1>1 DEF SameRequest, requestVars
<1>3. \A s \in Stages : tasks'[s] \subseteq tasks[s]
  BY DEF AbortTask, TypeOK
<1>4. ASSUME NEW s \in Stages PROVE Calm(r, s)
  <2>1. Flow(r, s)' = Flow(r, s)
    BY <1>1, FlowStays DEF handlerVars
  <2>2. Mine(r, s)' = Mine(r, s) /\ Numbers(r, s)' = Numbers(r, s)
    BY <2>1, SeenOf
  <2>3. (OneTask(r, s) => OneTask(r, s)') /\ (Pending(r, s)' => Pending(r, s))
    BY <1>1, <1>3 DEF OneTask, Pending
  <2>. QED BY <1>1, <2>2, <2>3 DEF Calm
<1>5. \A s \in Stages : Trace(r, s)' => Trace(r, s)
  BY <1>1, <1>3 DEF Trace
<1>6. /\ phase[r] \in Unadmitted => queue'[r] = queue[r]
      /\ phase[r] \in Serving => Noted(r)'
  BY <1>1 DEF handlerVars, InOrder, Noted
<1>. QED BY <1>1, <1>2, <1>4, <1>5, <1>6, CalmKeeps

(* In sequential mode only the stage the request is at has something for   *)
(* it or to do for it.                                                     *)
LEMMA OnlyAt ==
  ASSUME TypeOK, NEW r \in Requests, InOrder(r), ~async_chunk, phase[r] \in Serving,
         NEW k \in Stages, At(r, k), NEW s \in Stages, ~Idle(r, s)
  PROVE  s = k
<1>1. ServedBy(r, s)
  BY DEF InOrder
<1>2. ~Finished(r, s) /\ Given(r, s)
  BY <1>1 DEF ServedBy
<1>3. s \notin 0..k - 1 /\ 0..s - 1 \subseteq 0..k - 1
  BY <1>2 DEF Finished, Given, At
<1>4. s \in Nat /\ k \in Nat
  BY StageConstants
<1>5. ~(s < k)
  BY <1>3, <1>4
<1>6. ~(k < s)
  <2>1. SUFFICES ASSUME k < s PROVE FALSE
    OBVIOUS
  <2>2. k \in 0..s - 1 /\ k \notin 0..k - 1
    BY <1>4, <2>1
  <2>. QED BY <1>3, <2>2
<1>. QED BY <1>4, <1>5, <1>6

(* The handler hands a result over, and notes its stage: the one the       *)
(* request is at.                                                          *)
LEMMA CollectedInOrder ==
  ASSUME PipelineInv, TypeOK', OrderInv, NEW t \in Stages, Collect(t)
  PROVE  \A r \in Requests : InOrder(r)'
<1> SUFFICES ASSUME NEW r \in Requests PROVE InOrder(r)'
  OBVIOUS
<1>0. TypeOK /\ Tagged /\ InOrder(r) /\ 0 \in Stages
  BY StageConstants DEF PipelineInv, OrderInv
<1> DEFINE x == Head(out_q[t])
<1>1. /\ x \in Results /\ x.stage = t /\ out_q[t] # <<>> /\ x \in Elements(out_q[t])
      /\ out_q' = [out_q EXCEPT ![t] = Tail(@)]
      /\ UNCHANGED <<async_chunk, requestVars, in_q, workerVars>>
  BY <1>0, CollectFacts
<1>2. /\ \A q \in Requests, k \in Stages :
           queue'[q][k] = IF q = x.rid /\ q \in request_states /\ k = (IF async_chunk THEN t ELSE 0)
                          THEN Append(queue[q][k], x) ELSE queue[q][k]
      /\ \A q \in Requests :
           stage_id'[q] = IF q = x.rid /\ q \in request_states /\ ~async_chunk THEN t ELSE stage_id[q]
  BY <1>0, CollectFacts
<1>3. SameRequest(r) /\ phase'[r] = phase[r]
  BY <1>1 DEF SameRequest, requestVars
<1>4. x.rid = r => ~Idle(r, t)
  BY <1>0, <1>1, IdleQuiet DEF Idle
<1> HIDE DEF x
<1>5. phase[r] \in Unadmitted => x.rid # r
  <2>1. phase[r] \in Unadmitted => Mine(r, t) = <<>> /\ ~Pending(r, t)
    BY <1>0 DEF InOrder, Fresh, PipelineInv, TaskInv, UnadmittedUnknown, Pending
  <2>. QED BY <1>4, <2>1 DEF Idle
<1>6. phase[r] \in Unadmitted \cup Serving => (x.rid = r => r \in request_states)
  BY <1>0, <1>5 DEF InOrder
<1>7. ASSUME phase[r] \in Unadmitted \cup Serving, NEW s \in Stages PROVE Calm(r, s)
  <2>1. \A f, U : View(f, U, r, s) => Mapped(f, Flow(r, s)') = Mapped(f, Flow(r, s))
    BY <1>0, <1>6, <1>7, CollectView DEF x
  <2>2. Mine(r, s)' = Mine(r, s) /\ Numbers(r, s)' = Numbers(r, s)
    BY <2>1, SeenOf
  <2>3. (OneTask(r, s) => OneTask(r, s)') /\ (Pending(r, s)' => Pending(r, s))
    BY <1>1 DEF OneTask, Pending, workerVars
  <2>. QED BY <1>1, <2>2, <2>3 DEF Calm, workerVars
<1>8. ASSUME NEW s \in Stages, Trace(r, s)' PROVE Trace(r, s)
  <2>1. out_q'[s] = IF s = t THEN Tail(out_q[s]) ELSE out_q[s]
    BY <1>0, <1>1 DEF TypeOK
  <2>2. out_q[s] \in Seq(Results) /\ out_q'[s] \in Seq(Results)
    BY <1>0, FlowTypes, FlowTypesNext
  <2>3. \A q \in Seq(Results) : MentionedIn(q, r) <=> \E y \in Elements(q) : y.rid = r
    BY ElementFacts
  <2>4. out_q[s] # <<>> => Elements(Tail(out_q[s])) \subseteq Elements(out_q[s])
    BY <2>2, ElementFacts
  <2>5. MentionedIn(out_q'[s], r) => MentionedIn(out_q[s], r)
    BY <1>1, <2>1, <2>2, <2>3, <2>4
  <2>. QED BY <1>1, <1>8, <2>5 DEF Trace, workerVars
<1>9. phase[r] \in Unadmitted => queue'[r] = queue[r]
  <2>1. queue[r] \in [Stages -> Seq(Results)] /\ queue'[r] \in [Stages -> Seq(Results)]
    BY <1>0 DEF TypeOK
  <2>. QED BY <1>2, <1>5, <2>1
<1>10. ASSUME phase[r] \in Serving PROVE Noted(r)'
  <2>1. SUFFICES ASSUME ~async_chunk, NEW y \in Elements(queue'[r][0]) PROVE y.stage = stage_id'[r]
    BY <1>1 DEF Noted
  <2>2. \A z \in Elements(queue[r][0]) : z.stage = stage_id[r]
    BY <1>0, <1>10, <2>1 DEF InOrder, Noted
  <2>3. CASE x.rid # r
    BY <1>0, <1>2, <2>1, <2>2, <2>3
  <2>4. CASE x.rid = r
    <3>1. r \in request_states
      BY <1>6, <1>10, <2>4
    <3>2. queue'[r][0] = Append(queue[r][0], x) /\ stage_id'[r] = t
      BY <1>0, <1>2, <2>1, <2>4, <3>1
    <3>3. y \in Elements(queue[r][0]) \/ y = x
      <4>1. queue[r][0] \in Seq(Results)
        BY <1>0 DEF TypeOK
      <4>2. Elements(Append(queue[r][0], x)) = Elements(queue[r][0]) \cup {x}
        BY <1>1, <4>1, ElementsAppend
      <4>. QED BY <2>1, <3>2, <4>2
    <3>4. CASE y \in Elements(queue[r][0])
      <4>1. Queued(r, y.stage) = queue[r][0]
        BY <2>1 DEF Queued
      <4>2. y.rid = r /\ y.stage \in Stages
        <5>1. Queued(r, t) = queue[r][0]
          BY <2>1 DEF Queued
        <5>2. y \in Results /\ y.rid = r
          BY <1>0, <3>4, <5>1, IdleQuiet
        <5>. QED BY <5>2 DEF Results
      <4>3. ~Idle(r, y.stage)
        BY <1>0, <3>4, <4>1, <4>2, IdleQuiet DEF Idle
      <4>4. phase[r] \in Unfinished
        BY <1>10 DEF Serving, Unfinished
      <4>5. PICK k \in 0..FinalStage[r] : At(r, k)
        BY <2>1, <4>4 DEF PipelineInv, StagesInOrder
      <4>6. k \in Stages
        BY <4>5, StageConstants
      <4>7. y.stage = k /\ t = k
        BY <1>0, <1>4, <1>10, <2>1, <2>4, <4>2, <4>3, <4>5, <4>6, OnlyAt
      <4>. QED BY <3>2, <4>7
    <3>5. CASE y = x
      BY <1>1, <3>2, <3>5
    <3>. QED BY <3>3, <3>4, <3>5
  <2>. QED BY <2>3, <2>4
<1>. QED BY <1>0, <1>3, <1>7, <1>8, <1>9, <1>10, CalmKeeps

(* What is appended to the right part is appended to the whole.            *)
LEMMA RightPart ==
  ASSUME NEW U, NEW a \in Seq(U), NEW b \in Seq(U), NEW e \in Seq(U)
  PROVE  a \o (b \o e) = (a \o b) \o e /\ a \o b \in Seq(U)
OBVIOUS

(* The outputs of a stage, numbered, in two parts; and one more.           *)
Counted(U, s, n, a, b) ==
  /\ n \in Nat /\ a \in Seq(U) /\ b \in Seq(U) /\ <<s, n + 1>> \in U
  /\ a \o b = FirstOutputs(s, n)
CountedWith(s, m, a, b) == a \o (b \o << <<s, m>> >>) = FirstOutputs(s, m)

(* An output more is the next one of its stage.                            *)
LEMMA OneMore ==
  ASSUME NEW U, NEW s, NEW n, NEW a, NEW b, Counted(U, s, n, a, b)
  PROVE  CountedWith(s, n + 1, a, b)
<1> DEFINE u == <<s, n + 1>>
           e == <<u>>
           c == a \o b
<1>0. n \in Nat /\ a \in Seq(U) /\ b \in Seq(U) /\ u \in U
  BY DEF Counted
<1>1. e \in Seq(U) /\ Len(e) = 1 /\ e[1] = u
  <2> HIDE DEF u
  <2>. QED BY <1>0
<1> HIDE DEF e
<1>2. a \o (b \o e) = c \o e /\ c \in Seq(U)
  BY <1>0, <1>1, RightPart
<1>3. Len(c) = n /\ \A i \in 1..n : c[i] = <<s, i>>
  <2>1. c = [i \in 1..n |-> <<s, i>>]
    BY DEF Counted, FirstOutputs
  <2> HIDE DEF c
  <2>2. DOMAIN c = 1..n /\ \A i \in 1..n : c[i] = <<s, i>>
    BY <2>1
  <2>3. Len(c) \in Nat /\ DOMAIN c = 1..Len(c)
    BY <1>2, LenProperties
  <2>4. Len(c) = n
    BY <1>0, <2>2, <2>3
  <2>. QED BY <2>2, <2>4
<1> HIDE DEF c
<1> DEFINE d == c \o e
<1>4. /\ d \in Seq(U) /\ Len(d) = Len(c) + Len(e)
      /\ \A i \in 1..Len(c) + Len(e) : d[i] = IF i <= Len(c) THEN c[i] ELSE e[i - Len(c)]
  BY <1>1, <1>2, ConcatProperties
<1>5. /\ d \in Seq(U) /\ Len(d) = n + 1
      /\ \A i \in 1..n + 1 : d[i] = IF i <= n THEN c[i] ELSE e[i - n]
  BY <1>1, <1>3, <1>4
<1> HIDE DEF d
<1>6. ASSUME NEW i \in 1..n + 1 PROVE d[i] = <<s, i>>
  <2>1. CASE i <= n
    BY <1>0, <1>3, <1>5, <2>1
  <2>2. CASE ~(i <= n)
    <3>1. i = n + 1 /\ i - n = 1
      BY <1>0, <2>2
    <3>. QED BY <1>1, <1>5, <2>2, <3>1
  <2>. QED BY <2>1, <2>2
<1>7. d = [i \in 1..n + 1 |-> <<s, i>>]
  <2>1. d = [i \in 1..n + 1 |-> d[i]]
    BY <1>5
  <2>. QED BY <1>6, <2>1
<1>. QED BY <1>2, <1>7 DEF d, e, FirstOutputs, CountedWith

(* The engine yields an output for a request it serves.                    *)
LEMMA YieldedServed ==
  ASSUME TypeOK, NEW t \in Stages, NEW a \in Requests, ServedBy(a, t), a \in tasks[t],
         NEW last \in BOOLEAN, NEW x \in Results, x = Result(a, t, produced[t][a] + 1, last),
         UNCHANGED <<async_chunk, requestVars, in_q>>,
         Mine(a, t) \in Seq(Results), Mine(a, t)' = Mine(a, t) \o <<x>>,
         Numbers(a, t) \in Seq(Stages \X Nat),
         Numbers(a, t)' = Numbers(a, t) \o << <<x.stage, x.n>> >>,
         produced'[t][a] = produced[t][a] + 1, a \in tasks'[t] <=> ~last
  PROVE  ServedBy(a, t)'
<1>1. /\ OneTask(a, t) /\ LastIsLast(a, t) /\ InSequence(a, t) /\ Pending(a, t)
      /\ ~MentionedIn(in_q[t], a)
  BY DEF ServedBy, OneTask, Pending
<1>2. ~Finished(a, t) /\ Given(a, t)
  BY <1>1 DEF ServedBy, Idle
<1>3. ~Finished(a, t)' /\ Given(a, t)'
  BY <1>2 DEF Finished, Given, requestVars
<1>4. OneTask(a, t)'
  BY <1>1 DEF OneTask
<1>5. LastIsLast(a, t)'
  <2> DEFINE m == Mine(a, t)
             more == m \o <<x>>
  <2>1. m \in Seq(Results) /\ Len(m) \in Nat /\ \A i \in 1..Len(m) : ~m[i].last
    BY <1>1 DEF LastIsLast
  <2>2. Mine(a, t)' = more
    OBVIOUS
  <2> HIDE DEF m
  <2>3. /\ Len(more) = Len(m) + 1
        /\ \A i \in 1..Len(m) : more[i] = m[i]
        /\ more[Len(m) + 1] = x
    BY <2>1
  <2>4. x.last = last /\ (last => ~Pending(a, t)')
    BY <1>1 DEF Result, Pending
  <2> HIDE DEF more
  <2>5. \A i \in 1..Len(more) : more[i].last => i = Len(more) /\ ~Pending(a, t)'
    <3>1. ASSUME NEW i \in 1..Len(more), more[i].last PROVE i = Len(more) /\ ~Pending(a, t)'
      <4>1. i \in 1..Len(m) \/ i = Len(m) + 1
        BY <2>1, <2>3
      <4>. QED BY <2>1, <2>3, <2>4, <3>1, <4>1
    <3>. QED BY <3>1
  <2>. QED BY <2>2, <2>5 DEF LastIsLast
<1>6. InSequence(a, t)'
  <2> DEFINE n == produced[t][a]
             d == received[a][t]
             b == Numbers(a, t)
  <2>1. n \in Nat
    BY DEF TypeOK
  <2>2. d \in Seq(Stages \X Nat) /\ <<t, n + 1>> \in Stages \X Nat /\ b \in Seq(Stages \X Nat)
    <3>1. received \in [Requests -> [Stages -> Seq(Stages \X (Nat \ {0}))]]
      BY DEF TypeOK
    <3>2. d \in Seq(Stages \X (Nat \ {0}))
      BY <3>1
    <3>. QED BY <2>1, <3>2
  <2>3. d \o b = FirstOutputs(t, n)
    BY <1>1 DEF InSequence
  <2>4. x.stage = t /\ x.n = n + 1
    BY DEF Result
  <2>5. received'[a][t] = d /\ Numbers(a, t)' = b \o << <<t, n + 1>> >> /\ produced'[t][a] = n + 1
    BY <2>4 DEF requestVars
  <2> HIDE DEF n, d, b
  <2>6. d \o (b \o << <<t, n + 1>> >>) = FirstOutputs(t, n + 1)
    <3>1. Counted(Stages \X Nat, t, n, d, b)
      BY <2>1, <2>2, <2>3 DEF Counted
    <3>2. CountedWith(t, n + 1, d, b)
      BY <3>1, OneMore
    <3>. QED BY <3>2 DEF CountedWith
  <2>. QED BY <2>5, <2>6 DEF InSequence
<1>. QED BY <1>3, <1>4, <1>5, <1>6 DEF ServedBy

(* Results of another request or stage are in no view.                     *)
LEMMA SeenResult ==
  ASSUME NEW r \in Requests, NEW s \in Stages, NEW x \in Results
  PROVE  /\ x.rid = r /\ x.stage = s =>
              /\ Of(r, s)[x] = <<x>>
              /\ NumbersOf(r, s)[x] = IF x.n # 0 THEN << <<x.stage, x.n>> >> ELSE <<>>
         /\ x.rid # r \/ x.stage # s => Of(r, s)[x] = <<>> /\ NumbersOf(r, s)[x] = <<>>
BY DEF Of, NumbersOf

(* Both views are sequences.                                               *)
LEMMA SeenTypes ==
  ASSUME TypeOK, NEW r \in Requests, NEW s \in Stages
  PROVE  Mine(r, s) \in Seq(Results) /\ Numbers(r, s) \in Seq(Stages \X Nat)
<1>1. View(Of(r, s), Results, r, s) /\ View(NumbersOf(r, s), Stages \X Nat, r, s)
  BY Views
<1>2. \A f, U : View(f, U, r, s) => Mapped(f, Flow(r, s)) \in Seq(U)
  BY FlowView
<1>. QED BY <1>1, <1>2 DEF Mine, Numbers

(* What a view gains when an engine yields x, or an error goes out.        *)
LEMMA YieldedSeen ==
  ASSUME TypeOK, TypeOK', NEW t \in Stages, NEW x \in Results, x.stage = t,
         Yields(t, x),
         NEW r \in Requests, NEW s \in Stages
  PROVE  /\ Mine(r, s) \in Seq(Results) /\ Numbers(r, s) \in Seq(Stages \X Nat)
         /\ r = x.rid /\ s = t =>
              /\ Mine(r, s)' = Mine(r, s) \o <<x>>
              /\ x.n # 0 => Numbers(r, s)' = Numbers(r, s) \o << <<x.stage, x.n>> >>
         /\ ~(r = x.rid /\ s = t) => Mine(r, s)' = Mine(r, s) /\ Numbers(r, s)' = Numbers(r, s)
<1>1. View(Of(r, s), Results, r, s) /\ View(NumbersOf(r, s), Stages \X Nat, r, s)
  BY Views
<1>2. ASSUME NEW f, NEW U, View(f, U, r, s)
      PROVE  /\ s = t => Mapped(f, Flow(r, s)') = Mapped(f, Flow(r, s)) \o f[x]
             /\ s # t => Mapped(f, Flow(r, s)') = Mapped(f, Flow(r, s))
  BY <1>2, YieldedView
<1>3. /\ s = t => Mine(r, s)' = Mine(r, s) \o Of(r, s)[x]
      /\ s = t => Numbers(r, s)' = Numbers(r, s) \o NumbersOf(r, s)[x]
      /\ s # t => Mine(r, s)' = Mine(r, s) /\ Numbers(r, s)' = Numbers(r, s)
  <2>1. Mine(r, s)' = Mapped(Of(r, s), Flow(r, s)') /\ Numbers(r, s)' = Mapped(NumbersOf(r, s), Flow(r, s)')
    BY DEF Mine, Numbers
  <2>. QED BY <1>1, <1>2, <2>1 DEF Mine, Numbers
<1>4. Mine(r, s) \in Seq(Results) /\ Numbers(r, s) \in Seq(Stages \X Nat)
  BY SeenTypes
<1>5. Mine(r, s) \o <<>> = Mine(r, s) /\ Numbers(r, s) \o <<>> = Numbers(r, s)
  BY <1>4, ConcatEmptySeq
<1>6. /\ x.rid = r /\ x.stage = s =>
           /\ Of(r, s)[x] = <<x>>
           /\ NumbersOf(r, s)[x] = IF x.n # 0 THEN << <<x.stage, x.n>> >> ELSE <<>>
      /\ x.rid # r \/ x.stage # s => Of(r, s)[x] = <<>> /\ NumbersOf(r, s)[x] = <<>>
  BY SeenResult
<1>. QED BY <1>3, <1>4, <1>5, <1>6

(* An engine yields an output.                                             *)
LEMMA OutputInOrder ==
  ASSUME PipelineInv, TypeOK', OrderInv, NEW t \in Stages, NEW a \in Requests, Output(t, a)
  PROVE  \A r \in Requests : InOrder(r)'
<1> SUFFICES ASSUME NEW r \in Requests PROVE InOrder(r)'
  OBVIOUS
<1>0. TypeOK /\ Tagged /\ InOrder(r)
  BY DEF PipelineInv, OrderInv
<1>1. /\ UNCHANGED <<async_chunk, requestVars, handlerVars, in_q, out_q, batch>>
      /\ a \in tasks[t]
      /\ produced' = [produced EXCEPT ![t][a] = @ + 1]
  BY DEF Output
<1>2. PICK last \in BOOLEAN :
        /\ generation_out_q' = [generation_out_q EXCEPT ![t] = Append(@, Result(a, t, produced[t][a] + 1, last))]
        /\ tasks' = IF last THEN [tasks EXCEPT ![t] = @ \ {a}] ELSE tasks
  BY DEF Output
<1> DEFINE x == Result(a, t, produced[t][a] + 1, last)
<1>3. x \in Results /\ x.rid = a /\ x.stage = t /\ x.n # 0
  <2>1. produced[t][a] \in Nat
    BY <1>0 DEF TypeOK
  <2> DEFINE n == produced[t][a] + 1
  <2>2. n \in Nat /\ n # 0
    BY <2>1
  <2> HIDE DEF n
  <2>3. Result(a, t, n, last) \in Results
    BY <2>2 DEF Result, Results
  <2>. QED BY <2>2, <2>3 DEF Result, n
<1>4. generation_out_q' = [generation_out_q EXCEPT ![t] = Append(@, x)]
  BY <1>2
<1>5. x = Result(a, t, produced[t][a] + 1, last)
  OBVIOUS
<1> HIDE DEF x
<1>6. /\ \A s \in Stages : tasks'[s] \subseteq tasks[s]
      /\ a \in tasks'[t] <=> ~last
  BY <1>0, <1>1, <1>2 DEF TypeOK
<1>7. SameRequest(r) /\ phase'[r] = phase[r]
  BY <1>1 DEF SameRequest, requestVars
<1>8. ASSUME NEW s \in Stages
      PROVE  /\ Mine(r, s) \in Seq(Results) /\ Numbers(r, s) \in Seq(Stages \X Nat)
             /\ r = a /\ s = t =>
                  /\ Mine(r, s)' = Mine(r, s) \o <<x>>
                  /\ Numbers(r, s)' = Numbers(r, s) \o << <<x.stage, x.n>> >>
             /\ ~(r = a /\ s = t) => Mine(r, s)' = Mine(r, s) /\ Numbers(r, s)' = Numbers(r, s)
  <2>1. Yields(t, x)
    BY <1>1, <1>4 DEF handlerVars, Yields
  <2>2. /\ r = x.rid /\ s = t =>
             /\ Mine(r, s)' = Mine(r, s) \o <<x>>
             /\ x.n # 0 => Numbers(r, s)' = Numbers(r, s) \o << <<x.stage, x.n>> >>
        /\ ~(r = x.rid /\ s = t) => Mine(r, s)' = Mine(r, s) /\ Numbers(r, s)' = Numbers(r, s)
    <3>1. TypeOK /\ x.stage = t /\ x \in Results
      BY <1>0, <1>3
    <3>. QED BY <2>1, <3>1, YieldedSeen, SMTT(30)
  <2>3. Mine(r, s) \in Seq(Results) /\ Numbers(r, s) \in Seq(Stages \X Nat)
    BY <1>0, SeenTypes
  <2>. QED BY <1>3, <2>2, <2>3
<1>9. ASSUME NEW s \in Stages, ~(r = a /\ s = t) PROVE Calm(r, s)
  <2>1. produced'[s][r] = produced[s][r]
    BY <1>0, <1>1, <1>9 DEF TypeOK
  <2>2. (OneTask(r, s) => OneTask(r, s)') /\ (Pending(r, s)' => Pending(r, s))
    BY <1>1, <1>6 DEF OneTask, Pending
  <2>. QED BY <1>8, <1>9, <2>1, <2>2 DEF Calm
<1>10. ASSUME NEW s \in Stages, Trace(r, s)' PROVE Trace(r, s)
  <2>1. MentionedIn(generation_out_q'[s], r) => MentionedIn(generation_out_q[s], r) \/ r \in tasks[s]
    <3>1. CASE s # t
      BY <1>0, <1>4, <3>1 DEF TypeOK
    <3>2. CASE s = t
      <4>1. generation_out_q'[s] = Append(generation_out_q[s], x) /\ generation_out_q[s] \in Seq(Results)
        BY <1>0, <1>4, <3>2 DEF TypeOK
      <4>2. \A q \in Seq(Results) : MentionedIn(q, r) <=> \E y \in Elements(q) : y.rid = r
        BY ElementFacts
      <4>3. /\ Append(generation_out_q[s], x) \in Seq(Results)
            /\ Elements(Append(generation_out_q[s], x)) = Elements(generation_out_q[s]) \cup {x}
        BY <1>3, <4>1, ElementsAppend, AppendProperties
      <4>. QED BY <1>1, <1>3, <3>2, <4>1, <4>2, <4>3
    <3>. QED BY <3>1, <3>2
  <2>. QED BY <1>1, <1>6, <1>10, <2>1 DEF Trace
<1>11. /\ phase[r] \in Unadmitted => queue'[r] = queue[r]
       /\ phase[r] \in Serving => Noted(r)'
  BY <1>0, <1>1 DEF handlerVars, InOrder, Noted
<1>12. CASE r # a
  BY <1>0, <1>7, <1>9, <1>10, <1>11, <1>12, CalmKeeps
<1>13. CASE r = a
  <2>1. phase[r] \notin Unadmitted
    BY <1>1, <1>13 DEF PipelineInv, TaskInv, UnadmittedUnknown
  <2>2. phase[r] = "done" => \A s \in 0..FinalStage[r] : ~Trace(r, s)'
    BY <1>0, <1>10, StageConstants DEF InOrder
  <2>3. ASSUME phase[r] \in Serving
        PROVE  r \in request_states' /\ Noted(r)' /\ \A s \in Stages : ServedBy(r, s)'
    <3>1. r \in request_states /\ \A s \in Stages : ServedBy(r, s)
      BY <1>0, <2>3 DEF InOrder
    <3>2. ASSUME NEW s \in Stages, s # t PROVE ServedBy(r, s)'
      BY <1>7, <1>9, <3>1, <3>2, CalmServed
    <3>3. ServedBy(a, t)'
      <4>1. produced'[t][a] = produced[t][a] + 1
        BY <1>0, <1>1 DEF TypeOK
      <4>2. /\ Mine(a, t) \in Seq(Results) /\ Mine(a, t)' = Mine(a, t) \o <<x>>
            /\ Numbers(a, t) \in Seq(Stages \X Nat)
            /\ Numbers(a, t)' = Numbers(a, t) \o << <<x.stage, x.n>> >>
        BY <1>8, <1>13
      <4>3. ServedBy(a, t)
        BY <1>13, <3>1
      <4>. QED BY <1>0, <1>1, <1>3, <1>5, <1>6, <4>1, <4>2, <4>3, YieldedServed
    <3>. QED BY <1>7, <1>11, <1>13, <2>3, <3>1, <3>2, <3>3 DEF SameRequest
  <2>. QED BY <1>7, <2>1, <2>2, <2>3 DEF InOrder
<1>. QED BY <1>12, <1>13

(* What an error changes: a view of results has it somewhere, no view of   *)
(* outputs.                                                                *)
LEMMA ErrorSeen ==
  ASSUME TypeOK, TypeOK', NEW t \in Stages, NEW x \in Results, x.stage = t, x.n = 0, Errs(t, x),
         NEW r \in Requests, NEW s \in Stages
  PROVE  /\ Numbers(r, s)' = Numbers(r, s)
         /\ r = x.rid /\ s = t =>
              \E before, after \in Seq(Results) :
                Mine(r, s) = before \o after /\ Mine(r, s)' = before \o <<x>> \o after
         /\ ~(r = x.rid /\ s = t) => Mine(r, s)' = Mine(r, s)
<1>1. View(Of(r, s), Results, r, s) /\ View(NumbersOf(r, s), Stages \X Nat, r, s)
  BY Views
<1>2. ASSUME NEW f, NEW U, View(f, U, r, s)
      PROVE  /\ s = t => Inserted(U, Mapped(f, Flow(r, s)), Mapped(f, Flow(r, s)'), f[x])
             /\ s # t => Mapped(f, Flow(r, s)') = Mapped(f, Flow(r, s))
  BY <1>2, ErrorView
<1>3. Mine(r, s)' = Mapped(Of(r, s), Flow(r, s)') /\ Numbers(r, s)' = Mapped(NumbersOf(r, s), Flow(r, s)')
  BY DEF Mine, Numbers
<1>4. /\ x.rid = r /\ x.stage = s =>
           /\ Of(r, s)[x] = <<x>>
           /\ NumbersOf(r, s)[x] = IF x.n # 0 THEN << <<x.stage, x.n>> >> ELSE <<>>
      /\ x.rid # r \/ x.stage # s => Of(r, s)[x] = <<>> /\ NumbersOf(r, s)[x] = <<>>
  BY SeenResult
<1>5. CASE s # t
  BY <1>1, <1>2, <1>3, <1>5 DEF Mine, Numbers
<1>6. CASE s = t
  <2>1. PICK before \in Seq(Results), after \in Seq(Results) :
          Mine(r, s) = before \o after /\ Mine(r, s)' = before \o Of(r, s)[x] \o after
    <3>1. Inserted(Results, Mine(r, s), Mine(r, s)', Of(r, s)[x])
      BY <1>1, <1>2, <1>3, <1>6 DEF Mine
    <3>. QED BY <3>1 DEF Inserted
  <2>2. PICK bn \in Seq(Stages \X Nat), an \in Seq(Stages \X Nat) :
          Numbers(r, s) = bn \o an /\ Numbers(r, s)' = bn \o NumbersOf(r, s)[x] \o an
    <3>1. Inserted(Stages \X Nat, Numbers(r, s), Numbers(r, s)', NumbersOf(r, s)[x])
      BY <1>1, <1>2, <1>3, <1>6 DEF Numbers
    <3>. QED BY <3>1 DEF Inserted
  <2>3. NumbersOf(r, s)[x] = <<>>
    BY <1>4
  <2>4. Numbers(r, s)' = Numbers(r, s)
    BY <2>2, <2>3, ConcatEmptySeq
  <2>5. CASE x.rid = r
    BY <1>4, <1>6, <2>1, <2>4, <2>5
  <2>6. CASE x.rid # r
    <3>1. Of(r, s)[x] = <<>>
      BY <1>4, <2>6
    <3>2. Mine(r, s)' = Mine(r, s)
      BY <2>1, <3>1, ConcatEmptySeq
    <3>. QED BY <1>6, <2>4, <2>6, <3>2
  <2>. QED BY <2>5, <2>6
<1>. QED BY <1>5, <1>6

(* A stage that fails a request has no last output of it on its way.       *)
LEMMA FailedServed ==
  ASSUME TypeOK, NEW t \in Stages, NEW a \in Requests, ServedBy(a, t), a \in tasks[t],
         NEW x \in Results, ~x.last, UNCHANGED <<async_chunk, requestVars, in_q, produced>>,
         NEW before \in Seq(Results), NEW after \in Seq(Results),
         Mine(a, t) = before \o after, Mine(a, t)' = before \o <<x>> \o after,
         Numbers(a, t)' = Numbers(a, t), a \notin tasks'[t]
  PROVE  ServedBy(a, t)'
<1>1. /\ OneTask(a, t) /\ LastIsLast(a, t) /\ InSequence(a, t) /\ Pending(a, t)
      /\ ~MentionedIn(in_q[t], a)
  BY DEF ServedBy, OneTask, Pending
<1>2. ~Finished(a, t) /\ Given(a, t)
  BY <1>1 DEF ServedBy, Idle
<1>3. ~Finished(a, t)' /\ Given(a, t)'
  BY <1>2 DEF Finished, Given, requestVars
<1>4. OneTask(a, t)' /\ InSequence(a, t)'
  BY <1>1 DEF OneTask, InSequence, requestVars
<1>5. LastIsLast(a, t)'
  <2>1. \A y \in Elements(before \o after) : ~y.last
    BY <1>1 DEF LastIsLast, Elements
  <2>2. \A y \in Elements(before) \cup Elements(after) : ~y.last
    <3>1. Elements(before \o after) = Elements(before) \cup Elements(after)
      BY ElementsOfTwo
    <3>. QED BY <2>1, <3>1
  <2> DEFINE one == <<x>>
             left == before \o one
  <2>3. one \in Seq(Results) /\ Elements(one) = {x}
    <3>1. one \in Seq(Results) /\ Len(one) = 1 /\ one[1] = x
      OBVIOUS
    <3>. QED BY <3>1 DEF Elements
  <2> HIDE DEF one
  <2>4. left \in Seq(Results) /\ Elements(left) = Elements(before) \cup {x}
    BY <2>3, ElementsOfTwo
  <2>5. Mine(a, t)' = left \o after
    BY DEF one
  <2> HIDE DEF left
  <2>6. Elements(left \o after) = Elements(left) \cup Elements(after)
    BY <2>4, ElementsOfTwo
  <2>7. \A y \in Elements(Mine(a, t)') : ~y.last
    BY <2>2, <2>4, <2>5, <2>6
  <2>. QED BY <2>7 DEF LastIsLast, Elements
<1>. QED BY <1>3, <1>4, <1>5 DEF ServedBy

(* An engine raises.                                                       *)
LEMMA FailInOrder ==
  ASSUME PipelineInv, TypeOK', OrderInv, NEW t \in Stages, NEW a \in Requests, Fail(t, a)
  PROVE  \A r \in Requests : InOrder(r)'
<1> SUFFICES ASSUME NEW r \in Requests PROVE InOrder(r)'
  OBVIOUS
<1>0. TypeOK /\ Tagged /\ InOrder(r)
  BY DEF PipelineInv, OrderInv
<1> DEFINE x == Error(a, t)
<1>1. /\ UNCHANGED <<async_chunk, requestVars, handlerVars, in_q, generation_out_q, batch, produced>>
      /\ a \in tasks[t]
      /\ tasks' = [tasks EXCEPT ![t] = @ \ {a}]
      /\ out_q' = [out_q EXCEPT ![t] = Append(@, x)]
  BY DEF Fail
<1>3. x \in Results /\ x.rid = a /\ x.stage = t /\ x.n = 0 /\ ~x.last
  BY DEF Error, Result, Results
<1>4. Errs(t, x)
  BY <1>1 DEF Errs, handlerVars
<1> HIDE DEF x
<1>6. /\ \A s \in Stages : tasks'[s] \subseteq tasks[s]
      /\ a \notin tasks'[t]
  BY <1>0, <1>1 DEF TypeOK
<1>7. SameRequest(r) /\ phase'[r] = phase[r]
  BY <1>1 DEF SameRequest, requestVars
<1>8. ASSUME NEW s \in Stages
      PROVE  /\ Numbers(r, s)' = Numbers(r, s)
             /\ r = a /\ s = t =>
                  \E before, after \in Seq(Results) :
                    Mine(r, s) = before \o after /\ Mine(r, s)' = before \o <<x>> \o after
             /\ ~(r = a /\ s = t) => Mine(r, s)' = Mine(r, s)
  <2>1. TypeOK /\ x.stage = t /\ x \in Results /\ x.n = 0
    BY <1>0, <1>3
  <2>2. /\ Numbers(r, s)' = Numbers(r, s)
        /\ r = x.rid /\ s = t =>
             \E before, after \in Seq(Results) :
               Mine(r, s) = before \o after /\ Mine(r, s)' = before \o <<x>> \o after
        /\ ~(r = x.rid /\ s = t) => Mine(r, s)' = Mine(r, s)
    BY <1>4, <2>1, ErrorSeen
  <2>. QED BY <1>3, <2>2
<1>9. ASSUME NEW s \in Stages, ~(r = a /\ s = t) PROVE Calm(r, s)
  <2>2. (OneTask(r, s) => OneTask(r, s)') /\ (Pending(r, s)' => Pending(r, s))
    BY <1>1, <1>6 DEF OneTask, Pending
  <2>. QED BY <1>1, <1>8, <1>9, <2>2 DEF Calm
<1>10. ASSUME NEW s \in Stages, Trace(r, s)' PROVE Trace(r, s)
  <2>1. MentionedIn(out_q'[s], r) => MentionedIn(out_q[s], r) \/ r \in tasks[s]
    <3>1. CASE s # t
      BY <1>0, <1>1, <3>1 DEF TypeOK
    <3>2. CASE s = t
      <4>1. out_q'[s] = Append(out_q[s], x) /\ out_q[s] \in Seq(Results)
        BY <1>0, <1>1, <3>2 DEF TypeOK
      <4>2. \A q \in Seq(Results) : MentionedIn(q, r) <=> \E y \in Elements(q) : y.rid = r
        BY ElementFacts
      <4>3. /\ Append(out_q[s], x) \in Seq(Results)
            /\ Elements(Append(out_q[s], x)) = Elements(out_q[s]) \cup {x}
        BY <1>3, <4>1, ElementsAppend, AppendProperties
      <4>. QED BY <1>1, <1>3, <3>2, <4>1, <4>2, <4>3
    <3>. QED BY <3>1, <3>2
  <2>. QED BY <1>1, <1>6, <1>10, <2>1 DEF Trace
<1>11. /\ phase[r] \in Unadmitted => queue'[r] = queue[r]
       /\ phase[r] \in Serving => Noted(r)'
  BY <1>0, <1>1 DEF handlerVars, InOrder, Noted
<1>12. CASE r # a
  BY <1>0, <1>7, <1>9, <1>10, <1>11, <1>12, CalmKeeps
<1>13. CASE r = a
  <2>1. phase[r] \notin Unadmitted
    BY <1>1, <1>13 DEF PipelineInv, TaskInv, UnadmittedUnknown
  <2>2. phase[r] = "done" => \A s \in 0..FinalStage[r] : ~Trace(r, s)'
    BY <1>0, <1>10, StageConstants DEF InOrder
  <2>3. ASSUME phase[r] \in Serving
        PROVE  r \in request_states' /\ Noted(r)' /\ \A s \in Stages : ServedBy(r, s)'
    <3>1. r \in request_states /\ \A s \in Stages : ServedBy(r, s)
      BY <1>0, <2>3 DEF InOrder
    <3>2. ASSUME NEW s \in Stages, s # t PROVE ServedBy(r, s)'
      BY <1>7, <1>9, <3>1, <3>2, CalmServed
    <3>3. ServedBy(a, t)'
      <4>1. PICK before \in Seq(Results), after \in Seq(Results) :
              Mine(a, t) = before \o after /\ Mine(a, t)' = before \o <<x>> \o after
        BY <1>8, <1>13
      <4>2. Numbers(a, t)' = Numbers(a, t)
        BY <1>8, <1>13
      <4>3. ServedBy(a, t)
        BY <1>13, <3>1
      <4>. QED BY <1>0, <1>1, <1>3, <1>6, <4>1, <4>2, <4>3, FailedServed
    <3>. QED BY <1>7, <1>11, <1>13, <2>3, <3>1, <3>2, <3>3 DEF SameRequest
  <2>. QED BY <1>7, <2>1, <2>2, <2>3 DEF InOrder
<1>. QED BY <1>12, <1>13

-----------------------------------------------------------------------------
(* The coroutine of one request.                                           *)

(* A stage is given tasks of a request at most.                            *)
OnlyTasksOf(a, s) ==
  /\ \A i \in DOMAIN in_q[s] : i \in DOMAIN in_q'[s] /\ in_q'[s][i] = in_q[s][i]
  /\ \A i \in DOMAIN in_q'[s] : in_q'[s][i].rid # a => i \in DOMAIN in_q[s] /\ in_q'[s][i] = in_q[s][i]

(* A step of the coroutine of request a.                                   *)
OnlyOf(a) ==
  /\ UNCHANGED <<async_chunk, stage_id, out_q, batch, generation_out_q, tasks, produced>>
  /\ \A s \in Stages : OnlyTasksOf(a, s)
  /\ \A r \in Requests \ {a} :
       /\ phase'[r] = phase[r] /\ all_stages_finished'[r] = all_stages_finished[r]
       /\ held'[r] = held[r] /\ received'[r] = received[r] /\ queue'[r] = queue[r]
       /\ r \in request_states => r \in request_states'

(* It does not concern the others.                                         *)
LEMMA OthersKeep ==
  ASSUME OrderInv, NEW a \in Requests, OnlyOf(a), NEW r \in Requests \ {a}
  PROVE  InOrder(r)'
<1>1. InOrder(r) /\ SameRequest(r) /\ phase'[r] = phase[r] /\ queue'[r] = queue[r]
  BY DEF OrderInv, OnlyOf, SameRequest
<1>2. UNCHANGED <<async_chunk, stage_id, out_q, batch, generation_out_q, tasks, produced>>
  BY DEF OnlyOf
<1>3. ASSUME NEW s \in Stages
      PROVE  /\ MentionedIn(in_q'[s], r) => MentionedIn(in_q[s], r)
             /\ OneTask(r, s) => OneTask(r, s)'
  <2>1. OnlyTasksOf(a, s)
    BY DEF OnlyOf
  <2>2. \A i \in DOMAIN in_q'[s] : in_q'[s][i].rid = r => i \in DOMAIN in_q[s] /\ in_q'[s][i] = in_q[s][i]
    BY <2>1 DEF OnlyTasksOf
  <2>3. MentionedIn(in_q'[s], r) => MentionedIn(in_q[s], r)
    BY <2>2 DEF MentionedIn
  <2>. QED BY <1>2, <2>2, <2>3 DEF OneTask
<1>4. ASSUME NEW s \in Stages PROVE Calm(r, s)
  <2>1. Flow(r, s)' = Flow(r, s)
    BY <1>1, <1>2 DEF Flow, Queued
  <2>2. Mine(r, s)' = Mine(r, s) /\ Numbers(r, s)' = Numbers(r, s)
    BY <2>1, SeenOf
  <2>3. Pending(r, s)' => Pending(r, s)
    BY <1>2, <1>3 DEF Pending
  <2>. QED BY <1>2, <1>3, <2>2, <2>3 DEF Calm
<1>5. \A s \in Stages : Trace(r, s)' => Trace(r, s)
  BY <1>2, <1>3 DEF Trace
<1>6. phase[r] \in Serving => Noted(r)'
  BY <1>1, <1>2 DEF InOrder, Noted
<1>. QED BY <1>1, <1>4, <1>5, <1>6, CalmKeeps

(* What a submission leaves of the queue of a stage.                       *)
LEMMA SubmittedTasks ==
  ASSUME TypeOK, NEW S, NEW a \in Requests, NEW task \in Tasks, task.rid = a, Submit(S, task),
         NEW s \in Stages
  PROVE  /\ OnlyTasksOf(a, s)
         /\ s \notin S => in_q'[s] = in_q[s]
         /\ s \in S /\ tasks' = tasks /\ ~Pending(a, s) => OneTask(a, s)'
<1>1. in_q[s] \in Seq(Tasks)
  BY DEF TypeOK
<1>2. s \notin S => in_q'[s] = in_q[s]
  BY DEF Submit
<1>3. s \in S => in_q'[s] = Append(in_q[s], task)
  BY DEF Submit
<1> DEFINE q == in_q[s]
           m == Len(q)
           more == Append(q, task)
<1>4. /\ m \in Nat /\ DOMAIN q = 1..m /\ DOMAIN more = 1..m + 1
      /\ \A i \in 1..m : more[i] = q[i]
      /\ more[m + 1] = task
  <2>1. /\ Len(more) = m + 1 /\ more \in Seq(Tasks)
        /\ \A i \in 1..m : more[i] = q[i]
        /\ more[m + 1] = task
    BY <1>1, AppendProperties
  <2>2. \A w \in Seq(Tasks) : Len(w) \in Nat /\ DOMAIN w = 1..Len(w)
    BY LenProperties
  <2> HIDE DEF more
  <2>. QED BY <1>1, <2>1, <2>2
<1>5. s \in S => in_q'[s] = more
  BY <1>3
<1>6. s \notin S => in_q'[s] = q
  BY <1>2
<1>7. in_q[s] = q
  OBVIOUS
<1> HIDE DEF q, m, more
<1>8. \A i \in DOMAIN more : (i \in DOMAIN q /\ more[i] = q[i]) \/ (i = m + 1 /\ more[i] = task)
  <2>1. \A i \in 1..m + 1 : i \in 1..m \/ i = m + 1
    BY <1>4
  <2>. QED BY <1>4, <2>1
<1>9. \A i \in DOMAIN q : i \in DOMAIN more /\ more[i] = q[i]
  <2>1. \A i \in 1..m : i \in 1..m + 1
    BY <1>4
  <2>. QED BY <1>4, <2>1
<1>10. OnlyTasksOf(a, s)
  BY <1>5, <1>6, <1>7, <1>8, <1>9 DEF OnlyTasksOf
<1>11. ASSUME s \in S, tasks' = tasks, ~Pending(a, s) PROVE OneTask(a, s)'
  <2>1. a \notin tasks'[s] /\ \A i \in DOMAIN q : q[i].rid # a
    BY <1>7, <1>11 DEF Pending, MentionedIn
  <2>2. \A i \in DOMAIN in_q'[s] : in_q'[s][i].rid = a => i = m + 1
    BY <1>5, <1>8, <1>11, <2>1
  <2>. QED BY <2>1, <2>2 DEF OneTask
<1>. QED BY <1>2, <1>10, <1>11

(* A request that failed or was aborted.                                   *)
LEMMA EndedInOrder ==
  ASSUME NEW a \in Requests, phase'[a] \in {"failed", "aborted"}
  PROVE  InOrder(a)'
BY DEF InOrder, Unadmitted, Serving

(* Results of a request among those of a stage.                            *)
LEMMA NothingOf ==
  ASSUME TypeOK', Tagged', NEW r \in Requests, NEW s \in Stages,
         Mine(r, s)' = <<>>, ~Pending(r, s)'
  PROVE  ~Trace(r, s)'
<1> DEFINE q == Queued(r, s)'
           p == out_q'[s]
           b == batch'[s]
           g == generation_out_q'[s]
           qp == q \o p
           qpb == qp \o b
<1>1. /\ q \in Seq(Results) /\ p \in Seq(Results) /\ b \in Seq(Results) /\ g \in Seq(Results)
  BY FlowTypesNext
<1>2. Flow(r, s)' = qpb \o g
  BY DEF Flow
<1>3. \A x \in Elements(p) \cup Elements(b) \cup Elements(g) : x.stage = s
  BY DEF Tagged
<1>4. Mapped(Of(r, s), qpb \o g) = <<>>
  BY <1>2 DEF Mine
<1> HIDE DEF q, p, b, g
<1>5. qp \in Seq(Results) /\ Elements(qp) = Elements(q) \cup Elements(p)
  BY <1>1, ElementsOfTwo
<1> HIDE DEF qp
<1>6. qpb \in Seq(Results) /\ Elements(qpb) = Elements(qp) \cup Elements(b)
  BY <1>1, <1>5, ElementsOfTwo
<1> HIDE DEF qpb
<1>7. qpb \o g \in Seq(Results) /\ Elements(qpb \o g) = Elements(qpb) \cup Elements(g)
  BY <1>1, <1>6, ElementsOfTwo
<1>8. \A x \in Elements(qpb \o g) : Of(r, s)[x] = <<>>
  <2>1. Maps(Of(r, s), Results, Results)
    BY Views DEF View
  <2>2. \A f, w : Maps(f, Results, Results) /\ w \in Seq(Results) =>
          (Mapped(f, w) = <<>> <=> \A x \in Elements(w) : f[x] = <<>>)
    BY MappedNothing
  <2>. QED BY <1>4, <1>7, <2>1, <2>2
<1>9. \A w \in Seq(Results) : /\ Elements(w) \subseteq Results
                              /\ MentionedIn(w, r) <=> \E x \in Elements(w) : x.rid = r
  BY ElementFacts
<1>10. \A x \in Elements(p) \cup Elements(b) \cup Elements(g) : x.rid # r
  <2>1. \A x \in Results : x.rid = r /\ x.stage = s => Of(r, s)[x] # <<>>
    BY DEF Of
  <2>. QED BY <1>1, <1>3, <1>5, <1>6, <1>7, <1>8, <1>9, <2>1
<1>11. ~MentionedIn(p, r) /\ ~MentionedIn(b, r) /\ ~MentionedIn(g, r)
  BY <1>1, <1>9, <1>10
<1>. QED BY <1>11 DEF Trace, Pending, p, b, g

(* What a stage and the request a have for each other once a has taken or  *)
(* resumed with a result of stage k.                                       *)
Got(a, s, k, last) ==
  /\ OneTask(a, s)
  /\ \A i \in 1..Len(Mine(a, s)') : Mine(a, s)'[i].last => i = Len(Mine(a, s)') /\ ~Pending(a, s)
  /\ received'[a][s] \o Numbers(a, s)' = FirstOutputs(s, produced[s][a])
  /\ s \in all_stages_finished[a] \/ ~Given(a, s) \/ (s = k /\ last) =>
       ~Pending(a, s) /\ Mine(a, s)' = <<>>
  /\ s \in all_stages_finished[a] \/ (s = k /\ last) => Given(a, s)

(* A task is handed to a stage that had none of the request.               *)
Handed(a, s) == in_q'[s] = in_q[s] \/ (OneTask(a, s)' /\ ~Given(a, s) /\ Given(a, s)')

(* A step of the coroutine after a result of stage k.                      *)
Proceeds(a, k, last) ==
  /\ UNCHANGED <<tasks, produced>>
  /\ \A s \in Stages : Got(a, s, k, last) /\ Handed(a, s) /\ (Given(a, s) => Given(a, s)')
  /\ phase'[a] \in Serving =>
       /\ a \in request_states' /\ Noted(a)'
       /\ \A s \in Stages : Finished(a, s)' => s \in all_stages_finished[a] \/ (s = k /\ last)
  /\ phase'[a] \notin Unadmitted
  /\ phase'[a] = "done" =>
       \A s \in 0..FinalStage[a] : s \in all_stages_finished[a] \/ (s = k /\ last)

(* It leaves the request in order.                                         *)
LEMMA ProceedsInOrder ==
  ASSUME TypeOK', Tagged', NEW a \in Requests, NEW k \in Stages, NEW last \in BOOLEAN,
         Proceeds(a, k, last)
  PROVE  InOrder(a)'
<1>1. ASSUME NEW s \in Stages, s \in all_stages_finished[a] \/ (s = k /\ last)
      PROVE  Mine(a, s)' = <<>> /\ ~Pending(a, s)'
  <2>1. Got(a, s, k, last) /\ Handed(a, s) /\ tasks' = tasks
    BY DEF Proceeds
  <2>2. Given(a, s) /\ ~Pending(a, s) /\ Mine(a, s)' = <<>>
    BY <1>1, <2>1 DEF Got
  <2>3. in_q'[s] = in_q[s]
    BY <2>1, <2>2 DEF Handed
  <2>. QED BY <2>1, <2>2, <2>3 DEF Pending
<1>2. ASSUME phase'[a] = "done", NEW s \in 0..FinalStage[a] PROVE ~Trace(a, s)'
  <2>1. s \in Stages
    BY StageConstants
  <2>2. Mine(a, s)' = <<>> /\ ~Pending(a, s)'
    BY <1>1, <1>2, <2>1 DEF Proceeds
  <2>. QED BY <2>1, <2>2, NothingOf
<1>3. ASSUME phase'[a] \in Serving, NEW s \in Stages PROVE ServedBy(a, s)'
  <2>1. Got(a, s, k, last) /\ Handed(a, s) /\ (Given(a, s) => Given(a, s)')
    BY DEF Proceeds
  <2>2. Finished(a, s)' => s \in all_stages_finished[a] \/ (s = k /\ last)
    BY <1>3 DEF Proceeds
  <2>3. tasks' = tasks /\ produced' = produced
    BY DEF Proceeds
  <2>4. InSequence(a, s)'
    BY <2>1, <2>3 DEF Got, InSequence
  <2>5. Finished(a, s)' => Mine(a, s)' = <<>> /\ ~Pending(a, s)' /\ Given(a, s)'
    BY <1>1, <2>1, <2>2 DEF Got
  <2>6. CASE in_q'[s] = in_q[s]
    <3>1. OneTask(a, s)' /\ LastIsLast(a, s)'
      BY <2>1, <2>3, <2>6 DEF Got, OneTask, LastIsLast, Pending
    <3>2. ~Given(a, s)' => Mine(a, s)' = <<>> /\ ~Pending(a, s)'
      BY <2>1, <2>3, <2>6 DEF Got, Pending
    <3>. QED BY <2>4, <2>5, <3>1, <3>2 DEF ServedBy, Idle
  <2>7. CASE OneTask(a, s)' /\ ~Given(a, s) /\ Given(a, s)'
    <3>1. Mine(a, s)' = <<>>
      BY <2>1, <2>7 DEF Got
    <3>2. LastIsLast(a, s)'
      <4>1. Len(<<>>) = 0 /\ 1..0 = {}
        OBVIOUS
      <4>. QED BY <3>1, <4>1 DEF LastIsLast
    <3>. QED BY <2>4, <2>5, <2>7, <3>2 DEF ServedBy, Idle
  <2>. QED BY <2>1, <2>6, <2>7 DEF Handed
<1>. QED BY <1>2, <1>3 DEF InOrder, Proceeds

(* It resumes after a yield.                                               *)
LEMMA GotContinued ==
  ASSUME NEW a \in Requests, InOrder(a), phase[a] = "yielding",
         UNCHANGED <<async_chunk, queue, out_q, batch, generation_out_q, received>>,
         NEW s \in Stages
  PROVE  Got(a, s, held[a].stage, held[a].last)
<1>1. ServedBy(a, s)
  BY DEF InOrder, Serving
<1>2. Flow(a, s)' = Flow(a, s)
  BY FlowStays
<1>3. Mine(a, s)' = Mine(a, s) /\ Numbers(a, s)' = Numbers(a, s)
  BY <1>2, SeenOf
<1>4. OneTask(a, s) /\ LastIsLast(a, s) /\ InSequence(a, s)
  BY <1>1 DEF ServedBy
<1>5. s \in all_stages_finished[a] \/ (s = held[a].stage /\ held[a].last) => Finished(a, s)
  BY DEF Finished
<1>6. Finished(a, s) \/ ~Given(a, s) => ~Pending(a, s) /\ Mine(a, s) = <<>>
  BY <1>1 DEF ServedBy, Idle
<1>7. Finished(a, s) => Given(a, s)
  BY <1>1 DEF ServedBy
<1>. QED BY <1>3, <1>4, <1>5, <1>6, <1>7 DEF Got, LastIsLast, InSequence

(* It takes a result of stage k that is no error.                          *)
Takes(a, k, q, x) ==
  /\ q = (IF async_chunk THEN k ELSE 0)
  /\ queue[a][q] # <<>> /\ x = Head(queue[a][q])
  /\ x \in Results /\ x.rid = a /\ x.stage = k /\ x.n # 0
  /\ Dequeue(a, q) /\ Record(a, k, x)
  /\ UNCHANGED <<async_chunk, out_q, batch, generation_out_q>>

(* Its views lose the result, the others stay.                             *)
LEMMA TakenSeen ==
  ASSUME TypeOK, TypeOK', NEW a \in Requests, NEW k \in Stages, NEW q \in Stages, NEW x,
         Takes(a, k, q, x), NEW s \in Stages
  PROVE  /\ Mine(a, s)' \in Seq(Results) /\ Numbers(a, s)' \in Seq(Stages \X Nat)
         /\ s = k => /\ Mine(a, s) = <<x>> \o Mine(a, s)'
                     /\ Numbers(a, s) = << <<x.stage, x.n>> >> \o Numbers(a, s)'
         /\ s # k => Mine(a, s)' = Mine(a, s) /\ Numbers(a, s)' = Numbers(a, s)
<1>1. View(Of(a, s), Results, a, s) /\ View(NumbersOf(a, s), Stages \X Nat, a, s)
  BY Views
<1>2. Mine(a, s)' = Mapped(Of(a, s), Flow(a, s)') /\ Numbers(a, s)' = Mapped(NumbersOf(a, s), Flow(a, s)')
  BY DEF Mine, Numbers
<1>3. /\ \A f, U : View(f, U, a, s) => Mapped(f, Flow(a, s)') \in Seq(U)
  <2>1. ASSUME NEW f, NEW U, View(f, U, a, s) PROVE Mapped(f, Flow(a, s)') \in Seq(U)
    BY <2>1, FlowViewNext
  <2>. QED BY <2>1
<1>4. Mine(a, s)' \in Seq(Results) /\ Numbers(a, s)' \in Seq(Stages \X Nat)
  BY <1>1, <1>2, <1>3
<1>5. x \in Results /\ x.rid = a /\ x.stage = k /\ x.n # 0 /\ x = Head(queue[a][q])
  BY DEF Takes
<1>6. /\ x.rid = a /\ x.stage = s =>
           /\ Of(a, s)[x] = <<x>>
           /\ NumbersOf(a, s)[x] = IF x.n # 0 THEN << <<x.stage, x.n>> >> ELSE <<>>
      /\ x.rid # a \/ x.stage # s => Of(a, s)[x] = <<>> /\ NumbersOf(a, s)[x] = <<>>
  BY <1>5, SeenResult, Zenon
<1>7. CASE q = (IF async_chunk THEN s ELSE 0)
  <2>1. ASSUME NEW f, NEW U, View(f, U, a, s)
        PROVE  Mapped(f, Flow(a, s)) = f[Head(queue[a][q])] \o Mapped(f, Flow(a, s)')
    <3>1. Removes(a, s, q)
      BY <1>7 DEF Takes, Removes
    <3>2. LosesFirst(f, U, a, s, q)
      BY <2>1, <3>1, TakenView
    <3>. QED BY <3>2 DEF LosesFirst
  <2>2. /\ Mine(a, s) = Of(a, s)[x] \o Mine(a, s)'
        /\ Numbers(a, s) = NumbersOf(a, s)[x] \o Numbers(a, s)'
    BY <1>1, <1>2, <1>5, <2>1 DEF Mine, Numbers
  <2>3. <<>> \o Mine(a, s)' = Mine(a, s)' /\ <<>> \o Numbers(a, s)' = Numbers(a, s)'
    BY <1>4, ConcatEmptySeq
  <2>. QED BY <1>4, <1>5, <1>6, <2>2, <2>3, Zenon
<1>8. CASE q # (IF async_chunk THEN s ELSE 0)
  <2>1. s # k /\ async_chunk /\ q # s /\ async_chunk'
    BY <1>8 DEF Takes
  <2>2. queue'[a][s] = queue[a][s]
    BY <2>1 DEF Takes, Dequeue, TypeOK
  <2>3. Flow(a, s)' = Flow(a, s)
    BY <2>1, <2>2 DEF Flow, Queued, Takes
  <2>4. Mine(a, s)' = Mine(a, s) /\ Numbers(a, s)' = Numbers(a, s)
    BY <2>3, SeenOf
  <2>. QED BY <1>4, <2>1, <2>4
<1>. QED BY <1>7, <1>8

(* What follows the first of a sequence.                                   *)
LEMMA AfterFirst ==
  ASSUME NEW T, NEW x \in T, NEW q \in Seq(T), NEW m, m = <<x>> \o q
  PROVE  /\ Len(q) \in Nat /\ Len(m) = Len(q) + 1 /\ m[1] = x /\ m # <<>>
         /\ \A i \in 1..Len(q) : i + 1 \in 1..Len(m) /\ m[i + 1] = q[i]
         /\ Len(q) = 0 => q = <<>>
<1> DEFINE e == <<x>>
<1>1. e \in Seq(T) /\ Len(e) = 1 /\ e[1] = x /\ m = e \o q
  OBVIOUS
<1>2. /\ Len(m) = Len(e) + Len(q) /\ Len(q) \in Nat
      /\ \A i \in 1..Len(e) + Len(q) : m[i] = IF i <= Len(e) THEN e[i] ELSE q[i - Len(e)]
  <2> HIDE DEF e
  <2>. QED BY <1>1, ConcatProperties, LenProperties
<1>3. /\ Len(m) = 1 + Len(q)
      /\ \A i \in 1..1 + Len(q) : m[i] = IF i <= 1 THEN e[i] ELSE q[i - 1]
  BY <1>1, <1>2
<1> HIDE DEF e
<1>4. ASSUME NEW i \in 1..Len(q) PROVE i + 1 \in 1..Len(m) /\ m[i + 1] = q[i]
  <2>1. i + 1 \in 1..1 + Len(q) /\ ~(i + 1 <= 1) /\ (i + 1) - 1 = i
    BY <1>2
  <2>2. m[i + 1] = q[(i + 1) - 1]
    BY <1>3, <2>1
  <2>. QED BY <1>3, <2>1, <2>2
<1>5. m[1] = x /\ m # <<>> /\ Len(m) = Len(q) + 1
  BY <1>1, <1>2, <1>3
<1>6. Len(q) = 0 => q = <<>>
  OBVIOUS
<1>. QED BY <1>2, <1>4, <1>5, <1>6

(* A result that was recorded counts among the processed ones.             *)
LEMMA RecordedNext ==
  ASSUME NEW U, NEW d \in Seq(U), NEW u \in U, NEW b \in Seq(U)
  PROVE  Append(d, u) \o b = d \o (<<u>> \o b)
OBVIOUS

(* It has taken a result.                                                  *)
LEMMA GotTaken ==
  ASSUME TypeOK, TypeOK', NEW a \in Requests, InOrder(a), phase[a] \in Serving,
         NEW k \in Stages, NEW q \in Stages, NEW x, Takes(a, k, q, x), NEW s \in Stages
  PROVE  Got(a, s, k, x.last)
<1>1. ServedBy(a, s)
  BY DEF InOrder
<1>2. OneTask(a, s) /\ LastIsLast(a, s) /\ InSequence(a, s)
  BY <1>1 DEF ServedBy
<1>3. s \in all_stages_finished[a] => Finished(a, s)
  BY DEF Finished
<1>4. Finished(a, s) \/ ~Given(a, s) => ~Pending(a, s) /\ Mine(a, s) = <<>>
  BY <1>1 DEF ServedBy, Idle
<1>5. Finished(a, s) => Given(a, s)
  BY <1>1 DEF ServedBy
<1>6. /\ Mine(a, s)' \in Seq(Results) /\ Numbers(a, s)' \in Seq(Stages \X Nat)
      /\ s = k => /\ Mine(a, s) = <<x>> \o Mine(a, s)'
                  /\ Numbers(a, s) = << <<x.stage, x.n>> >> \o Numbers(a, s)'
      /\ s # k => Mine(a, s)' = Mine(a, s) /\ Numbers(a, s)' = Numbers(a, s)
  BY TakenSeen
<1>7. x \in Results /\ x.stage = k
  BY DEF Takes
<1>8. received \in [Requests -> [Stages -> Seq(Stages \X (Nat \ {0}))]]
  BY DEF TypeOK
<1>9. received'[a][s] = IF s = k THEN Append(received[a][s], <<x.stage, x.n>>) ELSE received[a][s]
  BY <1>8 DEF Takes, Record
<1>10. CASE s # k
  BY <1>2, <1>3, <1>4, <1>5, <1>6, <1>9, <1>10 DEF Got, LastIsLast, InSequence
<1>11. CASE s = k
  <2> DEFINE m == Mine(a, s)
             rest == Mine(a, s)'
             b == Numbers(a, s)'
             d == received[a][s]
             u == <<x.stage, x.n>>
  <2>1. rest \in Seq(Results) /\ b \in Seq(Stages \X Nat) /\ m = <<x>> \o rest /\ Numbers(a, s) = <<u>> \o b
    BY <1>6, <1>11
  <2>2. d \in Seq(Stages \X Nat) /\ u \in Stages \X Nat
    <3>1. d \in Seq(Stages \X (Nat \ {0}))
      BY <1>8
    <3>2. x.stage \in Stages /\ x.n \in Nat
      BY <1>7 DEF Results
    <3>. QED BY <3>1, <3>2
  <2>3. received'[a][s] = Append(d, u)
    BY <1>9, <1>11
  <2>4. \A i \in 1..Len(m) : m[i].last => i = Len(m) /\ ~Pending(a, s)
    BY <1>2 DEF LastIsLast
  <2>5. d \o Numbers(a, s) = FirstOutputs(s, produced[s][a])
    BY <1>2 DEF InSequence
  <2> HIDE DEF m, rest, b, d, u
  <2>6. /\ Len(rest) \in Nat /\ Len(m) = Len(rest) + 1 /\ m[1] = x /\ m # <<>>
        /\ \A i \in 1..Len(rest) : i + 1 \in 1..Len(m) /\ m[i + 1] = rest[i]
        /\ Len(rest) = 0 => rest = <<>>
    BY <1>7, <2>1, AfterFirst
  <2>7. ~Finished(a, s) /\ Given(a, s)
    BY <1>4, <2>6 DEF m
  <2>8. ASSUME NEW i \in 1..Len(rest), rest[i].last PROVE i = Len(rest) /\ ~Pending(a, s)
    <3>1. i + 1 = Len(m) /\ ~Pending(a, s)
      BY <2>4, <2>6, <2>8
    <3>. QED BY <2>6, <3>1
  <2>9. ASSUME x.last PROVE ~Pending(a, s) /\ rest = <<>>
    <3>1. 1 \in 1..Len(m)
      BY <2>6
    <3>2. 1 = Len(m) /\ ~Pending(a, s)
      BY <2>4, <2>6, <2>9, <3>1
    <3>. QED BY <2>6, <3>2
  <2>10. received'[a][s] \o b = FirstOutputs(s, produced[s][a])
    <3>1. Append(d, u) \o b = d \o (<<u>> \o b)
      BY <2>1, <2>2, RecordedNext, SMTT(30)
    <3>. QED BY <2>1, <2>3, <2>5, <3>1
  <2>11. s \notin all_stages_finished[a]
    BY <1>3, <2>7
  <2>12. /\ \A i \in 1..Len(rest) : rest[i].last => i = Len(rest) /\ ~Pending(a, s)
         /\ x.last => ~Pending(a, s) /\ rest = <<>>
    BY <2>8, <2>9
  <2>. QED BY <1>2, <2>7, <2>10, <2>11, <2>12 DEF Got, rest, b
<1>. QED BY <1>10, <1>11

(* What the handler noted is still the stage of the results that are left. *)
LEMMA NotedTaken ==
  ASSUME TypeOK, NEW a \in Requests, Noted(a), 0 \in Stages,
         UNCHANGED <<async_chunk, stage_id>>,
         queue'[a] = queue[a] \/ (queue[a][0] # <<>> /\ Dequeue(a, 0)) \/ async_chunk
  PROVE  Noted(a)'
<1>1. SUFFICES ASSUME ~async_chunk, NEW x \in Elements(queue'[a][0]) PROVE x \in Elements(queue[a][0])
  BY DEF Noted
<1>2. CASE queue'[a] = queue[a]
  BY <1>1, <1>2
<1>3. CASE queue[a][0] # <<>> /\ Dequeue(a, 0)
  <2>1. queue[a][0] \in Seq(Results) /\ queue'[a][0] = Tail(queue[a][0])
    BY <1>3 DEF TypeOK, Dequeue
  <2>2. Elements(Tail(queue[a][0])) \subseteq Elements(queue[a][0])
    BY <1>3, <2>1, ElementFacts
  <2>. QED BY <1>1, <2>1, <2>2
<1>. QED BY <1>1, <1>2, <1>3

(* What a step of the coroutine of a may change, for the other requests.   *)
Apart(a) ==
  /\ \A s \in Stages : OnlyTasksOf(a, s)
  /\ \A r \in Requests \ {a} :
       /\ phase'[r] = phase[r] /\ all_stages_finished'[r] = all_stages_finished[r]
       /\ r \in request_states => r \in request_states'

(* No task is handed to a stage.                                           *)
LEMMA NoTasks ==
  ASSUME UNCHANGED in_q, NEW a \in Requests, NEW s \in Stages
  PROVE  OnlyTasksOf(a, s) /\ Handed(a, s)
BY DEF OnlyTasksOf, Handed

(* Sequential mode: the request stays at its stage, goes to the next, is   *)
(* complete or fails.                                                      *)
LEMMA AfterResultInOrder ==
  ASSUME TypeOK, TypeOK', Tagged', NEW a \in Requests, InOrder(a), phase[a] \in Serving, ~async_chunk,
         NEW k \in 0..FinalStage[a], At(a, k), NEW last \in BOOLEAN,
         \A s \in Stages : Got(a, s, k, last), Noted(a)',
         AfterResult(a, k, last), UNCHANGED <<async_chunk, tasks, produced>>
  PROVE  InOrder(a)' /\ Apart(a)
<1>1. /\ k \in Stages /\ k \in Nat /\ k + 1 \in Nat /\ FinalStage[a] \in Nat
      /\ a \in request_states /\ all_stages_finished[a] = 0..k - 1
      /\ 0..FinalStage[a] \subseteq Stages /\ Stages \subseteq Nat
  <2>1. /\ FinalStage[a] \in Stages /\ Stages \subseteq Nat
        /\ \A j \in 0..FinalStage[a] : j \in Stages
    BY StageConstants
  <2>2. k \in Stages /\ 0..FinalStage[a] \subseteq Stages
    BY <2>1
  <2>3. k \in Nat /\ k + 1 \in Nat /\ FinalStage[a] \in Nat
    <3>1. k \in Nat /\ FinalStage[a] \in Nat
      BY <2>1, <2>2
    <3>. QED BY <3>1
  <2>4. a \in request_states /\ all_stages_finished[a] = 0..k - 1
    BY DEF InOrder, At
  <2>. QED BY <2>1, <2>2, <2>3, <2>4
<1>2. /\ phase \in [Requests -> Phases] /\ in_q \in [Stages -> Seq(Tasks)]
      /\ all_stages_finished \in [Requests -> SUBSET Stages]
      /\ engine_outputs \in [Stages -> Requests \cup {NoRequest}]
  BY DEF TypeOK
<1>3. ASSUME UNCHANGED in_q, NEW s \in Stages PROVE OnlyTasksOf(a, s) /\ Handed(a, s)
  BY <1>3, NoTasks
<1>4. CASE ~last
  <2>1. /\ phase' = [phase EXCEPT ![a] = "running"]
        /\ UNCHANGED <<all_stages_finished, request_states, in_q>>
    BY <1>4 DEF AfterResult, Move
  <2>2. phase'[a] = "running" /\ \A r \in Requests \ {a} : phase'[r] = phase[r]
    BY <1>2, <2>1
  <2>3. \A s \in Stages : Finished(a, s)' => s \in all_stages_finished[a]
    BY <2>1, <2>2 DEF Finished
  <2>4. \A s \in Stages : Given(a, s) => Given(a, s)'
    BY <2>1 DEF Given
  <2>5. Proceeds(a, k, last)
    BY <1>1, <1>3, <2>1, <2>2, <2>3, <2>4 DEF Proceeds, Unadmitted
  <2>. QED BY <1>1, <1>3, <2>1, <2>2, <2>5, ProceedsInOrder DEF Apart
<1>5. CASE last
  <2>1. /\ all_stages_finished' = [all_stages_finished EXCEPT ![a] = @ \cup {k}]
        /\ engine_outputs' = [engine_outputs EXCEPT ![k] = a]
    BY <1>5 DEF AfterResult, SetEngineOutputs
  <2>2. /\ \A r \in Requests \ {a} : all_stages_finished'[r] = all_stages_finished[r]
        /\ all_stages_finished'[a] = all_stages_finished[a] \cup {k}
        /\ engine_outputs'[k] = a
    BY <1>1, <1>2, <2>1
  <2>3. \A s \in Stages : Given(a, s) => Given(a, s)'
    BY <2>2 DEF Given
  <2>4. CASE k < FinalStage[a]
    <3>1. Forward(a, k) /\ UNCHANGED request_states /\ k + 1 \in Stages
      <4>1. Forward(a, k) /\ UNCHANGED request_states
        BY <1>5, <2>4 DEF AfterResult
      <4>2. k + 1 \in 0..FinalStage[a]
        BY <1>1, <2>4
      <4>. QED BY <1>1, <4>1, <4>2
    <3>2. CASE Submit({k + 1}, Generate(a, a)) /\ phase' = [phase EXCEPT ![a] = "running"]
      <4>1. phase'[a] = "running" /\ \A r \in Requests \ {a} : phase'[r] = phase[r]
        BY <1>2, <3>2
      <4>2. Generate(a, a) \in Tasks /\ Generate(a, a).rid = a
        BY TaskTypes
      <4>3. ASSUME NEW s \in Stages
            PROVE  /\ OnlyTasksOf(a, s)
                   /\ s \notin {k + 1} => in_q'[s] = in_q[s]
                   /\ s \in {k + 1} /\ tasks' = tasks /\ ~Pending(a, s) => OneTask(a, s)'
        BY <3>2, <4>2, SubmittedTasks
      <4>4. ASSUME NEW s \in Stages PROVE Handed(a, s)
        <5>1. CASE s # k + 1
          BY <4>3, <5>1 DEF Handed
        <5>2. CASE s = k + 1
          <6>1. ~Given(a, s)
            <7>1. k \in 0..s - 1 /\ k \notin 0..k - 1
              BY <1>1, <5>2
            <7>. QED BY <1>1, <7>1 DEF Given
          <6>2. Given(a, s)'
            <7>1. 0..s - 1 \subseteq 0..k - 1 \cup {k}
              BY <1>1, <5>2
            <7>. QED BY <1>1, <2>2, <7>1 DEF Given
          <6>3. ~Pending(a, s)
            BY <6>1 DEF Got
          <6>. QED BY <4>3, <5>2, <6>1, <6>2, <6>3 DEF Handed
        <5>. QED BY <5>1, <5>2
      <4>5. \A s \in Stages : Finished(a, s)' => s \in all_stages_finished[a] \/ (s = k /\ last)
        BY <1>5, <2>2, <4>1 DEF Finished
      <4>6. Proceeds(a, k, last)
        BY <1>1, <2>3, <3>1, <4>1, <4>4, <4>5 DEF Proceeds, Unadmitted
      <4>. QED BY <1>1, <2>2, <3>1, <4>1, <4>3, <4>6, ProceedsInOrder DEF Apart
    <3>3. CASE phase' = [phase EXCEPT ![a] = "failed"] /\ UNCHANGED in_q
      <4>1. phase'[a] = "failed" /\ \A r \in Requests \ {a} : phase'[r] = phase[r]
        BY <1>2, <3>3
      <4>. QED BY <1>3, <2>2, <3>1, <3>3, <4>1, EndedInOrder DEF Apart
    <3>. QED BY <2>2, <3>1, <3>2, <3>3 DEF Forward, Move
  <2>5. CASE ~(k < FinalStage[a])
    <3>1. /\ phase' = [phase EXCEPT ![a] = "done"]
          /\ request_states' = request_states \ {a}
          /\ UNCHANGED in_q
      BY <1>5, <2>5 DEF AfterResult, Complete, Move
    <3>2. phase'[a] = "done" /\ \A r \in Requests \ {a} : phase'[r] = phase[r]
      BY <1>2, <3>1
    <3>3. \A s \in 0..FinalStage[a] : s \in all_stages_finished[a] \/ (s = k /\ last)
      <4>1. k = FinalStage[a]
        BY <1>1, <2>5
      <4>2. \A s \in 0..k : s \in 0..k - 1 \/ s = k
        BY <1>1
      <4>. QED BY <1>1, <1>5, <4>1, <4>2
    <3>4. Proceeds(a, k, last)
      BY <1>3, <2>3, <3>1, <3>2, <3>3 DEF Proceeds, Unadmitted, Serving
    <3>. QED BY <1>1, <1>3, <2>2, <3>1, <3>2, <3>4, ProceedsInOrder DEF Apart
  <2>. QED BY <2>4, <2>5
<1>. QED BY <1>4, <1>5

(* The rest of what a step of the coroutine of a leaves alone.             *)
Aside(a) ==
  /\ UNCHANGED <<async_chunk, stage_id, out_q, batch, generation_out_q, tasks, produced>>
  /\ \A r \in Requests \ {a} :
       held'[r] = held[r] /\ received'[r] = received[r] /\ queue'[r] = queue[r]

(* A step of one request leaves the outputs of the others in order.        *)
LEMMA AllInOrder ==
  ASSUME OrderInv, NEW a \in Requests, Apart(a), Aside(a), InOrder(a)'
  PROVE  \A r \in Requests : InOrder(r)'
<1>1. OnlyOf(a)
  BY DEF OnlyOf, Apart, Aside
<1>2. ASSUME NEW r \in Requests \ {a} PROVE InOrder(r)'
  BY <1>1, <1>2, OthersKeep
<1>. QED BY <1>2

(* Its result is yielded: generate() waits for its client.                 *)
LEMMA YieldInOrder ==
  ASSUME TypeOK, TypeOK', Tagged', NEW a \in Requests, NEW k \in Stages, NEW x \in Results,
         \A s \in Stages : Got(a, s, k, x.last) /\ Handed(a, s) /\ (Given(a, s) => Given(a, s)'),
         Noted(a)', a \in request_states', Yield(a, k, x), UNCHANGED <<tasks, produced>>,
         \A s \in all_stages_finished'[a] : s \in all_stages_finished[a] \/ (s = k /\ x.last)
  PROVE  InOrder(a)' /\ \A r \in Requests \ {a} : phase'[r] = phase[r] /\ held'[r] = held[r]
<1>1. phase \in [Requests -> Phases] /\ held \in [Requests -> [stage : Stages, last : BOOLEAN]]
  BY DEF TypeOK
<1>2. /\ phase'[a] = "yielding" /\ held'[a] = [stage |-> k, last |-> x.last]
      /\ \A r \in Requests \ {a} : phase'[r] = phase[r] /\ held'[r] = held[r]
  BY <1>1 DEF Yield, Move
<1>3. x.last \in BOOLEAN
  BY DEF Results
<1>4. ASSUME NEW s \in Stages, Finished(a, s)' PROVE s \in all_stages_finished[a] \/ (s = k /\ x.last)
  BY <1>2, <1>4 DEF Finished
<1>5. Proceeds(a, k, x.last)
  BY <1>2, <1>4 DEF Proceeds, Unadmitted
<1>6. InOrder(a)'
  BY <1>3, <1>5, ProceedsInOrder
<1>. QED BY <1>2, <1>6

(* The result is taken from the queue of its request.                      *)
LEMMA TakenFacts ==
  ASSUME TypeOK, Tagged, NEW a \in Requests, NEW q \in Stages, queue[a][q] # <<>>, Dequeue(a, q)
  PROVE  /\ Head(queue[a][q]) \in Results /\ Head(queue[a][q]) \in Elements(queue[a][q])
         /\ Head(queue[a][q]).rid = a /\ (async_chunk => Head(queue[a][q]).stage = q)
         /\ \A r \in Requests \ {a} : queue'[r] = queue[r]
<1>1. queue \in [Requests -> [Stages -> Seq(Results)]] /\ queue[a][q] \in Seq(Results)
  BY DEF TypeOK
<1>2. Head(queue[a][q]) \in Results
  BY <1>1
<1>3. Head(queue[a][q]) \in Elements(queue[a][q])
  BY <1>1, ElementFacts
<1>4. \A r \in Requests \ {a} : queue'[r] = queue[r]
  BY <1>1 DEF Dequeue
<1>. QED BY <1>2, <1>3, <1>4 DEF Tagged

(* Sequential mode: a request takes its next result.                       *)
LEMMA TakeSequentialInOrder ==
  ASSUME PipelineInv, TypeOK', OrderInv, Tagged', NEW a \in Requests, TakeSequential(a)
  PROVE  \A r \in Requests : InOrder(r)'
<1> DEFINE x == Head(queue[a][0])
<1>0. TypeOK /\ Tagged /\ InOrder(a) /\ 0 \in Stages
  BY StageConstants DEF PipelineInv, OrderInv
<1>1. /\ ~async_chunk /\ phase[a] = "running" /\ queue[a][0] # <<>> /\ Dequeue(a, 0)
      /\ UNCHANGED <<async_chunk, stage_id, out_q, batch, generation_out_q, tasks, produced>>
  BY DEF TakeSequential, workerVars
<1>2. /\ x \in Results /\ x \in Elements(queue[a][0]) /\ x.rid = a
      /\ \A r \in Requests \ {a} : queue'[r] = queue[r]
  BY <1>0, <1>1, TakenFacts
<1>3. PICK k \in 0..FinalStage[a] : At(a, k)
  BY <1>1 DEF PipelineInv, StagesInOrder, Unfinished
<1>4. k \in Stages /\ Current(a) = k
  BY <1>3, StageConstants, CurrentIs DEF At
<1>5. phase[a] \in Serving /\ a \in request_states /\ Noted(a)
  BY <1>0, <1>1 DEF InOrder, Serving
<1>6. x.stage = stage_id[a]
  BY <1>1, <1>2, <1>5 DEF Noted
<1>7. Noted(a)'
  BY <1>0, <1>1, <1>5, NotedTaken
<1>8. /\ phase \in [Requests -> Phases] /\ held \in [Requests -> [stage : Stages, last : BOOLEAN]]
      /\ received \in [Requests -> [Stages -> Seq(Stages \X (Nat \ {0}))]]
  BY <1>0 DEF TypeOK
<1>9. CASE stage_id[a] # k \/ IsError(x)
  <2>1. Raise(a)
    BY <1>4, <1>9 DEF TakeSequential
  <2>2. /\ phase' = [phase EXCEPT ![a] = "failed"]
        /\ UNCHANGED <<all_stages_finished, request_states, held, received, in_q>>
    BY <2>1 DEF Raise, Move
  <2>3. phase'[a] = "failed" /\ \A r \in Requests \ {a} : phase'[r] = phase[r]
    BY <1>8, <2>2
  <2>4. InOrder(a)'
    BY <2>3, EndedInOrder
  <2>5. \A s \in Stages : OnlyTasksOf(a, s)
    BY <2>2, NoTasks
  <2>6. Apart(a) /\ Aside(a)
    BY <1>1, <1>2, <2>2, <2>3, <2>5 DEF Apart, Aside
  <2>. QED BY <2>4, <2>6, AllInOrder
<1>10. CASE ~(stage_id[a] # k \/ IsError(x))
  <2>1. /\ Record(a, k, x)
        /\ IF k \in FinalOutput
           THEN Yield(a, k, x) /\ UNCHANGED <<all_stages_finished, request_states, in_q>>
           ELSE AfterResult(a, k, x.last) /\ UNCHANGED held
    BY <1>4, <1>10 DEF TakeSequential
  <2> HIDE DEF x
  <2>2. x.stage = k /\ x.n # 0
    BY <1>6, <1>10 DEF IsError
  <2>3. Takes(a, k, 0, x)
    BY <1>1, <1>2, <2>1, <2>2 DEF Takes, x
  <2>4. ASSUME NEW s \in Stages PROVE Got(a, s, k, x.last)
    BY <1>0, <1>4, <1>5, <2>3, GotTaken
  <2>5. \A r \in Requests \ {a} : received'[r] = received[r]
    BY <1>8, <2>1 DEF Record
  <2>6. CASE k \in FinalOutput
    <3>1. Yield(a, k, x) /\ UNCHANGED <<all_stages_finished, request_states, in_q>>
      BY <2>1, <2>6
    <3>2. ASSUME NEW s \in Stages
          PROVE  OnlyTasksOf(a, s) /\ Handed(a, s) /\ (Given(a, s) => Given(a, s)')
      <4>1. Given(a, s)' = Given(a, s)
        BY <1>1, <3>1 DEF Given
      <4>. QED BY <3>1, <4>1, NoTasks
    <3>3. InOrder(a)' /\ \A r \in Requests \ {a} : phase'[r] = phase[r] /\ held'[r] = held[r]
      BY <1>0, <1>1, <1>2, <1>4, <1>5, <1>7, <2>4, <3>1, <3>2, YieldInOrder
    <3>4. Apart(a) /\ Aside(a)
      BY <1>1, <1>2, <2>5, <3>1, <3>2, <3>3 DEF Apart, Aside
    <3>. QED BY <3>3, <3>4, AllInOrder
  <2>7. CASE k \notin FinalOutput
    <3>1. AfterResult(a, k, x.last) /\ UNCHANGED held
      BY <2>1, <2>7
    <3>2. x.last \in BOOLEAN
      BY <1>2 DEF Results
    <3>3. InOrder(a)' /\ Apart(a)
      BY <1>0, <1>1, <1>3, <1>5, <1>7, <2>4, <3>1, <3>2, AfterResultInOrder
    <3>4. Aside(a)
      BY <1>1, <1>2, <2>5, <3>1 DEF Aside
    <3>. QED BY <3>3, <3>4, AllInOrder
  <2>. QED BY <2>6, <2>7
<1>. QED BY <1>9, <1>10

(* A sequence that something was appended to is not empty.                 *)
LEMMA AppendedNotEmpty ==
  ASSUME NEW T, NEW d \in Seq(T), NEW u \in T
  PROVE  Append(d, u) # <<>>
<1>1. Append(d, u) \in Seq(T) /\ Len(Append(d, u)) = Len(d) + 1 /\ Len(d) \in Nat
  BY AppendProperties, LenProperties
<1>2. Len(<<>>) = 0
  OBVIOUS
<1>3. Len(d) + 1 # 0
  BY <1>1
<1>. QED BY <1>1, <1>2, <1>3

(* Async-chunk mode: the first result of stage 0 starts the other stages.  *)
LEMMA OthersSubmitted ==
  ASSUME TypeOK, TypeOK', NEW a \in Requests, NEW k \in Stages, NEW x,
         async_chunk, Takes(a, k, k, x), SubmitOthers(a, k), UNCHANGED tasks,
         \A s \in Stages : Got(a, s, k, x.last)
  PROVE  \A s \in Stages :
           OnlyTasksOf(a, s) /\ Handed(a, s) /\ (Given(a, s) => Given(a, s)')
<1> SUFFICES ASSUME NEW s \in Stages
             PROVE  OnlyTasksOf(a, s) /\ Handed(a, s) /\ (Given(a, s) => Given(a, s)')
  OBVIOUS
<1>0. 0 \in Stages /\ async_chunk' /\ x \in Results
  BY StageConstants DEF Takes
<1>1. /\ received \in [Requests -> [Stages -> Seq(Stages \X (Nat \ {0}))]]
      /\ received[a][0] \in Seq(Stages \X (Nat \ {0}))
      /\ received' = [received EXCEPT ![a][k] = Append(@, <<x.stage, x.n>>)]
  <2>1. received \in [Requests -> [Stages -> Seq(Stages \X (Nat \ {0}))]]
    BY DEF TypeOK
  <2>. QED BY <1>0, <2>1 DEF Takes, Record
<1>2. received'[a][0] = IF k = 0 THEN Append(received[a][0], <<x.stage, x.n>>) ELSE received[a][0]
  BY <1>0, <1>1
<1>3. Append(received[a][0], <<x.stage, x.n>>) # <<>>
  <2>1. <<x.stage, x.n>> \in Stages \X (Nat \ {0})
    BY <1>0 DEF Takes, Results
  <2>. QED BY <1>1, <2>1, AppendedNotEmpty
<1>4. Given(a, s) => Given(a, s)'
  BY <1>0, <1>2, <1>3 DEF Given
<1>5. CASE ~(k = 0 /\ received[a][0] = <<>>)
  <2>1. UNCHANGED in_q
    BY <1>5 DEF SubmitOthers
  <2>. QED BY <1>4, <2>1, NoTasks
<1>6. CASE k = 0 /\ received[a][0] = <<>>
  <2>1. Submit(Stages \ {0}, Generate(a, a))
    BY <1>6 DEF SubmitOthers
  <2>2. Generate(a, a) \in Tasks /\ Generate(a, a).rid = a
    BY TaskTypes
  <2>3. /\ OnlyTasksOf(a, s)
        /\ s \notin Stages \ {0} => in_q'[s] = in_q[s]
        /\ s \in Stages \ {0} /\ tasks' = tasks /\ ~Pending(a, s) => OneTask(a, s)'
    BY <2>1, <2>2, SubmittedTasks
  <2>4. CASE s = 0
    BY <1>4, <2>3, <2>4 DEF Handed
  <2>5. CASE s # 0
    <3>1. ~Given(a, s) /\ Given(a, s)'
      BY <1>0, <1>2, <1>3, <1>6, <2>5 DEF Given
    <3>2. ~Pending(a, s)
      BY <3>1 DEF Got
    <3>. QED BY <1>4, <2>3, <2>5, <3>1, <3>2 DEF Handed
  <2>. QED BY <2>4, <2>5
<1>. QED BY <1>5, <1>6

(* A request that goes on or is complete, without a yield.                 *)
LEMMA MovedOnInOrder ==
  ASSUME TypeOK, TypeOK', Tagged', NEW a \in Requests, NEW k \in Stages, NEW last \in BOOLEAN,
         \A s \in Stages : Got(a, s, k, last) /\ Handed(a, s) /\ (Given(a, s) => Given(a, s)'),
         a \in request_states, Noted(a)', UNCHANGED <<tasks, produced>>,
         \A s \in all_stages_finished'[a] : s \in all_stages_finished[a] \/ (s = k /\ last),
         \/ Complete(a) /\ 0..FinalStage[a] \subseteq all_stages_finished'[a]
         \/ Move(a, "running") /\ UNCHANGED request_states
  PROVE  /\ InOrder(a)'
         /\ \A r \in Requests \ {a} :
              phase'[r] = phase[r] /\ (r \in request_states => r \in request_states')
<1>1. phase \in [Requests -> Phases]
  BY DEF TypeOK
<1>2. \A r \in Requests \ {a} : phase'[r] = phase[r] /\ (r \in request_states => r \in request_states')
  BY <1>1 DEF Complete, Move
<1>3. \/ phase'[a] = "done" /\ 0..FinalStage[a] \subseteq all_stages_finished'[a]
      \/ phase'[a] = "running" /\ request_states' = request_states
  BY <1>1 DEF Complete, Move
<1>4. ASSUME phase'[a] = "running", NEW s \in Stages, Finished(a, s)'
      PROVE  s \in all_stages_finished[a] \/ (s = k /\ last)
  BY <1>4 DEF Finished
<1>5. Proceeds(a, k, last)
  BY <1>3, <1>4 DEF Proceeds, Unadmitted, Serving
<1>. QED BY <1>2, <1>5, ProceedsInOrder

(* Async-chunk mode: a request takes a result of a stage.                  *)
LEMMA TakeChunkInOrder ==
  ASSUME PipelineInv, TypeOK', OrderInv, Tagged', NEW a \in Requests, NEW k \in Stages, TakeChunk(a, k)
  PROVE  \A r \in Requests : InOrder(r)'
<1> DEFINE x == Head(queue[a][k])
<1>0. TypeOK /\ Tagged /\ InOrder(a) /\ 0 \in Stages
  BY StageConstants DEF PipelineInv, OrderInv
<1>1. /\ async_chunk /\ phase[a] = "running" /\ queue[a][k] # <<>> /\ Dequeue(a, k)
      /\ UNCHANGED <<async_chunk, stage_id, out_q, batch, generation_out_q, tasks, produced>>
  BY DEF TakeChunk, workerVars
<1>2. /\ x \in Results /\ x.rid = a /\ x.stage = k
      /\ \A r \in Requests \ {a} : queue'[r] = queue[r]
  BY <1>0, <1>1, TakenFacts
<1>5. phase[a] \in Serving /\ a \in request_states /\ Noted(a)
  BY <1>0, <1>1 DEF InOrder, Serving
<1>7. Noted(a)'
  BY <1>1 DEF Noted
<1>8. /\ phase \in [Requests -> Phases] /\ held \in [Requests -> [stage : Stages, last : BOOLEAN]]
      /\ received \in [Requests -> [Stages -> Seq(Stages \X (Nat \ {0}))]]
      /\ all_stages_finished \in [Requests -> SUBSET Stages]
  BY <1>0 DEF TypeOK
<1>9. CASE IsError(x)
  <2>1. Raise(a)
    BY <1>9 DEF TakeChunk
  <2>2. /\ phase' = [phase EXCEPT ![a] = "failed"]
        /\ UNCHANGED <<all_stages_finished, request_states, held, received, in_q>>
    BY <2>1 DEF Raise, Move
  <2>3. phase'[a] = "failed" /\ \A r \in Requests \ {a} : phase'[r] = phase[r]
    BY <1>8, <2>2
  <2>4. InOrder(a)'
    BY <2>3, EndedInOrder
  <2>5. \A s \in Stages : OnlyTasksOf(a, s)
    BY <2>2, NoTasks
  <2>6. Apart(a) /\ Aside(a)
    BY <1>1, <1>2, <2>2, <2>3, <2>5 DEF Apart, Aside
  <2>. QED BY <2>4, <2>6, AllInOrder
<1>10. CASE ~IsError(x)
  <2>1. /\ Record(a, k, x)
        /\ SubmitOthers(a, k)
        /\ all_stages_finished' = [all_stages_finished EXCEPT ![a] = IF x.last THEN @ \cup {k} ELSE @]
        /\ IF k \in FinalOutput
           THEN Yield(a, k, x) /\ UNCHANGED request_states
           ELSE /\ IF Served(a) THEN Complete(a) ELSE Move(a, "running") /\ UNCHANGED request_states
                /\ UNCHANGED held
    BY <1>10 DEF TakeChunk
  <2> HIDE DEF x
  <2>2. x.n # 0 /\ x.last \in BOOLEAN
    BY <1>2, <1>10 DEF IsError, Results
  <2>3. Takes(a, k, k, x)
    BY <1>1, <1>2, <2>1, <2>2 DEF Takes, x
  <2>4. ASSUME NEW s \in Stages PROVE Got(a, s, k, x.last)
    BY <1>0, <1>5, <2>3, GotTaken
  <2>5. /\ \A r \in Requests \ {a} : received'[r] = received[r]
        /\ \A r \in Requests \ {a} : all_stages_finished'[r] = all_stages_finished[r]
        /\ \A s \in all_stages_finished'[a] : s \in all_stages_finished[a] \/ (s = k /\ x.last)
    BY <1>8, <2>1 DEF Record
  <2>6. ASSUME NEW s \in Stages
        PROVE  OnlyTasksOf(a, s) /\ Handed(a, s) /\ (Given(a, s) => Given(a, s)')
    BY <1>0, <1>1, <2>1, <2>3, <2>4, OthersSubmitted
  <2>7. CASE k \in FinalOutput
    <3>1. Yield(a, k, x) /\ UNCHANGED request_states
      BY <2>1, <2>7
    <3>2. a \in request_states'
      BY <1>5, <3>1
    <3>3. InOrder(a)' /\ \A r \in Requests \ {a} : phase'[r] = phase[r] /\ held'[r] = held[r]
      BY <1>0, <1>1, <1>2, <1>7, <2>4, <2>5, <2>6, <3>1, <3>2, YieldInOrder
    <3>4. Apart(a) /\ Aside(a)
      BY <1>1, <1>2, <2>5, <2>6, <3>1, <3>3 DEF Apart, Aside
    <3>. QED BY <3>3, <3>4, AllInOrder
  <2>8. CASE k \notin FinalOutput
    <3>1. /\ \/ Complete(a) /\ 0..FinalStage[a] \subseteq all_stages_finished'[a]
             \/ Move(a, "running") /\ UNCHANGED request_states
          /\ UNCHANGED held
      BY <2>1, <2>8 DEF Served
    <3>2. /\ InOrder(a)'
          /\ \A r \in Requests \ {a} :
               phase'[r] = phase[r] /\ (r \in request_states => r \in request_states')
      BY <1>0, <1>1, <1>5, <1>7, <2>2, <2>4, <2>5, <2>6, <3>1, MovedOnInOrder
    <3>3. Apart(a) /\ Aside(a)
      BY <1>1, <1>2, <2>5, <2>6, <3>1, <3>2 DEF Apart, Aside
    <3>. QED BY <3>2, <3>3, AllInOrder
  <2>. QED BY <2>7, <2>8
<1>. QED BY <1>9, <1>10

(* The client asks for more.                                               *)
LEMMA ContinueInOrder ==
  ASSUME PipelineInv, TypeOK', OrderInv, Tagged', NEW a \in Requests, Continue(a)
  PROVE  \A r \in Requests : InOrder(r)'
<1> DEFINE k == held[a].stage
           last == held[a].last
<1>0. TypeOK /\ Tagged /\ InOrder(a) /\ 0 \in Stages
  BY StageConstants DEF PipelineInv, OrderInv
<1>1. /\ phase[a] = "yielding"
      /\ UNCHANGED <<async_chunk, held, received, queue, stage_id, out_q, batch, generation_out_q,
                    tasks, produced>>
  BY DEF Continue, handlerVars, workerVars
<1>2. k \in Stages /\ last \in BOOLEAN
  <2>1. held[a] \in [stage : Stages, last : BOOLEAN]
    BY <1>0 DEF TypeOK
  <2>. QED BY <2>1
<1>3. ASSUME NEW s \in Stages PROVE Got(a, s, k, last)
  BY <1>0, <1>1, GotContinued
<1>4. phase[a] \in Serving /\ a \in request_states /\ Noted(a)
  BY <1>0, <1>1 DEF InOrder, Serving
<1>5. Noted(a)'
  BY <1>0, <1>1, <1>4, NotedTaken
<1>6. Aside(a)
  BY <1>1 DEF Aside
<1>7. CASE async_chunk
  <2>1. /\ \/ Complete(a) /\ 0..FinalStage[a] \subseteq all_stages_finished[a]
           \/ Move(a, "running") /\ UNCHANGED request_states
        /\ UNCHANGED <<all_stages_finished, in_q>>
    BY <1>7 DEF Continue
  <2>2. ASSUME NEW s \in Stages
        PROVE  OnlyTasksOf(a, s) /\ Handed(a, s) /\ (Given(a, s) => Given(a, s)')
    <3>1. Given(a, s)' = Given(a, s)
      BY <1>1, <2>1 DEF Given
    <3>. QED BY <2>1, <3>1, NoTasks
  <2>3. /\ \A s \in all_stages_finished'[a] : s \in all_stages_finished[a] \/ (s = k /\ last)
        /\ \/ Complete(a) /\ 0..FinalStage[a] \subseteq all_stages_finished'[a]
           \/ Move(a, "running") /\ UNCHANGED request_states
    BY <2>1
  <2>4. /\ InOrder(a)'
        /\ \A r \in Requests \ {a} :
             phase'[r] = phase[r] /\ (r \in request_states => r \in request_states')
    <3> HIDE DEF k, last
    <3>. QED BY <1>0, <1>1, <1>2, <1>3, <1>4, <1>5, <2>2, <2>3, MovedOnInOrder
  <2>5. Apart(a)
    BY <2>1, <2>2, <2>4 DEF Apart
  <2>. QED BY <1>6, <2>4, <2>5, AllInOrder
<1>8. CASE ~async_chunk
  <2>1. AfterResult(a, k, last)
    BY <1>8 DEF Continue
  <2>2. PICK j \in 0..FinalStage[a] : At(a, j)
    BY <1>1, <1>8 DEF PipelineInv, StagesInOrder, Unfinished
  <2>3. j = k
    BY <1>1, <2>2 DEF At
  <2>4. k \in 0..FinalStage[a] /\ At(a, k)
    BY <2>2, <2>3
  <2>5. InOrder(a)' /\ Apart(a)
    <3> HIDE DEF k, last
    <3>. QED BY <1>0, <1>1, <1>2, <1>3, <1>4, <1>5, <1>8, <2>1, <2>4, AfterResultInOrder
  <2>. QED BY <1>6, <2>5, AllInOrder
<1>. QED BY <1>0, <1>7, <1>8 DEF TypeOK

(* A request is called or wakes up: it waits on or reaches its first stage.*)
LEMMA AdmitInOrder ==
  ASSUME PipelineInv, TypeOK', OrderInv, NEW a \in Requests, phase[a] \in Unadmitted, Admit(a)
  PROVE  \A r \in Requests : InOrder(r)'
<1>0. TypeOK /\ Tagged /\ InOrder(a) /\ 0 \in Stages /\ Fresh(a)
  BY StageConstants DEF PipelineInv, OrderInv, InOrder
<1>1. UNCHANGED <<async_chunk, all_stages_finished, held, received, queue, stage_id, out_q, batch,
                  generation_out_q, tasks, produced>>
  BY DEF Admit, handlerVars, workerVars
<1>2. phase \in [Requests -> Phases]
  BY <1>0 DEF TypeOK
<1>3. Aside(a)
  BY <1>1 DEF Aside
<1>4. ASSUME NEW s \in Stages PROVE Mine(a, s)' = Mine(a, s) /\ Numbers(a, s)' = Numbers(a, s)
  <2>1. Flow(a, s)' = Flow(a, s)
    BY <1>1, FlowStays
  <2>. QED BY <2>1, SeenOf
<1>5. Fresh(a)'
  BY <1>0, <1>1, <1>4 DEF Fresh
<1>6. CASE paused
  <2>1. Move(a, "waiting") /\ UNCHANGED <<request_states, in_q>>
    BY <1>6 DEF Admit
  <2>2. phase'[a] = "waiting" /\ \A r \in Requests \ {a} : phase'[r] = phase[r]
    BY <1>2, <2>1 DEF Move
  <2>3. InOrder(a)'
    BY <1>5, <2>2 DEF InOrder, Serving
  <2>4. \A s \in Stages : OnlyTasksOf(a, s)
    BY <2>1, NoTasks
  <2>5. Apart(a)
    BY <1>1, <2>1, <2>2, <2>4 DEF Apart
  <2>. QED BY <1>3, <2>3, <2>5, AllInOrder
<1>7. CASE ~paused
  <2>1. /\ request_states' = request_states \cup {a}
        /\ Submit({0}, Generate(a, a))
        /\ phase' = [phase EXCEPT ![a] = "running"]
    BY <1>7 DEF Admit, Start, Move
  <2>2. phase'[a] = "running" /\ \A r \in Requests \ {a} : phase'[r] = phase[r]
    BY <1>2, <2>1
  <2>3. Generate(a, a) \in Tasks /\ Generate(a, a).rid = a
    BY TaskTypes
  <2>4. ASSUME NEW s \in Stages
        PROVE  /\ OnlyTasksOf(a, s)
               /\ s \notin {0} => in_q'[s] = in_q[s]
               /\ s \in {0} /\ tasks' = tasks /\ ~Pending(a, s) => OneTask(a, s)'
    BY <1>0, <2>1, <2>3, SubmittedTasks
  <2>5. ASSUME NEW s \in Stages PROVE ServedBy(a, s)'
    <3>1. ~Pending(a, s)
      BY DEF PipelineInv, TaskInv, UnadmittedUnknown, Pending
    <3>2. OneTask(a, s)'
      <4>1. CASE s = 0
        BY <1>1, <2>4, <3>1, <4>1
      <4>2. CASE s # 0
        BY <1>1, <2>4, <3>1, <4>2 DEF OneTask, Pending, MentionedIn
      <4>. QED BY <4>1, <4>2
    <3>3. Mine(a, s)' = <<>> /\ Numbers(a, s)' = <<>> /\ produced'[s][a] = 0 /\ received'[a][s] = <<>>
      BY <1>5 DEF Fresh
    <3>4. LastIsLast(a, s)'
      <4>1. Len(<<>>) = 0 /\ 1..0 = {}
        OBVIOUS
      <4>. QED BY <3>3, <4>1 DEF LastIsLast
    <3>5. InSequence(a, s)'
      <4>1. <<>> \o <<>> = <<>> /\ FirstOutputs(s, 0) = <<>>
        BY DEF FirstOutputs
      <4>. QED BY <3>3, <4>1 DEF InSequence
    <3>6. ~Finished(a, s)'
      BY <1>5, <2>2 DEF Finished, Fresh
    <3>7. ~Given(a, s)' => ~Pending(a, s)'
      <4>1. CASE s = 0
        <5>1. 0..0 - 1 = {}
          OBVIOUS
        <5>. QED BY <4>1, <5>1 DEF Given
      <4>2. CASE s # 0
        BY <1>1, <2>4, <3>1, <4>2 DEF Pending
      <4>. QED BY <4>1, <4>2
    <3>. QED BY <3>2, <3>3, <3>4, <3>5, <3>6, <3>7 DEF ServedBy, Idle
  <2>6. Noted(a)'
    <3>1. queue'[a][0] = <<>>
      BY <1>0, <1>5 DEF Fresh
    <3>2. Elements(<<>>) = {}
      BY DEF Elements
    <3>. QED BY <3>1, <3>2 DEF Noted
  <2>7. InOrder(a)'
    BY <2>1, <2>2, <2>5, <2>6 DEF InOrder, Unadmitted
  <2>8. Apart(a)
    BY <1>1, <2>1, <2>2, <2>4 DEF Apart
  <2>. QED BY <1>3, <2>7, <2>8, AllInOrder
<1>. QED BY <1>6, <1>7

(* The client of a request goes away.                                      *)
LEMMA CancelInOrder ==
  ASSUME PipelineInv, OrderInv, NEW a \in Requests, Cancel(a)
  PROVE  \A r \in Requests : InOrder(r)'
<1>0. TypeOK
  BY DEF PipelineInv
<1>1. UNCHANGED <<async_chunk, all_stages_finished, request_states, held, received, queue, stage_id,
                  out_q, batch, generation_out_q, tasks, produced>>
  BY DEF Cancel, handlerVars, workerVars
<1>2. phase'[a] = "aborted" /\ \A r \in Requests \ {a} : phase'[r] = phase[r]
  <2>1. phase \in [Requests -> Phases]
    BY <1>0 DEF TypeOK
  <2>. QED BY <2>1 DEF Cancel, Move
<1>3. ASSUME NEW s \in Stages PROVE OnlyTasksOf(a, s)
  <2>1. CASE TellStages(a)
    <3>1. Submit(Stages, Abort(a))
      BY <2>1 DEF TellStages
    <3>2. Abort(a) \in Tasks /\ Abort(a).rid = a
      BY TaskTypes
    <3>. QED BY <1>0, <3>1, <3>2, SubmittedTasks
  <2>2. CASE NothingToTell(a)
    <3>1. UNCHANGED in_q
      BY <2>2 DEF NothingToTell
    <3>. QED BY <3>1, NoTasks
  <2>. QED BY <2>1, <2>2 DEF Cancel
<1>4. Apart(a) /\ Aside(a)
  BY <1>1, <1>2, <1>3 DEF Apart, Aside
<1>5. InOrder(a)'
  BY <1>2, EndedInOrder
<1>. QED BY <1>4, <1>5, AllInOrder

(* A pause, a resume, or no step at all.                                   *)
LEMMA PausedInOrder ==
  ASSUME TypeOK, OrderInv, Pause \/ Resume \/ UNCHANGED vars
  PROVE  \A r \in Requests : InOrder(r)'
<1> SUFFICES ASSUME NEW r \in Requests PROVE InOrder(r)'
  OBVIOUS
<1>1. /\ UNCHANGED <<async_chunk, all_stages_finished, request_states, held, received, queue, stage_id,
                    in_q, out_q, batch, generation_out_q, tasks, produced>>
      /\ InOrder(r)
  BY DEF Pause, Resume, vars, requestVars, handlerVars, workerVars, OrderInv
<1>2. phase'[r] = phase[r] \/ (phase[r] \in Unadmitted /\ phase'[r] \in Unadmitted)
  <2>1. phase' = phase \/ NotifyAll
    BY DEF Pause, Resume, vars, requestVars
  <2>2. phase'[r] = phase[r] \/ (phase[r] = "waiting" /\ phase'[r] = "notified")
    BY <2>1 DEF NotifyAll
  <2>. QED BY <2>2 DEF Unadmitted
<1>3. SameRequest(r)
  BY <1>1 DEF SameRequest
<1>4. ASSUME NEW s \in Stages PROVE Calm(r, s)
  <2>1. Flow(r, s)' = Flow(r, s)
    BY <1>1, FlowStays
  <2>2. Mine(r, s)' = Mine(r, s) /\ Numbers(r, s)' = Numbers(r, s)
    BY <2>1, SeenOf
  <2>. QED BY <1>1, <2>2 DEF Calm, OneTask, Pending
<1>5. \A s \in Stages : Trace(r, s)' => Trace(r, s)
  BY <1>1 DEF Trace
<1>6. phase[r] \in Serving => Noted(r)'
  BY <1>1 DEF InOrder, Noted
<1>. QED BY <1>1, <1>2, <1>3, <1>4, <1>5, <1>6, CalmKeeps

-----------------------------------------------------------------------------
(* Results stay in queues of their stage and request.                      *)

(* The queues of the stages and those of the requests.                     *)
StagesTagged ==
  \A s \in Stages :
    /\ \A x \in Elements(out_q[s]) : x.stage = s
    /\ \A x \in Elements(batch[s]) : x.stage = s
    /\ \A x \in Elements(generation_out_q[s]) : x.stage = s
RequestsTagged ==
  \A r \in Requests, s \in Stages : \A x \in Elements(queue[r][s]) :
    x.rid = r /\ (async_chunk => x.stage = s)

(* The steps that touch neither.                                           *)
LEMMA TaggedStays ==
  /\ Tagged <=> StagesTagged /\ RequestsTagged
  /\ StagesTagged /\ UNCHANGED <<out_q, batch, generation_out_q>> => StagesTagged'
  /\ RequestsTagged /\ UNCHANGED <<async_chunk, queue>> => RequestsTagged'
BY DEF Tagged, StagesTagged, RequestsTagged

(* A request takes a result.                                               *)
LEMMA TaggedTaken ==
  ASSUME TypeOK, Tagged, NEW a \in Requests, NEW q \in Stages, queue[a][q] # <<>>, Dequeue(a, q),
         UNCHANGED <<async_chunk, out_q, batch, generation_out_q>>
  PROVE  Tagged'
<1>1. StagesTagged' /\ RequestsTagged
  BY TaggedStays
<1>2. ASSUME NEW r \in Requests, NEW s \in Stages PROVE Elements(queue'[r][s]) \subseteq Elements(queue[r][s])
  <2>1. /\ queue \in [Requests -> [Stages -> Seq(Results)]]
        /\ queue'[r][s] = IF r = a /\ s = q THEN Tail(queue[a][q]) ELSE queue[r][s]
    BY DEF TypeOK, Dequeue
  <2>2. queue[a][q] \in Seq(Results)
    BY <2>1
  <2>3. Elements(Tail(queue[a][q])) \subseteq Elements(queue[a][q])
    BY <2>2, ElementFacts
  <2>. QED BY <2>1, <2>3
<1>3. RequestsTagged'
  BY <1>1, <1>2 DEF RequestsTagged
<1>. QED BY <1>1, <1>3 DEF Tagged, StagesTagged, RequestsTagged

(* The handler hands a result over or drops it.                            *)
LEMMA TaggedCollected ==
  ASSUME TypeOK, Tagged, NEW t \in Stages, Collect(t)
  PROVE  Tagged'
<1> DEFINE x == Head(out_q[t])
<1>1. /\ x \in Results /\ x.stage = t /\ out_q[t] # <<>>
      /\ out_q' = [out_q EXCEPT ![t] = Tail(@)]
      /\ UNCHANGED <<async_chunk, requestVars, in_q, workerVars>>
  BY CollectFacts
<1>2. \A r \in Requests, s \in Stages :
        queue'[r][s] = IF r = x.rid /\ r \in request_states /\ s = (IF async_chunk THEN t ELSE 0)
                       THEN Append(queue[r][s], x) ELSE queue[r][s]
  BY CollectFacts
<1>3. StagesTagged /\ RequestsTagged
  BY TaggedStays
<1> HIDE DEF x
<1>4. StagesTagged'
  <2>1. ASSUME NEW s \in Stages PROVE Elements(out_q'[s]) \subseteq Elements(out_q[s])
    <3>1. out_q'[s] = (IF s = t THEN Tail(out_q[s]) ELSE out_q[s]) /\ out_q[s] \in Seq(Results)
      BY <1>1 DEF TypeOK
    <3>2. out_q[s] # <<>> => Elements(Tail(out_q[s])) \subseteq Elements(out_q[s])
      BY <3>1, ElementFacts
    <3>. QED BY <1>1, <3>1, <3>2
  <2>. QED BY <1>1, <1>3, <2>1 DEF StagesTagged, workerVars
<1>5. RequestsTagged'
  <2>1. ASSUME NEW r \in Requests, NEW s \in Stages, NEW y \in Elements(queue'[r][s])
        PROVE  y.rid = r /\ (async_chunk => y.stage = s)
    <3>1. queue[r][s] \in Seq(Results)
      BY DEF TypeOK
    <3>2. Elements(Append(queue[r][s], x)) = Elements(queue[r][s]) \cup {x}
      BY <1>1, <3>1, ElementsAppend
    <3>3. y \in Elements(queue[r][s]) \/ (y = x /\ r = x.rid /\ s = (IF async_chunk THEN t ELSE 0))
      BY <1>2, <2>1, <3>2
    <3>. QED BY <1>1, <1>3, <3>3 DEF RequestsTagged
  <2>. QED BY <1>1, <2>1 DEF RequestsTagged
<1>. QED BY <1>4, <1>5 DEF Tagged, StagesTagged, RequestsTagged

(* A round collects the outputs of the stage, and sends them.              *)
LEMMA TaggedMoved ==
  ASSUME TypeOK, Tagged, NEW t \in Stages, Round(t) \/ Send(t)
  PROVE  Tagged'
<1>1. StagesTagged /\ RequestsTagged
  BY TaggedStays
<1>2. RequestsTagged'
  BY <1>1, TaggedStays DEF Round, Send, handlerVars
<1>3. ASSUME NEW s \in Stages
      PROVE  /\ \A x \in Elements(out_q'[s]) : x.stage = s
             /\ \A x \in Elements(batch'[s]) : x.stage = s
             /\ \A x \in Elements(generation_out_q'[s]) : x.stage = s
  <2>1. /\ out_q[s] \in Seq(Results) /\ batch[s] \in Seq(Results)
        /\ Elements(<<>>) = {}
    BY DEF TypeOK, Elements
  <2>2. Elements(out_q[s] \o batch[s]) = Elements(out_q[s]) \cup Elements(batch[s])
    BY <2>1, ElementsOfTwo
  <2>3. CASE Round(t)
    <3>1. /\ out_q'[s] = out_q[s]
          /\ batch'[s] = batch[s] \/ batch'[s] = generation_out_q[s]
          /\ generation_out_q'[s] = generation_out_q[s] \/ generation_out_q'[s] = <<>>
      BY <2>3 DEF Round, TypeOK
    <3>. QED BY <1>1, <2>1, <3>1 DEF StagesTagged
  <2>4. CASE Send(t)
    <3>1. /\ out_q'[s] = out_q[s] \/ out_q'[s] = out_q[s] \o batch[s]
          /\ batch'[s] = batch[s] \/ batch'[s] = <<>>
          /\ UNCHANGED generation_out_q
      BY <2>4 DEF Send, TypeOK
    <3>. QED BY <1>1, <2>1, <2>2, <3>1 DEF StagesTagged
  <2>. QED BY <2>3, <2>4
<1>4. StagesTagged'
  BY <1>3 DEF StagesTagged
<1>. QED BY <1>2, <1>4 DEF Tagged, StagesTagged, RequestsTagged

(* A result is put into a queue of its stage.                              *)
LEMMA TaggedPut ==
  ASSUME NEW s, NEW q \in Seq(Results), \A x \in Elements(q) : x.stage = s,
         NEW e \in Results, e.stage = s
  PROVE  \A x \in Elements(Append(q, e)) : x.stage = s
<1>1. Elements(Append(q, e)) = Elements(q) \cup {e}
  BY ElementsAppend
<1>. QED BY <1>1

(* An engine yields an output or raises.                                   *)
LEMMA TaggedYielded ==
  ASSUME TypeOK, Tagged, NEW t \in Stages, NEW a \in Requests, Output(t, a) \/ Fail(t, a)
  PROVE  Tagged'
<1>1. StagesTagged /\ RequestsTagged
  BY TaggedStays
<1>2. RequestsTagged'
  BY <1>1, TaggedStays DEF Output, Fail, handlerVars
<1>3. CASE Output(t, a)
  <2>1. PICK last \in BOOLEAN :
          generation_out_q' = [generation_out_q EXCEPT ![t] = Append(@, Result(a, t, produced[t][a] + 1, last))]
    BY <1>3 DEF Output
  <2> DEFINE x == Result(a, t, produced[t][a] + 1, last)
  <2>2. x \in Results /\ x.stage = t
    <3>1. produced[t][a] \in Nat
      BY DEF TypeOK
    <3> DEFINE n == produced[t][a] + 1
    <3>2. n \in Nat
      BY <3>1
    <3> HIDE DEF n
    <3>3. Result(a, t, n, last) \in Results
      BY <3>2 DEF Result, Results
    <3>. QED BY <3>3 DEF Result, n
  <2>3. generation_out_q' = [generation_out_q EXCEPT ![t] = Append(@, x)]
    BY <2>1
  <2> HIDE DEF x
  <2>4. ASSUME NEW s \in Stages PROVE \A y \in Elements(generation_out_q'[s]) : y.stage = s
    <3>1. /\ generation_out_q[s] \in Seq(Results)
          /\ generation_out_q'[s] = IF s = t THEN Append(generation_out_q[s], x) ELSE generation_out_q[s]
      BY <2>3 DEF TypeOK
    <3>2. s = t => \A y \in Elements(Append(generation_out_q[s], x)) : y.stage = s
      BY <1>1, <2>2, <3>1, TaggedPut DEF StagesTagged
    <3>. QED BY <1>1, <3>1, <3>2 DEF StagesTagged
  <2>5. StagesTagged'
    BY <1>1, <1>3, <2>4 DEF StagesTagged, Output
  <2>. QED BY <1>2, <2>5 DEF Tagged, StagesTagged, RequestsTagged
<1>4. CASE Fail(t, a)
  <2> DEFINE x == Error(a, t)
  <2>1. out_q' = [out_q EXCEPT ![t] = Append(@, x)] /\ UNCHANGED <<batch, generation_out_q>>
    BY <1>4 DEF Fail
  <2>2. x \in Results /\ x.stage = t
    BY DEF Error, Result, Results
  <2> HIDE DEF x
  <2>4. ASSUME NEW s \in Stages PROVE \A y \in Elements(out_q'[s]) : y.stage = s
    <3>1. /\ out_q[s] \in Seq(Results)
          /\ out_q'[s] = IF s = t THEN Append(out_q[s], x) ELSE out_q[s]
      BY <2>1 DEF TypeOK
    <3>2. s = t => \A y \in Elements(Append(out_q[s], x)) : y.stage = s
      BY <1>1, <2>2, <3>1, TaggedPut DEF StagesTagged
    <3>. QED BY <1>1, <3>1, <3>2 DEF StagesTagged
  <2>5. StagesTagged'
    BY <1>1, <2>1, <2>4 DEF StagesTagged
  <2>. QED BY <1>2, <2>5 DEF Tagged, StagesTagged, RequestsTagged
<1>. QED BY <1>3, <1>4

-----------------------------------------------------------------------------
(* The order of outputs and the agreement on stages.                       *)

(* No request was admitted and nothing is on its way.                      *)
LEMMA OrderInit == Init => OrderInv
<1> SUFFICES ASSUME Init PROVE OrderInv
  OBVIOUS
<1>0. TypeOK
  BY InitInv DEF PipelineInv
<1>1. Elements(<<>>) = {}
  BY DEF Elements
<1>2. ASSUME NEW r \in Requests, NEW s \in Stages
      PROVE  /\ queue[r][s] = <<>> /\ out_q[s] = <<>> /\ batch[s] = <<>> /\ generation_out_q[s] = <<>>
             /\ Queued(r, s) = <<>> /\ produced[s][r] = 0 /\ received[r][s] = <<>>
  BY StageConstants DEF Init, Queued
<1>3. Tagged
  <2>1. \A s \in Stages : out_q[s] = <<>> /\ batch[s] = <<>> /\ generation_out_q[s] = <<>>
    BY DEF Init
  <2>. QED BY <1>1, <1>2, <2>1 DEF Tagged
<1>4. ASSUME NEW r \in Requests PROVE InOrder(r)
  <2>1. ASSUME NEW s \in Stages PROVE Mine(r, s) = <<>> /\ Numbers(r, s) = <<>>
    <3>1. Flow(r, s) = <<>>
      <4>1. <<>> \o <<>> = <<>>
        OBVIOUS
      <4>. QED BY <1>2, <4>1 DEF Flow
    <3>2. Mapped(Of(r, s), <<>>) = <<>> /\ Mapped(NumbersOf(r, s), <<>>) = <<>>
      BY MappedEmpty
    <3>. QED BY <3>1, <3>2 DEF Mine, Numbers
  <2>2. phase[r] = "new" /\ all_stages_finished[r] = {}
    BY DEF Init
  <2>3. Fresh(r)
    BY <1>2, <2>1, <2>2 DEF Fresh
  <2>. QED BY <2>2, <2>3 DEF InOrder, Serving
<1>. QED BY <1>3, <1>4 DEF OrderInv

(* Every step keeps results in queues of their stage and request.          *)
LEMMA TaggedNext ==
  ASSUME TypeOK, Tagged, [Next]_vars
  PROVE  Tagged'
<1>1. ASSUME UNCHANGED <<async_chunk, queue, out_q, batch, generation_out_q>> PROVE Tagged'
  BY <1>1, TaggedStays DEF Tagged, StagesTagged, RequestsTagged
<1>2. CASE Pause \/ Resume \/ UNCHANGED vars
  BY <1>1, <1>2 DEF Pause, Resume, vars, handlerVars, workerVars
<1>3. ASSUME NEW r \in Requests, Call(r) \/ Wake(r) \/ Cancel(r) \/ Continue(r) PROVE Tagged'
  BY <1>1, <1>3 DEF Call, Wake, Admit, Cancel, Continue, handlerVars, workerVars
<1>4. ASSUME NEW s \in Stages, NEW r \in Requests, AbortTask(s, r) PROVE Tagged'
  BY <1>1, <1>4 DEF AbortTask, handlerVars
<1>5. ASSUME NEW r \in Requests, TakeSequential(r) PROVE Tagged'
  <2>1. /\ queue[r][0] # <<>> /\ Dequeue(r, 0)
        /\ UNCHANGED <<async_chunk, out_q, batch, generation_out_q>>
    BY <1>5 DEF TakeSequential, workerVars
  <2>. QED BY <2>1, StageConstants, TaggedTaken
<1>6. ASSUME NEW r \in Requests, NEW s \in Stages, TakeChunk(r, s) PROVE Tagged'
  <2>1. /\ queue[r][s] # <<>> /\ Dequeue(r, s)
        /\ UNCHANGED <<async_chunk, out_q, batch, generation_out_q>>
    BY <1>6 DEF TakeChunk, workerVars
  <2>. QED BY <2>1, TaggedTaken
<1>7. ASSUME NEW s \in Stages, Collect(s) \/ Round(s) \/ Send(s) PROVE Tagged'
  BY <1>7, TaggedCollected, TaggedMoved
<1>8. ASSUME NEW s \in Stages, NEW r \in Requests, Output(s, r) \/ Fail(s, r) PROVE Tagged'
  BY <1>8, TaggedYielded
<1>9. CASE Progress
  BY <1>3, <1>4, <1>5, <1>6, <1>7, <1>8, <1>9 DEF Progress, Advance, Serve
<1>. QED BY <1>2, <1>3, <1>8, <1>9 DEF Next

(* And every request in order.                                             *)
LEMMA OrderNext ==
  ASSUME PipelineInv, PipelineInv', OrderInv, [Next]_vars
  PROVE  OrderInv'
<1>0. TypeOK /\ TypeOK' /\ Tagged
  BY DEF PipelineInv, OrderInv
<1>1. Tagged'
  BY <1>0, TaggedNext
<1> SUFFICES \A r \in Requests : InOrder(r)'
  BY <1>1 DEF OrderInv
<1>2. CASE Pause \/ Resume \/ UNCHANGED vars
  BY <1>0, <1>2, PausedInOrder
<1>3. ASSUME NEW a \in Requests, Call(a) \/ Wake(a) PROVE \A r \in Requests : InOrder(r)'
  <2>1. phase[a] \in Unadmitted /\ Admit(a)
    BY <1>3 DEF Call, Wake, Unadmitted
  <2>. QED BY <1>0, <2>1, AdmitInOrder
<1>4. ASSUME NEW a \in Requests, Cancel(a) PROVE \A r \in Requests : InOrder(r)'
  BY <1>4, CancelInOrder
<1>5. ASSUME NEW a \in Requests, TakeSequential(a) PROVE \A r \in Requests : InOrder(r)'
  BY <1>0, <1>1, <1>5, TakeSequentialInOrder
<1>6. ASSUME NEW a \in Requests, NEW s \in Stages, TakeChunk(a, s) PROVE \A r \in Requests : InOrder(r)'
  BY <1>0, <1>1, <1>6, TakeChunkInOrder
<1>7. ASSUME NEW a \in Requests, Continue(a) PROVE \A r \in Requests : InOrder(r)'
  BY <1>0, <1>1, <1>7, ContinueInOrder
<1>8. ASSUME NEW s \in Stages, Collect(s) PROVE \A r \in Requests : InOrder(r)'
  BY <1>0, <1>8, CollectedInOrder
<1>9. ASSUME NEW s \in Stages, Round(s) \/ Send(s) PROVE \A r \in Requests : InOrder(r)'
  BY <1>0, <1>9, MovedInOrder
<1>10. ASSUME NEW s \in Stages, NEW a \in Requests, Output(s, a) PROVE \A r \in Requests : InOrder(r)'
  BY <1>0, <1>10, OutputInOrder
<1>11. ASSUME NEW s \in Stages, NEW a \in Requests, AbortTask(s, a) PROVE \A r \in Requests : InOrder(r)'
  BY <1>0, <1>11, AbortedInOrder
<1>12. ASSUME NEW s \in Stages, NEW a \in Requests, Fail(s, a) PROVE \A r \in Requests : InOrder(r)'
  BY <1>0, <1>12, FailInOrder
<1>13. CASE Progress
  BY <1>3, <1>5, <1>6, <1>7, <1>8, <1>9, <1>10, <1>11, <1>13 DEF Progress, Advance, Serve
<1>. QED BY <1>2, <1>3, <1>4, <1>12, <1>13 DEF Next

(* The invariant of both.                                                  *)
LEMMA OrderInvariant == Spec => [](PipelineInv /\ OrderInv)
<1>1. Init => PipelineInv /\ OrderInv
  BY InitInv, OrderInit
<1>2. PipelineInv /\ OrderInv /\ [Next]_vars => (PipelineInv /\ OrderInv)'
  BY NextInv, OrderNext
<1>. QED BY <1>1, <1>2, PTL DEF Spec, Safety

(* Through the four queues between an engine and generate(), for any       *)
(* number of stages and requests: while a request is served, what it       *)
(* processed of a stage followed by what is on its way is what the engine  *)
(* yielded, in that order, and when it is complete nothing of it is left   *)
(* in any process.                                                         *)
THEOREM OutputsKeepOrder == Spec => []OutputsInOrder
<1>1. ASSUME PipelineInv, OrderInv PROVE OutputsInOrder
  <2>0. TypeOK
    BY <1>1 DEF PipelineInv
  <2>1. ASSUME NEW r \in Requests, NEW s \in Stages, phase[r] \in Serving
        PROVE  received[r][s] \o Outputs(r, s, Queued(r, s) \o out_q[s] \o batch[s] \o generation_out_q[s])
                 = [i \in 1..produced[s][r] |-> <<s, i>>]
    <3>1. InSequence(r, s)
      BY <1>1, <2>1 DEF OrderInv, InOrder, ServedBy
    <3>2. Flow(r, s) \in Seq(Results)
      BY <2>0, FlowTypes
    <3>3. Outputs(r, s, Flow(r, s)) = Numbers(r, s)
      BY <3>2, Views DEF Numbers
    <3>. QED BY <3>1, <3>3 DEF InSequence, FirstOutputs, Flow
  <2>2. DoneIsQuiet
    BY <1>1 DEF OrderInv, InOrder, DoneIsQuiet, Trace
  <2>. QED BY <2>1, <2>2 DEF OutputsInOrder
<1>. QED BY <1>1, OrderInvariant, PTL

(* The assertion of _process_sequential_results never fires: although the  *)
(* handler overwrites the noted stage with every result it hands over, a   *)
(* request takes results of the stage it is at only.                       *)
THEOREM StagesAgree == Spec => []StageAgrees
<1>1. ASSUME PipelineInv, OrderInv PROVE StageAgrees
  <2> SUFFICES ASSUME NEW r \in Requests, ~async_chunk, phase[r] = "running", queue[r][0] # <<>>
               PROVE  stage_id[r] = Current(r) /\ Head(queue[r][0]).stage = Current(r)
    BY DEF StageAgrees
  <2> DEFINE x == Head(queue[r][0])
  <2>1. TypeOK /\ Tagged /\ InOrder(r) /\ 0 \in Stages
    BY <1>1, StageConstants DEF PipelineInv, OrderInv
  <2>2. x \in Elements(queue[r][0])
    <3>1. queue[r][0] \in Seq(Results)
      BY <2>1 DEF TypeOK
    <3>. QED BY <3>1, ElementFacts
  <2>3. phase[r] \in Serving /\ Noted(r)
    BY <2>1 DEF InOrder, Serving
  <2>4. x.stage = stage_id[r]
    BY <2>2, <2>3 DEF Noted
  <2>5. PICK k \in 0..FinalStage[r] : At(r, k)
    BY <1>1 DEF PipelineInv, StagesInOrder, Unfinished
  <2>6. k \in Stages /\ Current(r) = k
    BY <2>5, StageConstants, CurrentIs DEF At
  <2> HIDE DEF x
  <2>7. Queued(r, 0) = queue[r][0] /\ Queued(r, x.stage) = queue[r][0]
    BY DEF Queued
  <2>8. x \in Results /\ x.rid = r /\ x.stage \in Stages
    <3>1. x \in Results /\ x.rid = r
      BY <2>1, <2>2, <2>7, IdleQuiet
    <3>. QED BY <3>1 DEF Results
  <2>9. ~Idle(r, x.stage)
    BY <2>1, <2>2, <2>7, <2>8, IdleQuiet DEF Idle
  <2>10. x.stage = k
    BY <2>1, <2>3, <2>5, <2>6, <2>8, <2>9, OnlyAt
  <2>. QED BY <2>4, <2>6, <2>10 DEF x
<1>. QED BY <1>1, OrderInvariant, PTL

=============================================================================
