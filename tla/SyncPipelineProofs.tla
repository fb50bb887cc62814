------------------------- MODULE SyncPipelineProofs -------------------------
(***************************************************************************)
(* SyncPipeline for any requests, stages, batch sizes and faults.  The     *)
(* inductive invariant says where each request is and which outputs its    *)
(* caller has had by then (WhereInv), what tasks, results and payloads     *)
(* hold (TasksInv, ResultsInv, StoreInv), and what the loop has in hand    *)
(* (LoopInv).                                                              *)
(***************************************************************************)
EXTENDS SyncPipeline, SequenceLemmas

-----------------------------------------------------------------------------
(* The requests a queue or a batch is about; each of them once.            *)
Named(q) == {e.request_id : e \in Elements(q)} \ {NoRequest}
OnceIn(q) ==
  \A i, j \in 1..Len(q) : q[i].request_id = q[j].request_id /\ q[i].request_id # NoRequest => i = j

(* Where a request may be: in a task, a batch or a result of a stage, or,  *)
(* with its output yielded, in the hands of the caller.                    *)
Kinds == {"task", "batch", "result", "yielded"}
Held(r, k, s) ==
  \/ k = "task" /\ r \in Named(in_q[s])
  \/ k = "batch" /\ r \in Named(batch_tasks[s])
  \/ k = "result" /\ r \in Named(out_q[s])
  \/ k = "yielded" /\ r = current.request_id /\ s = current.stage
Nowhere(r) == \A k \in Kinds, s \in Stages : ~Held(r, k, s)

(* A request that is nowhere any more, without a fault, was counted.       *)
Counted(r) == r <= seeded /\ r \notin dropped /\ Nowhere(r)

(* The last stage whose output, if it has one, was yielded.                *)
UpTo(k, s) == IF k = "yielded" THEN s ELSE s - 1
HasHad(r, m) == StagesYielded(r) = FinalOutput \cap 0..m

WhereInv(r) ==
  /\ \A k, l \in Kinds, s, t \in Stages : Held(r, k, s) /\ Held(r, l, t) => k = l /\ s = t
  /\ \A k \in Kinds, s \in Stages :
       Held(r, k, s) => /\ r <= seeded /\ r \notin dropped
                        /\ s <= FinalStage[r] /\ HasHad(r, UpTo(k, s))
  /\ r \in dropped => r <= seeded
  /\ r > seeded => HasHad(r, -1)
  /\ Counted(r) => HasHad(r, FinalStage[r])
  /\ \E m \in -1..FinalStage[r] : HasHad(r, m)

CountInv == completed_requests = Cardinality({r \in Requests : Counted(r)})

OnceInv == \A s \in Stages : OnceIn(in_q[s]) /\ OnceIn(batch_tasks[s]) /\ OnceIn(out_q[s])

(* Tasks hold or announce the data of their own request, and so do         *)
(* results; control messages are about no request.                         *)
Message(s, r) == [to |-> s, request_id |-> r, inputs |-> <<r>>]
GenerateOk(t, s) ==
  /\ t.type = "generate" /\ t.request_id \in Requests
  /\ IF t.from_connector THEN Message(s, t.request_id) \in store ELSE t.inputs = <<t.request_id>>
ControlOk(t) == t.type # "generate" /\ t.request_id = NoRequest /\ ~t.from_connector

TasksInv ==
  \A s \in Stages :
    /\ \A t \in Elements(in_q[s]) : GenerateOk(t, s) \/ ControlOk(t)
    /\ \A t \in Elements(batch_tasks[s]) : GenerateOk(t, s)

ResultOk(m) ==
  IF m.type \in {"result", "error"}
  THEN m.request_id \in Requests /\ (m.type = "result" => m.outputs = <<m.request_id>>)
  ELSE m.request_id = NoRequest
ResultsInv == \A s \in Stages : \A m \in Elements(out_q[s]) : ResultOk(m)

(* A payload is of its request, and somebody will ask for it.              *)
Asks(r, s) ==
  \E t \in Elements(in_q[s]) \cup Elements(batch_tasks[s]) : t.from_connector /\ t.request_id = r
StoreInv ==
  \A p \in store : p.inputs = <<p.request_id>> /\ (worker[p.to] # "dead" => Asks(p.request_id, p.to))

(* What the loop has in hand, and what the caller has.                     *)
LoopInv ==
  /\ loop = "seeding" => seeded < NumRequests
  /\ loop # "seeding" => seeded = NumRequests
  /\ loop \in {"yielded", "profiling"} <=> current.request_id # NoRequest
  /\ current.request_id # NoRequest =>
       current.stage \in FinalOutput /\ engine_outputs[current.stage] = <<current.request_id>>
  /\ loop \in {"profiling", "stopping", "joining"} => at < NumStages
  /\ loop = "returned" => completed_requests = NumRequests

YieldedInv ==
  /\ \A i \in DOMAIN yielded : yielded[i].outputs = <<yielded[i].request_id>>
  /\ \A i, j \in DOMAIN yielded :
       i < j /\ yielded[i].request_id = yielded[j].request_id => yielded[i].stage < yielded[j].stage

(* All about the requests.                                                 *)
RequestsInv ==
  /\ (\A r \in Requests : WhereInv(r)) /\ CountInv /\ OnceInv
  /\ TasksInv /\ ResultsInv /\ StoreInv /\ YieldedInv

(* The types, and that a batch which is filled has room.                   *)
LoopTypes ==
  /\ loop \in {"seeding", "running", "yielded", "profiling", "returned", "closing",
               "stopping", "joining", "closed"}
  /\ seeded \in 0..NumRequests /\ at \in 0..NumStages
  /\ current \in [stage : Stages, request_id : Requests \cup {NoRequest}]
  /\ engine_outputs \in [Stages -> Seq(Requests)]
  /\ yielded \in Seq([stage : Stages, request_id : Requests, outputs : Seq(Requests)])
  /\ dropped \subseteq Requests
  /\ faults \in 0..MaxFaults /\ profiles \in 0..MaxProfiles
QueueTypes ==
  /\ in_q \in [Stages -> Seq(TaskType)] /\ out_q \in [Stages -> Seq(ResultType)]
  /\ store \subseteq [to : Stages, request_id : Requests, inputs : Seq(Requests)]
BatchOk(w, b) ==
  /\ w \in {"filling", "full"} => Len(b) \in 1..MaxBatchSize
  /\ w \in {"starting", "idle", "exited", "dead"} => b = <<>>
  /\ w = "filling" => Len(b) < MaxBatchSize
WorkerTypes ==
  /\ worker \in [Stages -> {"starting", "idle", "filling", "full", "exited", "dead", "terminated"}]
  /\ batch_tasks \in [Stages -> Seq(TaskType)]
  /\ \A s \in Stages : BatchOk(worker[s], batch_tasks[s])

SyncInv == LoopTypes /\ QueueTypes /\ WorkerTypes /\ LoopInv /\ RequestsInv

-----------------------------------------------------------------------------
(* Queues: the requests they are about.                                    *)

(* Membership.                                                             *)
LEMMA NamedIn ==
  ASSUME NEW q, NEW r
  PROVE  r \in Named(q) <=> r # NoRequest /\ \E i \in 1..Len(q) : q[i].request_id = r
BY DEF Named, Elements

(* One more at the end.                                                    *)
LEMMA NamedAppend ==
  ASSUME NEW T, NEW q \in Seq(T), NEW e \in T
  PROVE  /\ Append(q, e) \in Seq(T)
         /\ Elements(Append(q, e)) = Elements(q) \cup {e}
         /\ Named(Append(q, e)) = Named(q) \cup ({e.request_id} \ {NoRequest})
         /\ OnceIn(q) /\ e.request_id \notin Named(q) => OnceIn(Append(q, e))
<1> DEFINE a == Append(q, e)
           n == Len(q)
<1>1. /\ a \in Seq(T) /\ n \in Nat /\ Len(a) = n + 1
      /\ \A i \in 1..n : a[i] = q[i]
      /\ a[n + 1] = e
  BY AppendProperties, LenProperties
<1>2. Elements(a) = Elements(q) \cup {e}
  BY ElementsAppend
<1> HIDE DEF a
<1>3. Named(a) = Named(q) \cup ({e.request_id} \ {NoRequest})
  BY <1>2 DEF Named
<1>4. ASSUME OnceIn(q), e.request_id \notin Named(q)
      PROVE  OnceIn(a)
  <2> SUFFICES ASSUME NEW i \in 1..Len(a), NEW j \in 1..Len(a),
                      a[i].request_id = a[j].request_id, a[i].request_id # NoRequest
               PROVE  i = j
    BY DEF OnceIn
  <2>1. \A k \in 1..n : q[k].request_id # NoRequest => q[k].request_id # e.request_id
    BY <1>4, NamedIn
  <2>2. i \in 1..n \/ i = n + 1
    BY <1>1
  <2>3. j \in 1..n \/ j = n + 1
    BY <1>1
  <2>4. CASE i \in 1..n /\ j \in 1..n
    BY <1>1, <1>4, <2>4 DEF OnceIn
  <2>5. CASE i \in 1..n /\ j = n + 1
    BY <1>1, <2>1, <2>5
  <2>6. CASE i = n + 1 /\ j \in 1..n
    BY <1>1, <2>1, <2>6
  <2> QED BY <2>2, <2>3, <2>4, <2>5, <2>6
<1> QED BY <1>1, <1>2, <1>3, <1>4 DEF a

(* Without the first.                                                      *)
LEMMA NamedTail ==
  ASSUME NEW T, NEW q \in Seq(T), q # <<>>
  PROVE  /\ Tail(q) \in Seq(T) /\ Head(q) \in T /\ Head(q) \in Elements(q)
         /\ Elements(q) = {Head(q)} \cup Elements(Tail(q))
         /\ Named(q) = ({Head(q).request_id} \ {NoRequest}) \cup Named(Tail(q))
         /\ OnceIn(q) => OnceIn(Tail(q)) /\ Head(q).request_id \notin Named(Tail(q))
<1> DEFINE t == Tail(q)
           h == Head(q)
<1>1. /\ t \in Seq(T) /\ h \in T /\ h = q[1] /\ Len(q) \in Nat /\ Len(q) > 0 /\ Len(t) = Len(q) - 1
      /\ \A i \in 1..Len(t) : t[i] = q[i + 1]
  BY HeadTailProperties, LenProperties, EmptySeq
<1>2. h \in Elements(q) /\ Elements(q) = {h} \cup Elements(t)
  BY ElementsTail
<1> HIDE DEF t, h
<1>3. Named(q) = ({h.request_id} \ {NoRequest}) \cup Named(t)
  BY <1>2 DEF Named
<1>4. \A i \in 1..Len(t) : i + 1 \in 1..Len(q) /\ i + 1 # 1
  BY <1>1
<1>5. 1 \in 1..Len(q)
  BY <1>1
<1>6. OnceIn(q) => OnceIn(t)
  <2> SUFFICES ASSUME OnceIn(q), NEW i \in 1..Len(t), NEW j \in 1..Len(t),
                      t[i].request_id = t[j].request_id, t[i].request_id # NoRequest
               PROVE  i = j
    BY DEF OnceIn
  <2>1. i + 1 = j + 1
    BY <1>1, <1>4 DEF OnceIn
  <2> QED BY <2>1
<1>7. OnceIn(q) => h.request_id \notin Named(t)
  <2> SUFFICES ASSUME OnceIn(q), NEW i \in 1..Len(t), t[i].request_id = h.request_id,
                      h.request_id # NoRequest
               PROVE  FALSE
    BY NamedIn
  <2> QED BY <1>1, <1>4, <1>5 DEF OnceIn
<1> QED BY <1>1, <1>2, <1>3, <1>6, <1>7 DEF t, h

(* Two queues one after the other.                                         *)
LEMMA NamedConcat ==
  ASSUME NEW T, NEW q \in Seq(T), NEW p \in Seq(T)
  PROVE  /\ q \o p \in Seq(T)
         /\ Elements(q \o p) = Elements(q) \cup Elements(p)
         /\ Named(q \o p) = Named(q) \cup Named(p)
         /\ OnceIn(q) /\ OnceIn(p) /\ Named(q) \cap Named(p) = {} => OnceIn(q \o p)
<1> DEFINE c == q \o p
           n == Len(q)
<1>1. /\ c \in Seq(T) /\ n \in Nat /\ Len(p) \in Nat /\ Len(c) = n + Len(p)
      /\ \A i \in 1..n : c[i] = q[i]
      /\ \A i \in n + 1..Len(c) : c[i] = p[i - n]
  BY ConcatProperties, LenProperties
<1>2. Elements(c) = Elements(q) \cup Elements(p)
  BY ElementsConcat
<1> HIDE DEF c
<1>3. Named(c) = Named(q) \cup Named(p)
  BY <1>2 DEF Named
<1>4. ASSUME OnceIn(q), OnceIn(p), Named(q) \cap Named(p) = {}
      PROVE  OnceIn(c)
  <2> SUFFICES ASSUME NEW i \in 1..Len(c), NEW j \in 1..Len(c),
                      c[i].request_id = c[j].request_id, c[i].request_id # NoRequest
               PROVE  i = j
    BY DEF OnceIn
  <2>1. \A k \in 1..Len(c) : k \in 1..n \/ (k \in n + 1..Len(c) /\ k - n \in 1..Len(p))
    BY <1>1
  <2>2. \A k \in 1..n, l \in 1..Len(p) :
          q[k].request_id # NoRequest => q[k].request_id # p[l].request_id
    BY <1>4, NamedIn
  <2>3. CASE i \in 1..n /\ j \in 1..n
    BY <1>1, <1>4, <2>3 DEF OnceIn
  <2>4. CASE i \notin 1..n /\ j \notin 1..n
    <3>1. i - n \in 1..Len(p) /\ j - n \in 1..Len(p) /\ c[i] = p[i - n] /\ c[j] = p[j - n]
      BY <1>1, <2>1, <2>4
    <3>2. i - n = j - n
      BY <1>4, <3>1 DEF OnceIn
    <3> QED BY <1>1, <3>2
  <2>5. CASE i \in 1..n /\ j \notin 1..n
    <3>1. j - n \in 1..Len(p) /\ c[j] = p[j - n] /\ c[i] = q[i]
      BY <1>1, <2>1, <2>5
    <3> QED BY <2>2, <2>5, <3>1
  <2>6. CASE i \notin 1..n /\ j \in 1..n
    <3>1. i - n \in 1..Len(p) /\ c[i] = p[i - n] /\ c[j] = q[j]
      BY <1>1, <2>1, <2>6
    <3> QED BY <2>2, <2>6, <3>1
  <2> QED BY <2>3, <2>4, <2>5, <2>6
<1> QED BY <1>1, <1>2, <1>3, <1>4 DEF c

-----------------------------------------------------------------------------
(* Where a request is before and after a step.                             *)

(* Types of the bounds.                                                    *)
LEMMA BoundTypes ==
  /\ 0 \in Stages /\ Stages \subseteq Nat /\ Requests \subseteq Nat /\ NumStages \in Nat
  /\ NoRequest \notin Requests /\ NumRequests \in Nat /\ NumRequests > 0
  /\ \A s \in Stages : s + 1 <= NumStages /\ (s + 1 < NumStages => s + 1 \in Stages)
  /\ \A s \in 0..NumStages : s < NumStages => s \in Stages
  /\ \A r \in Requests : FinalStage[r] \in Stages /\ r <= NumRequests /\ r > 0
BY SyncAssumption DEF Stages, Requests, NoRequest

(* A request that the step does not touch.                                 *)
LEMMA SameWhere ==
  ASSUME NEW r \in Requests, WhereInv(r),
         \A k \in Kinds, s \in Stages : Held(r, k, s)' <=> Held(r, k, s),
         StagesYielded(r)' = StagesYielded(r),
         r <= seeded' <=> r <= seeded, r > seeded' <=> r > seeded,
         r \in dropped' <=> r \in dropped
  PROVE  WhereInv(r)' /\ (Counted(r)' <=> Counted(r))
<1>1. Counted(r)' <=> Counted(r)
  BY DEF Counted, Nowhere
<1>2. \A m : HasHad(r, m)' <=> HasHad(r, m)
  BY DEF HasHad
<1>3. WhereInv(r)'
  BY <1>1, <1>2 DEF WhereInv
<1> QED BY <1>1, <1>3

(* A request that is in one place after the step.                          *)
LEMMA PlacedWhere ==
  ASSUME NEW r \in Requests, NEW l \in Kinds, NEW t \in Stages,
         \A k \in Kinds, s \in Stages : Held(r, k, s)' <=> k = l /\ s = t,
         seeded' \in Nat, r <= seeded', r \notin dropped', t <= FinalStage[r],
         StagesYielded(r)' = FinalOutput \cap 0..UpTo(l, t)
  PROVE  WhereInv(r)' /\ ~Counted(r)'
<1>1. ~Counted(r)'
  BY DEF Counted, Nowhere
<1>2. UpTo(l, t) \in -1..FinalStage[r] /\ ~(r > seeded')
  <2>1. FinalStage[r] \in Nat /\ t \in Nat /\ r \in Nat
    BY BoundTypes
  <2> QED BY <2>1 DEF UpTo
<1>3. HasHad(r, UpTo(l, t))'
  BY DEF HasHad
<1> QED BY <1>1, <1>2, <1>3 DEF WhereInv

(* One that is nowhere any more: dropped, or counted.                      *)
LEMMA LeftWhere ==
  ASSUME NEW r \in Requests, Nowhere(r)', seeded' \in Nat, r <= seeded',
         NEW m \in -1..FinalStage[r], StagesYielded(r)' = FinalOutput \cap 0..m,
         r \in dropped' \/ m = FinalStage[r]
  PROVE  WhereInv(r)' /\ (r \in dropped' => ~Counted(r)') /\ (r \notin dropped' => Counted(r)')
<1>1. /\ r \in dropped' => ~Counted(r)'
      /\ r \notin dropped' => Counted(r)'
  BY DEF Counted
<1>2. ~(r > seeded')
  BY BoundTypes
<1>3. HasHad(r, m)'
  BY DEF HasHad
<1> QED BY <1>1, <1>2, <1>3 DEF WhereInv, Nowhere

(* The count of a step that completes no request.                          *)
LEMMA SameCount ==
  ASSUME CountInv, completed_requests' = completed_requests,
         \A r \in Requests : Counted(r)' <=> Counted(r)
  PROVE  CountInv'
<1>1. {r \in Requests : Counted(r)'} = {r \in Requests : Counted(r)}
  OBVIOUS
<1> QED BY <1>1 DEF CountInv

(* The count when a request completes.                                     *)
LEMMA OneMore ==
  ASSUME CountInv, NEW q \in Requests, ~Counted(q), Counted(q)',
         completed_requests' = completed_requests + 1,
         \A r \in Requests \ {q} : Counted(r)' <=> Counted(r)
  PROVE  CountInv'
<1> DEFINE S == {r \in Requests : Counted(r)}
<1>1. IsFiniteSet(Requests)
  BY BoundTypes, FS_Interval DEF Requests
<1>2. IsFiniteSet(S)
  BY <1>1, FS_Subset
<1>3. {r \in Requests : Counted(r)'} = S \cup {q} /\ q \notin S
  OBVIOUS
<1> HIDE DEF S
<1>4. Cardinality(S \cup {q}) = Cardinality(S) + 1
  BY <1>2, <1>3, FS_AddElement
<1> QED BY <1>3, <1>4 DEF CountInv, S

(* The count is that of some requests: its bound, and when it is reached.  *)
LEMMA CountBound ==
  ASSUME NEW S \in SUBSET Requests
  PROVE  /\ Cardinality(S) \in 0..NumRequests
         /\ Cardinality(S) = NumRequests => S = Requests
<1>1. IsFiniteSet(Requests) /\ Cardinality(Requests) = NumRequests
  BY BoundTypes, FS_Interval DEF Requests
<1>3. /\ IsFiniteSet(S) /\ Cardinality(S) <= NumRequests
      /\ Cardinality(S) = NumRequests => S = Requests
  BY <1>1, FS_Subset
<1>4. Cardinality(S) \in Nat
  BY <1>3, FS_CardinalityType
<1> QED BY <1>3, <1>4, BoundTypes

(* A step that leaves every request where it is.                           *)
LEMMA StillWhere ==
  ASSUME \A r \in Requests : WhereInv(r), CountInv,
         \A r \in Requests, k \in Kinds, s \in Stages : Held(r, k, s)' <=> Held(r, k, s),
         UNCHANGED <<seeded, dropped, completed_requests, yielded>>
  PROVE  (\A r \in Requests : WhereInv(r)') /\ CountInv'
<1>1. \A r \in Requests : StagesYielded(r)' = StagesYielded(r)
  BY DEF StagesYielded
<1>2. \A r \in Requests : WhereInv(r)' /\ (Counted(r)' <=> Counted(r))
  BY <1>1, SameWhere
<1> QED BY <1>2, SameCount

MovesTo(M, k1, s1) ==
  \A r \in M : /\ \A k \in Kinds, s \in Stages : Held(r, k, s)' <=> k = k1 /\ s = s1
              /\ s1 <= FinalStage[r] /\ StagesYielded(r)' = FinalOutput \cap 0..UpTo(k1, s1)
Stays(M) ==
  \A r \in M : /\ \A k \in Kinds, s \in Stages : Held(r, k, s)' <=> Held(r, k, s)
              /\ StagesYielded(r)' = StagesYielded(r)

(* A step that moves some requests from one place to another.              *)
LEMMA MovedWhere ==
  ASSUME \A r \in Requests : WhereInv(r), CountInv, seeded \in Nat,
         NEW k0 \in Kinds, NEW s0 \in Stages, NEW k1 \in Kinds, NEW s1 \in Stages,
         NEW M \in SUBSET Requests,
         \A r \in M : Held(r, k0, s0), MovesTo(M, k1, s1), Stays(Requests \ M),
         UNCHANGED <<seeded, dropped, completed_requests>>
  PROVE  (\A r \in Requests : WhereInv(r)') /\ CountInv'
<1>1. \A r \in Requests \ M : WhereInv(r)' /\ (Counted(r)' <=> Counted(r))
  BY SameWhere DEF Stays
<1>2. \A r \in M : ~Counted(r) /\ r <= seeded /\ r \notin dropped
  BY DEF Counted, Nowhere, WhereInv
<1>3. \A r \in M : WhereInv(r)' /\ ~Counted(r)'
  BY <1>2, PlacedWhere DEF MovesTo
<1>4. \A r \in Requests : WhereInv(r)' /\ (Counted(r)' <=> Counted(r))
  BY <1>1, <1>2, <1>3
<1> QED BY <1>4, SameCount

(* A step that moves one request.                                          *)
LEMMA MovedOne ==
  ASSUME \A r \in Requests : WhereInv(r), CountInv, seeded \in Nat,
         NEW q \in Requests, NEW k0 \in Kinds, NEW s0 \in Stages, Held(q, k0, s0),
         NEW k1 \in Kinds, NEW s1 \in Stages, s1 <= FinalStage[q],
         StagesYielded(q)' = FinalOutput \cap 0..UpTo(k1, s1),
         \A k \in Kinds, s \in Stages : Held(q, k, s)' <=> k = k1 /\ s = s1,
         \A r \in Requests \ {q}, k \in Kinds, s \in Stages : Held(r, k, s)' <=> Held(r, k, s),
         \A r \in Requests \ {q} : StagesYielded(r)' = StagesYielded(r),
         UNCHANGED <<seeded, dropped, completed_requests>>
  PROVE  (\A r \in Requests : WhereInv(r)') /\ CountInv'
<1>1. \A r \in Requests \ {q} : WhereInv(r)' /\ (Counted(r)' <=> Counted(r))
  BY SameWhere
<1>2. ~Counted(q) /\ q <= seeded /\ q \notin dropped
  BY DEF Counted, Nowhere, WhereInv
<1>3. WhereInv(q)' /\ ~Counted(q)'
  BY <1>2, PlacedWhere
<1>4. \A r \in Requests : WhereInv(r)' /\ (Counted(r)' <=> Counted(r))
  BY <1>1, <1>2, <1>3
<1> QED BY <1>4, SameCount

(* A step that drops some requests.                                        *)
LEMMA DroppedWhere ==
  ASSUME \A r \in Requests : WhereInv(r), CountInv, seeded \in Nat,
         NEW k0 \in Kinds, NEW s0 \in Stages, NEW M \in SUBSET Requests,
         \A r \in M : Held(r, k0, s0),
         \A r \in M, k \in Kinds, s \in Stages : ~Held(r, k, s)',
         \A r \in Requests \ M, k \in Kinds, s \in Stages : Held(r, k, s)' <=> Held(r, k, s),
         dropped' = dropped \cup M,
         UNCHANGED <<seeded, completed_requests, yielded>>
  PROVE  (\A r \in Requests : WhereInv(r)') /\ CountInv'
<1>0. \A r \in Requests : StagesYielded(r)' = StagesYielded(r)
  BY DEF StagesYielded
<1>1. \A r \in Requests \ M : WhereInv(r)' /\ (Counted(r)' <=> Counted(r))
  BY <1>0, SameWhere
<1>2. \A r \in M : ~Counted(r) /\ r <= seeded
  BY DEF Counted, Nowhere, WhereInv
<1>3. ASSUME NEW r \in M PROVE WhereInv(r)' /\ ~Counted(r)'
  <2>1. PICK m \in -1..FinalStage[r] : StagesYielded(r) = FinalOutput \cap 0..m
    BY DEF WhereInv, HasHad
  <2>2. Nowhere(r)' /\ r \in dropped' /\ r <= seeded' /\ seeded' \in Nat
    BY <1>2 DEF Nowhere
  <2> QED BY <1>0, <2>1, <2>2, LeftWhere
<1>4. \A r \in Requests : WhereInv(r)' /\ (Counted(r)' <=> Counted(r))
  BY <1>1, <1>2, <1>3
<1> QED BY <1>4, SameCount

(* A step that counts a request.                                           *)
LEMMA CountedWhere ==
  ASSUME \A r \in Requests : WhereInv(r), CountInv, seeded \in Nat,
         NEW k0 \in Kinds, NEW s0 \in Stages, NEW q \in Requests, Held(q, k0, s0),
         StagesYielded(q) = FinalOutput \cap 0..FinalStage[q],
         \A k \in Kinds, s \in Stages : ~Held(q, k, s)',
         \A r \in Requests \ {q}, k \in Kinds, s \in Stages : Held(r, k, s)' <=> Held(r, k, s),
         completed_requests' = completed_requests + 1,
         UNCHANGED <<seeded, dropped, yielded>>
  PROVE  (\A r \in Requests : WhereInv(r)') /\ CountInv'
<1>0. \A r \in Requests : StagesYielded(r)' = StagesYielded(r)
  BY DEF StagesYielded
<1>1. \A r \in Requests \ {q} : WhereInv(r)' /\ (Counted(r)' <=> Counted(r))
  BY <1>0, SameWhere
<1>2. ~Counted(q) /\ q <= seeded /\ q \notin dropped
  BY DEF Counted, Nowhere, WhereInv
<1>3. WhereInv(q)' /\ Counted(q)'
  <2>1. Nowhere(q)'
    BY DEF Nowhere
  <2>2. FinalStage[q] \in -1..FinalStage[q]
    <3>1. FinalStage[q] \in Nat
      BY BoundTypes
    <3> QED BY <3>1
  <2> QED BY <1>0, <1>2, <2>1, <2>2, LeftWhere
<1>4. CountInv'
  BY <1>1, <1>2, <1>3, OneMore
<1> QED BY <1>1, <1>3, <1>4

-----------------------------------------------------------------------------
(* Queues from which only control messages come and go.                    *)

TaskOk(t) == t.type = "generate" \/ ControlOk(t)
About(m) == m.type \in {"result", "error"}

SameTasks(q, p) ==
  /\ OnceIn(p) /\ \A t \in Elements(p) : TaskOk(t)
  /\ \A t : t.type = "generate" => (t \in Elements(p) <=> t \in Elements(q))
  /\ Named(p) = Named(q)
SameResults(q, p) ==
  /\ OnceIn(p) /\ \A m \in Elements(p) : ResultOk(m)
  /\ Named(p) = Named(q)

(* What the invariant says of one queue.                                   *)
LEMMA QueueFacts ==
  ASSUME SyncInv, NEW s \in Stages
  PROVE  /\ in_q[s] \in Seq(TaskType) /\ batch_tasks[s] \in Seq(TaskType)
         /\ out_q[s] \in Seq(ResultType)
         /\ OnceIn(in_q[s]) /\ OnceIn(batch_tasks[s]) /\ OnceIn(out_q[s])
         /\ \A t \in Elements(in_q[s]) : TaskOk(t) /\ (t.type = "generate" => GenerateOk(t, s))
         /\ \A t \in Elements(batch_tasks[s]) : GenerateOk(t, s)
         /\ \A m \in Elements(out_q[s]) : ResultOk(m)
         /\ SameTasks(in_q[s], in_q[s]) /\ SameResults(out_q[s], out_q[s])
<1>1. /\ in_q[s] \in Seq(TaskType) /\ batch_tasks[s] \in Seq(TaskType)
      /\ out_q[s] \in Seq(ResultType)
  BY DEF SyncInv, QueueTypes, WorkerTypes
<1>2. OnceIn(in_q[s]) /\ OnceIn(batch_tasks[s]) /\ OnceIn(out_q[s])
  BY DEF SyncInv, RequestsInv, OnceInv
<1>3. \A t \in Elements(in_q[s]) : TaskOk(t) /\ (t.type = "generate" => GenerateOk(t, s))
  BY DEF SyncInv, RequestsInv, TasksInv, TaskOk, ControlOk, GenerateOk
<1>4. /\ \A t \in Elements(batch_tasks[s]) : GenerateOk(t, s)
      /\ \A m \in Elements(out_q[s]) : ResultOk(m)
  BY DEF SyncInv, RequestsInv, TasksInv, ResultsInv
<1>5. SameTasks(in_q[s], in_q[s]) /\ SameResults(out_q[s], out_q[s])
  BY <1>2, <1>3, <1>4 DEF SameTasks, SameResults
<1> QED BY <1>1, <1>2, <1>3, <1>4, <1>5

(* A control message more.                                                 *)
LEMMA ControlAdded ==
  ASSUME SyncInv, NEW s \in Stages, NEW type \in {"shutdown", "profiler_stop"}
  PROVE  /\ Append(in_q[s], Control(type)) \in Seq(TaskType)
         /\ SameTasks(in_q[s], Append(in_q[s], Control(type)))
<1> DEFINE c == Control(type)
<1>1. c \in TaskType /\ ControlOk(c) /\ c.request_id = NoRequest /\ c.type # "generate"
  BY DEF Control, TaskType, ControlOk
<1> HIDE DEF c
<1>2. /\ Append(in_q[s], c) \in Seq(TaskType)
      /\ Elements(Append(in_q[s], c)) = Elements(in_q[s]) \cup {c}
      /\ Named(Append(in_q[s], c)) = Named(in_q[s]) \cup ({c.request_id} \ {NoRequest})
      /\ OnceIn(in_q[s]) /\ c.request_id \notin Named(in_q[s]) => OnceIn(Append(in_q[s], c))
  BY <1>1, QueueFacts, NamedAppend
<1>3. c.request_id \notin Named(in_q[s])
  BY <1>1 DEF Named
<1> QED BY <1>1, <1>2, <1>3, QueueFacts DEF SameTasks, TaskOk, c

(* One less, and one that goes back to the end.                            *)
LEMMA ControlTaken ==
  ASSUME SyncInv, NEW s \in Stages, in_q[s] # <<>>, Head(in_q[s]).type # "generate"
  PROVE  /\ Tail(in_q[s]) \in Seq(TaskType)
         /\ SameTasks(in_q[s], Tail(in_q[s]))
         /\ Append(Tail(in_q[s]), Head(in_q[s])) \in Seq(TaskType)
         /\ SameTasks(in_q[s], Append(Tail(in_q[s]), Head(in_q[s])))
<1> DEFINE q == in_q[s]
           t == Tail(in_q[s])
           c == Head(in_q[s])
<1>1. /\ q \in Seq(TaskType) /\ OnceIn(q) /\ \A e \in Elements(q) : TaskOk(e)
  BY QueueFacts
<1>2. /\ t \in Seq(TaskType) /\ c \in TaskType /\ c \in Elements(q)
      /\ Elements(q) = {c} \cup Elements(t)
      /\ Named(q) = ({c.request_id} \ {NoRequest}) \cup Named(t)
      /\ OnceIn(t)
  BY <1>1, NamedTail
<1>3. c.type # "generate"
  OBVIOUS
<1> HIDE DEF q, t, c
<1>4. ControlOk(c) /\ c.request_id = NoRequest
  BY <1>1, <1>2, <1>3 DEF TaskOk, ControlOk
<1>5. Named(q) = Named(t) /\ c.request_id \notin Named(t)
  BY <1>2, <1>4 DEF Named
<1>6. SameTasks(q, t)
  BY <1>1, <1>2, <1>3, <1>5 DEF SameTasks
<1>7. /\ Append(t, c) \in Seq(TaskType)
      /\ Elements(Append(t, c)) = Elements(t) \cup {c}
      /\ Named(Append(t, c)) = Named(t) \cup ({c.request_id} \ {NoRequest})
      /\ OnceIn(Append(t, c))
  BY <1>2, <1>5, NamedAppend
<1>8. SameTasks(q, Append(t, c))
  BY <1>1, <1>2, <1>4, <1>5, <1>7 DEF SameTasks
<1> QED BY <1>2, <1>6, <1>7, <1>8 DEF q, t, c

(* Messages to the orchestrator about no request.                          *)
LEMMA AnswerAdded ==
  ASSUME SyncInv, NEW s \in Stages, NEW type \in {"stage_ready", "profiler_result"}
  PROVE  /\ Append(out_q[s], Result(type, NoRequest, <<>>)) \in Seq(ResultType)
         /\ SameResults(out_q[s], Append(out_q[s], Result(type, NoRequest, <<>>)))
<1> DEFINE c == Result(type, NoRequest, <<>>)
<1>1. c \in ResultType /\ ResultOk(c) /\ c.request_id = NoRequest
  BY DEF Result, ResultType, ResultOk
<1> HIDE DEF c
<1>2. /\ Append(out_q[s], c) \in Seq(ResultType)
      /\ Elements(Append(out_q[s], c)) = Elements(out_q[s]) \cup {c}
      /\ Named(Append(out_q[s], c)) = Named(out_q[s]) \cup ({c.request_id} \ {NoRequest})
      /\ OnceIn(out_q[s]) /\ c.request_id \notin Named(out_q[s]) => OnceIn(Append(out_q[s], c))
  BY <1>1, QueueFacts, NamedAppend
<1>3. c.request_id \notin Named(out_q[s])
  BY <1>1 DEF Named
<1> QED BY <1>1, <1>2, <1>3, QueueFacts DEF SameResults, c

(* A message is taken: the request it is about, if any, is no more in the  *)
(* queue.                                                                  *)
LEMMA ResultTaken ==
  ASSUME SyncInv, NEW s \in Stages, out_q[s] # <<>>
  PROVE  /\ Tail(out_q[s]) \in Seq(ResultType) /\ OnceIn(Tail(out_q[s]))
         /\ \A m \in Elements(Tail(out_q[s])) : ResultOk(m)
         /\ Named(Tail(out_q[s])) = Named(out_q[s]) \ {Head(out_q[s]).request_id}
         /\ Head(out_q[s]) \in ResultType /\ ResultOk(Head(out_q[s]))
         /\ Head(out_q[s]).request_id = NoRequest => SameResults(out_q[s], Tail(out_q[s]))
         /\ Head(out_q[s]).request_id # NoRequest => Head(out_q[s]).request_id \in Named(out_q[s])
<1> DEFINE q == out_q[s]
           t == Tail(out_q[s])
           c == Head(out_q[s])
<1>1. q \in Seq(ResultType) /\ OnceIn(q) /\ \A e \in Elements(q) : ResultOk(e)
  BY QueueFacts
<1>2. /\ t \in Seq(ResultType) /\ c \in ResultType /\ c \in Elements(q)
      /\ Elements(q) = {c} \cup Elements(t)
      /\ Named(q) = ({c.request_id} \ {NoRequest}) \cup Named(t)
      /\ OnceIn(t) /\ c.request_id \notin Named(t)
  BY <1>1, NamedTail
<1> HIDE DEF q, t, c
<1>3. Named(t) = Named(q) \ {c.request_id}
  BY <1>2 DEF Named
<1>4. c.request_id = NoRequest => Named(t) = Named(q)
  BY <1>2
<1>5. c.request_id = NoRequest => SameResults(q, t)
  BY <1>1, <1>2, <1>4 DEF SameResults
<1> QED BY <1>1, <1>2, <1>3, <1>5 DEF q, t, c

(* A payload is asked for by as many as before.                            *)
LEMMA AskedSame ==
  ASSUME SyncInv, NEW s \in Stages, SameTasks(in_q[s], in_q'[s]), batch_tasks'[s] = batch_tasks[s],
         NEW r \in Requests, Asks(r, s)
  PROVE  Asks(r, s)'
<1>1. \A t \in Elements(in_q[s]) : t.from_connector => t.type = "generate"
  BY QueueFacts DEF TaskOk, ControlOk
<1> QED BY <1>1 DEF Asks, SameTasks

(* A step that moves no task, and keeps results in order.                  *)
LEMMA RestKeeps ==
  ASSUME SyncInv,
         \A s \in Stages : SameTasks(in_q[s], in_q'[s]) /\ OnceIn(out_q'[s]),
         \A s \in Stages : \A m \in Elements(out_q'[s]) : ResultOk(m),
         \A s \in Stages : worker[s] = "dead" => worker'[s] = "dead",
         UNCHANGED <<batch_tasks, store, yielded>>
  PROVE  OnceInv' /\ TasksInv' /\ ResultsInv' /\ StoreInv' /\ YieldedInv'
<1>1. OnceInv'
  BY DEF SyncInv, RequestsInv, OnceInv, SameTasks
<1>2. TasksInv'
  <2>1. \A t, s : GenerateOk(t, s)' <=> GenerateOk(t, s)
    BY DEF GenerateOk
  <2>2. ASSUME NEW s \in Stages PROVE \A t \in Elements(in_q'[s]) : GenerateOk(t, s) \/ ControlOk(t)
    BY QueueFacts DEF SameTasks, TaskOk
  <2> QED BY <2>1, <2>2, QueueFacts DEF TasksInv
<1>3. ResultsInv'
  BY DEF ResultsInv
<1>4. StoreInv'
  <2>1. \A p \in store : p.to \in Stages /\ p.request_id \in Requests
    BY DEF SyncInv, QueueTypes
  <2>2. \A p \in store : Asks(p.request_id, p.to) => Asks(p.request_id, p.to)'
    BY <2>1, AskedSame
  <2> QED BY <2>1, <2>2 DEF SyncInv, RequestsInv, StoreInv
<1>5. YieldedInv'
  BY DEF SyncInv, RequestsInv, YieldedInv
<1> QED BY <1>1, <1>2, <1>3, <1>4, <1>5

(* A step that moves no request.                                           *)
LEMMA QuietStep ==
  ASSUME SyncInv,
         \A s \in Stages : SameTasks(in_q[s], in_q'[s]) /\ SameResults(out_q[s], out_q'[s]),
         \A s \in Stages : worker[s] = "dead" => worker'[s] = "dead",
         current' = current \/ (current.request_id = NoRequest /\ current'.request_id = NoRequest),
         UNCHANGED <<batch_tasks, store, seeded, dropped, completed_requests, yielded>>
  PROVE  RequestsInv'
<1>1. ASSUME NEW r \in Requests, NEW k \in Kinds, NEW s \in Stages
      PROVE  Held(r, k, s)' <=> Held(r, k, s)
  <2>1. /\ Named(in_q'[s]) = Named(in_q[s]) /\ Named(out_q'[s]) = Named(out_q[s])
        /\ batch_tasks'[s] = batch_tasks[s]
    BY DEF SameTasks, SameResults
  <2>2. (r = current'.request_id /\ s = current'.stage) <=> (r = current.request_id /\ s = current.stage)
    BY BoundTypes
  <2> QED BY <2>1, <2>2 DEF Held
<1>2. (\A r \in Requests : WhereInv(r)') /\ CountInv'
  BY <1>1, StillWhere DEF SyncInv, RequestsInv
<1>3. \A s \in Stages : OnceIn(out_q'[s]) /\ \A m \in Elements(out_q'[s]) : ResultOk(m)
  BY DEF SameResults
<1> QED BY <1>2, <1>3, RestKeeps DEF RequestsInv

-----------------------------------------------------------------------------
(* Requests that leave a result queue or the hands of the caller.          *)

Leaves(r, k, s) ==
  /\ r \in Requests /\ k \in {"result", "yielded"} /\ s \in Stages /\ Held(r, k, s)
  /\ \A q \in Requests, l \in Kinds \ {"task"}, x \in Stages :
       Held(q, l, x)' <=> Held(q, l, x) /\ q # r
  /\ \A x \in Stages : OnceIn(out_q'[x]) /\ \A m \in Elements(out_q'[x]) : ResultOk(m)
  /\ UNCHANGED <<seeded, yielded, workerVars>>

(* A request is in one place.                                              *)
LEMMA OnePlace ==
  ASSUME SyncInv, NEW r \in Requests, NEW k \in Kinds, NEW s \in Stages, Held(r, k, s)
  PROVE  /\ \A l \in Kinds, t \in Stages : Held(r, l, t) => l = k /\ t = s
         /\ r <= seeded /\ r \notin dropped /\ s <= FinalStage[r]
         /\ StagesYielded(r) = FinalOutput \cap 0..UpTo(k, s)
         /\ seeded \in Nat /\ \A q \in Requests : WhereInv(q)
         /\ CountInv
<1>1. WhereInv(r) /\ CountInv /\ \A q \in Requests : WhereInv(q)
  BY DEF SyncInv, RequestsInv
<1>2. seeded \in Nat
  BY BoundTypes DEF SyncInv, LoopTypes
<1> QED BY <1>1, <1>2 DEF WhereInv, HasHad

(* The orchestrator takes a message about a request.                       *)
LEMMA ResultLeaves ==
  ASSUME SyncInv, NEW s \in Stages, out_q[s] # <<>>, Head(out_q[s]).request_id # NoRequest,
         out_q' = Take(out_q, s), UNCHANGED <<seeded, yielded, workerVars, current>>
  PROVE  Leaves(Head(out_q[s]).request_id, "result", s)
<1> DEFINE r == Head(out_q[s]).request_id
<1>1. /\ r \in Named(out_q[s]) /\ Named(Tail(out_q[s])) = Named(out_q[s]) \ {r}
      /\ OnceIn(Tail(out_q[s])) /\ \A m \in Elements(Tail(out_q[s])) : ResultOk(m)
      /\ r \in Requests
  BY ResultTaken, BoundTypes DEF ResultOk, ResultType
<1> HIDE DEF r
<1>2. Held(r, "result", s) /\ "result" \in Kinds
  BY <1>1 DEF Held, Kinds
<1>3. out_q'[s] = Tail(out_q[s]) /\ \A x \in Stages : x # s => out_q'[x] = out_q[x]
  BY DEF Take, SyncInv, QueueTypes
<1>4. \A l \in Kinds, t \in Stages : Held(r, l, t) => l = "result" /\ t = s
  BY <1>1, <1>2, OnePlace
<1>5. ASSUME NEW q \in Requests, NEW l \in Kinds \ {"task"}, NEW x \in Stages
      PROVE  Held(q, l, x)' <=> Held(q, l, x) /\ q # r
  <2>1. CASE l = "result"
    <3>1. r \in Named(out_q[x]) => x = s
      BY <1>4, <2>1 DEF Held
    <3>2. CASE x = s
      BY <1>1, <1>3, <2>1, <3>2 DEF Held
    <3>3. CASE x # s
      BY <1>1, <1>3, <2>1, <3>1, <3>3 DEF Held
    <3> QED BY <3>2, <3>3
  <2>2. CASE l # "result"
    <3>1. Held(q, l, x)' <=> Held(q, l, x)
      BY <2>2 DEF Held, workerVars
    <3> QED BY <1>1, <1>4, <2>2, <3>1
  <2> QED BY <2>1, <2>2
<1>6. ASSUME NEW x \in Stages PROVE OnceIn(out_q'[x]) /\ \A m \in Elements(out_q'[x]) : ResultOk(m)
  BY <1>1, <1>3, QueueFacts
<1> QED BY <1>1, <1>2, <1>5, <1>6 DEF Leaves, r

(* The caller is done with the output it has.                              *)
LEMMA CurrentLeaves ==
  ASSUME SyncInv, current.request_id # NoRequest, current'.request_id = NoRequest,
         UNCHANGED <<out_q, seeded, yielded, workerVars>>
  PROVE  Leaves(current.request_id, "yielded", current.stage)
<1>1. current.request_id \in Requests /\ current.stage \in Stages
  BY DEF SyncInv, LoopTypes
<1>2. Held(current.request_id, "yielded", current.stage) /\ "yielded" \in Kinds
  BY DEF Held, Kinds
<1>3. \A l \in Kinds, t \in Stages :
        Held(current.request_id, l, t) => l = "yielded" /\ t = current.stage
  BY <1>1, <1>2, OnePlace
<1>4. ASSUME NEW q \in Requests, NEW l \in Kinds \ {"task"}, NEW x \in Stages
      PROVE  Held(q, l, x)' <=> Held(q, l, x) /\ q # current.request_id
  <2>1. CASE l = "yielded"
    BY <2>1, BoundTypes DEF Held
  <2>2. CASE l # "yielded"
    <3>1. Held(q, l, x)' <=> Held(q, l, x)
      BY <2>2 DEF Held, workerVars
    <3> QED BY <1>1, <1>3, <2>2, <3>1
  <2> QED BY <2>1, <2>2
<1>5. ASSUME NEW x \in Stages PROVE OnceIn(out_q'[x]) /\ \A m \in Elements(out_q'[x]) : ResultOk(m)
  BY QueueFacts
<1> QED BY <1>1, <1>2, <1>4, <1>5 DEF Leaves

(* Where the request that leaves is afterwards, as far as the task queues  *)
(* say; the others stay.                                                   *)
LEMMA LeavesOthers ==
  ASSUME SyncInv, NEW r, NEW k, NEW s, Leaves(r, k, s),
         \A x \in Stages : Named(in_q'[x]) \ {r} = Named(in_q[x])
  PROVE  /\ \A q \in Requests \ {r}, l \in Kinds, x \in Stages : Held(q, l, x)' <=> Held(q, l, x)
         /\ \A l \in Kinds, x \in Stages : Held(r, l, x)' <=> l = "task" /\ r \in Named(in_q'[x])
<1>1. ASSUME NEW q \in Requests, q # r, NEW x \in Stages
      PROVE  Held(q, "task", x)' <=> Held(q, "task", x)
  <2>1. Named(in_q'[x]) \ {r} = Named(in_q[x])
    OBVIOUS
  <2> QED BY <1>1, <2>1 DEF Held
<1>2. ASSUME NEW q \in Requests \ {r}, NEW l \in Kinds, NEW x \in Stages
      PROVE  Held(q, l, x)' <=> Held(q, l, x)
  <2>1. CASE l = "task"
    BY <1>1, <2>1
  <2>2. CASE l # "task"
    BY <2>2 DEF Leaves
  <2> QED BY <2>1, <2>2
<1>3. ASSUME NEW l \in Kinds, NEW x \in Stages
      PROVE  Held(r, l, x)' <=> l = "task" /\ r \in Named(in_q'[x])
  <2>1. CASE l = "task"
    BY <2>1 DEF Held
  <2>2. CASE l # "task"
    BY <2>2 DEF Leaves
  <2> QED BY <2>1, <2>2
<1> QED BY <1>2, <1>3

(* Leaving, the request is in no task queue.                               *)
LEMMA LeavesNoTask ==
  ASSUME SyncInv, NEW r, NEW k, NEW s, Leaves(r, k, s)
  PROVE  \A x \in Stages : r \notin Named(in_q[x])
<1>1. /\ r \in Requests /\ k \in Kinds /\ s \in Stages /\ Held(r, k, s) /\ k # "task"
      /\ "task" \in Kinds
  BY DEF Leaves, Kinds
<1>2. \A x \in Stages : ~Held(r, "task", x)
  BY <1>1, OnePlace
<1> QED BY <1>2 DEF Held

(* It is dropped.                                                          *)
LEMMA DropStep ==
  ASSUME SyncInv, NEW r, NEW k, NEW s, Leaves(r, k, s),
         \A x \in Stages : SameTasks(in_q[x], in_q'[x]),
         dropped' = dropped \cup {r}, UNCHANGED <<store, completed_requests>>
  PROVE  RequestsInv'
<1>1. /\ r \in Requests /\ k \in Kinds /\ s \in Stages /\ Held(r, k, s)
      /\ UNCHANGED <<seeded, yielded, worker, batch_tasks>>
  BY DEF Leaves, Kinds, workerVars
<1>2. \A x \in Stages : Named(in_q'[x]) = Named(in_q[x]) /\ r \notin Named(in_q[x])
  BY LeavesNoTask DEF SameTasks
<1>3. \A x \in Stages : Named(in_q'[x]) \ {r} = Named(in_q[x])
  BY <1>2
<1>4. /\ \A q \in Requests \ {r}, l \in Kinds, x \in Stages : Held(q, l, x)' <=> Held(q, l, x)
      /\ \A l \in Kinds, x \in Stages : ~Held(r, l, x)'
  BY <1>2, <1>3, LeavesOthers
<1> DEFINE M == {r}
<1>5. /\ M \in SUBSET Requests /\ dropped' = dropped \cup M
      /\ \A q \in M : Held(q, k, s)
      /\ \A q \in M, l \in Kinds, x \in Stages : ~Held(q, l, x)'
      /\ \A q \in Requests \ M, l \in Kinds, x \in Stages : Held(q, l, x)' <=> Held(q, l, x)
  BY <1>1, <1>4
<1> HIDE DEF M
<1>6. (\A q \in Requests : WhereInv(q)) /\ CountInv /\ seeded \in Nat
  BY <1>1, OnePlace
<1>7. (\A q \in Requests : WhereInv(q)') /\ CountInv'
  BY <1>1, <1>5, <1>6, DroppedWhere
<1>8. OnceInv' /\ TasksInv' /\ ResultsInv' /\ StoreInv' /\ YieldedInv'
  BY <1>1, RestKeeps DEF Leaves
<1> QED BY <1>7, <1>8 DEF RequestsInv

(* It is counted.                                                          *)
LEMMA CountStep ==
  ASSUME SyncInv, NEW r, NEW k, NEW s, Leaves(r, k, s),
         StagesYielded(r) = FinalOutput \cap 0..FinalStage[r],
         completed_requests' = completed_requests + 1, UNCHANGED <<in_q, store, dropped>>
  PROVE  RequestsInv'
<1>1. /\ r \in Requests /\ k \in Kinds /\ s \in Stages /\ Held(r, k, s)
      /\ UNCHANGED <<seeded, yielded, worker, batch_tasks>>
  BY DEF Leaves, Kinds, workerVars
<1>2. \A x \in Stages : /\ SameTasks(in_q[x], in_q'[x])
                        /\ Named(in_q'[x]) = Named(in_q[x]) /\ r \notin Named(in_q[x])
  BY LeavesNoTask, QueueFacts
<1>3. \A x \in Stages : Named(in_q'[x]) \ {r} = Named(in_q[x])
  BY <1>2
<1>4. /\ \A q \in Requests \ {r}, l \in Kinds, x \in Stages : Held(q, l, x)' <=> Held(q, l, x)
      /\ \A l \in Kinds, x \in Stages : ~Held(r, l, x)'
  BY <1>2, <1>3, LeavesOthers
<1>5. (\A q \in Requests : WhereInv(q)) /\ CountInv /\ seeded \in Nat
  BY <1>1, OnePlace
<1>6. (\A q \in Requests : WhereInv(q)') /\ CountInv'
  BY <1>1, <1>4, <1>5, CountedWhere
<1>7. OnceInv' /\ TasksInv' /\ ResultsInv' /\ StoreInv' /\ YieldedInv'
  BY <1>1, <1>2, RestKeeps DEF Leaves
<1> QED BY <1>6, <1>7 DEF RequestsInv

(* It is passed on: the payload first, then the task that announces it.    *)
LEMMA ForwardStep ==
  ASSUME SyncInv, NEW r, NEW k, NEW s, Leaves(r, k, s), s + 1 <= FinalStage[r],
         StagesYielded(r) = FinalOutput \cap 0..s,
         in_q' = Put(in_q, s + 1, Task(r, <<>>, TRUE)),
         store' = store \cup {Message(s + 1, r)}, UNCHANGED <<dropped, completed_requests>>
  PROVE  /\ RequestsInv' /\ in_q' \in [Stages -> Seq(TaskType)]
         /\ store' \subseteq [to : Stages, request_id : Requests, inputs : Seq(Requests)]
<1> DEFINE t == Task(r, <<>>, TRUE)
           z == s + 1
<1>1. /\ r \in Requests /\ k \in Kinds /\ s \in Stages /\ Held(r, k, s)
      /\ UNCHANGED <<seeded, yielded, worker, batch_tasks>>
  BY DEF Leaves, Kinds, workerVars
<1>2. s \in Nat /\ FinalStage[r] \in Stages /\ FinalStage[r] \in Nat
  BY <1>1, BoundTypes
<1>3. z \in Stages /\ z <= FinalStage[r] /\ UpTo("task", z) = s /\ "task" \in Kinds
  <2>1. z <= FinalStage[r] /\ z <= NumStages - 1 /\ NumStages \in Nat
    BY <1>2, BoundTypes DEF Stages
  <2> QED BY <1>2, <2>1 DEF Stages, UpTo, Kinds
<1>4. t \in TaskType /\ t.request_id = r /\ t.type = "generate" /\ t.from_connector
  BY <1>1 DEF Task, TaskType
<1>5. Message(z, r) \in [to : Stages, request_id : Requests, inputs : Seq(Requests)]
  BY <1>1, <1>3 DEF Message
<1>6. /\ in_q'[z] = Append(in_q[z], t)
      /\ \A x \in Stages \ {z} : in_q'[x] = in_q[x]
      /\ \A x \in Stages : in_q[x] \in Seq(TaskType) /\ OnceIn(in_q[x])
      /\ DOMAIN in_q' = Stages /\ in_q' = [x \in DOMAIN in_q' |-> in_q'[x]]
  BY <1>3, QueueFacts DEF Put, SyncInv, QueueTypes
<1>7. r # NoRequest /\ \A x \in Stages : r \notin Named(in_q[x])
  BY <1>1, LeavesNoTask, BoundTypes
<1> HIDE DEF t, z
<1>8. /\ in_q'[z] \in Seq(TaskType)
      /\ Elements(in_q'[z]) = Elements(in_q[z]) \cup {t}
      /\ Named(in_q'[z]) = Named(in_q[z]) \cup {r}
      /\ OnceIn(in_q'[z])
  <2>1. /\ Append(in_q[z], t) \in Seq(TaskType)
        /\ Elements(Append(in_q[z], t)) = Elements(in_q[z]) \cup {t}
        /\ Named(Append(in_q[z], t)) = Named(in_q[z]) \cup ({t.request_id} \ {NoRequest})
        /\ OnceIn(in_q[z]) /\ t.request_id \notin Named(in_q[z]) => OnceIn(Append(in_q[z], t))
    BY <1>3, <1>4, <1>6, NamedAppend
  <2>2. in_q'[z] = Append(in_q[z], t) /\ OnceIn(in_q[z]) /\ t.request_id \notin Named(in_q[z])
    BY <1>3, <1>4, <1>6, <1>7
  <2>3. {t.request_id} \ {NoRequest} = {r}
    BY <1>4, <1>7
  <2> QED BY <2>1, <2>2, <2>3
<1>9. in_q' \in [Stages -> Seq(TaskType)]
  <2>1. \A x \in Stages : in_q'[x] \in Seq(TaskType)
    BY <1>6, <1>8
  <2> QED BY <1>6, <2>1
<1>10. \A x \in Stages : Named(in_q'[x]) \ {r} = Named(in_q[x]) /\ (r \in Named(in_q'[x]) <=> x = z)
  BY <1>3, <1>6, <1>7, <1>8, ZenonT(40)
<1>11. /\ \A q \in Requests \ {r}, l \in Kinds, x \in Stages : Held(q, l, x)' <=> Held(q, l, x)
       /\ \A l \in Kinds, x \in Stages : Held(r, l, x)' <=> l = "task" /\ x = z
  BY <1>10, LeavesOthers
<1>12. \A q \in Requests : StagesYielded(q)' = StagesYielded(q)
  BY <1>1 DEF StagesYielded
<1>13. (\A q \in Requests : WhereInv(q)) /\ CountInv /\ seeded \in Nat
  BY <1>1, OnePlace
<1>14. (\A q \in Requests : WhereInv(q)') /\ CountInv'
  <2>1. StagesYielded(r)' = FinalOutput \cap 0..UpTo("task", z)
    BY <1>1, <1>3, <1>12
  <2>2. UNCHANGED <<seeded, dropped, completed_requests>>
    BY <1>1
  <2> QED BY <1>1, <1>3, <1>11, <1>12, <1>13, <2>1, <2>2, MovedOne
<1>15. OnceInv'
  <2>1. \A x \in Stages : OnceIn(in_q'[x])
    BY <1>6, <1>8
  <2> QED BY <1>1, <2>1 DEF OnceInv, Leaves, SyncInv, RequestsInv
<1>16. TasksInv'
  <2>1. \A e, x : GenerateOk(e, x) => GenerateOk(e, x)'
    BY DEF GenerateOk
  <2>2. GenerateOk(t, z)'
    BY <1>1, <1>4 DEF GenerateOk, z
  <2>3. ASSUME NEW x \in Stages, NEW e \in Elements(in_q'[x])
        PROVE  GenerateOk(e, x)' \/ ControlOk(e)
    <3>1. CASE e \in Elements(in_q[x])
      BY <2>1, <3>1 DEF SyncInv, RequestsInv, TasksInv
    <3>2. CASE e \notin Elements(in_q[x])
      BY <1>6, <1>8, <2>2, <3>2
    <3> QED BY <3>1, <3>2
  <2>4. \A x \in Stages : \A e \in Elements(batch_tasks'[x]) : GenerateOk(e, x)'
    BY <1>1, <2>1 DEF SyncInv, RequestsInv, TasksInv
  <2> QED BY <2>3, <2>4 DEF TasksInv
<1>17. ResultsInv' /\ YieldedInv'
  BY <1>1 DEF Leaves, ResultsInv, YieldedInv, SyncInv, RequestsInv
<1>18. StoreInv'
  <2>1. ASSUME NEW p \in store PROVE p.inputs = <<p.request_id>> /\ p.to \in Stages
                                     /\ (worker'[p.to] # "dead" => Asks(p.request_id, p.to))
    BY <1>1 DEF SyncInv, RequestsInv, StoreInv, QueueTypes
  <2>2. ASSUME NEW x \in Stages, NEW q, Asks(q, x) PROVE Asks(q, x)'
    <3>1. Elements(in_q[x]) \subseteq Elements(in_q'[x])
      BY <1>6, <1>8
    <3> QED BY <1>1, <2>2, <3>1 DEF Asks
  <2>3. Asks(r, z)'
    BY <1>4, <1>8 DEF Asks
  <2>4. /\ Message(z, r).inputs = <<Message(z, r).request_id>>
        /\ Message(z, r).request_id = r /\ Message(z, r).to = z
    BY DEF Message
  <2>5. \A p \in store' : p \in store \/ p = Message(z, r)
    BY DEF z
  <2> QED BY <2>1, <2>2, <2>3, <2>4, <2>5 DEF StoreInv
<1>19. store' \subseteq [to : Stages, request_id : Requests, inputs : Seq(Requests)]
  BY <1>5 DEF SyncInv, QueueTypes, z
<1> QED BY <1>9, <1>14, <1>15, <1>16, <1>17, <1>18, <1>19 DEF RequestsInv

(* What its caller has had when the request is passed on or counted.       *)
LEMMA PassedOn ==
  ASSUME SyncInv, NEW r, NEW k, NEW s, Leaves(r, k, s), k = "result" => s \notin FinalOutput
  PROVE  StagesYielded(r) = FinalOutput \cap 0..s /\ s <= FinalStage[r]
<1>1. /\ r \in Requests /\ k \in Kinds /\ k \in {"result", "yielded"}
      /\ s \in Stages /\ s \in Nat /\ Held(r, k, s)
  BY BoundTypes DEF Leaves, Kinds
<1>2. StagesYielded(r) = FinalOutput \cap 0..UpTo(k, s) /\ s <= FinalStage[r]
  BY <1>1, OnePlace
<1>3. CASE k = "yielded"
  BY <1>2, <1>3 DEF UpTo
<1>4. CASE k = "result"
  <2>1. \A x \in 0..s : x \in 0..s - 1 \/ x = s
    BY <1>1
  <2>2. 0..s - 1 \subseteq 0..s
    BY <1>1
  <2> QED BY <1>2, <1>4, <2>1, <2>2 DEF UpTo
<1> QED BY <1>1, <1>3, <1>4

(* Whatever becomes of it.                                                 *)
LEMMA PassOnStep ==
  ASSUME SyncInv, NEW r, NEW k, NEW s, Leaves(r, k, s), k = "result" => s \notin FinalOutput,
         PassOn(s, r), engine_outputs'[s] = <<r>>
  PROVE  /\ RequestsInv' /\ in_q' \in [Stages -> Seq(TaskType)]
         /\ store' \subseteq [to : Stages, request_id : Requests, inputs : Seq(Requests)]
         /\ loop' \in {"running", "closing"} /\ at' \in 0..NumStages
         /\ dropped' \subseteq Requests /\ faults' \in 0..MaxFaults /\ profiles' = profiles
<1>1. StagesYielded(r) = FinalOutput \cap 0..s /\ s <= FinalStage[r] /\ r \in Requests /\ s \in Stages
  BY PassedOn DEF Leaves
<1>2. s \in Nat /\ FinalStage[r] \in Nat /\ s + 1 \in 0..NumStages /\ 0 \in 0..NumStages
  <2>1. s \in Nat /\ FinalStage[r] \in Nat /\ NumStages \in Nat /\ s + 1 <= NumStages
    BY <1>1, BoundTypes
  <2> QED BY <2>1
<1>3. /\ in_q \in [Stages -> Seq(TaskType)]
      /\ store \subseteq [to : Stages, request_id : Requests, inputs : Seq(Requests)]
      /\ dropped \subseteq Requests /\ faults \in 0..MaxFaults
  BY DEF SyncInv, QueueTypes, LoopTypes
<1>4. \A x \in Stages : in_q' = in_q => SameTasks(in_q[x], in_q'[x])
  BY QueueFacts
<1>5. Fault => faults' \in 0..MaxFaults /\ profiles' = profiles
  BY <1>3, SyncAssumption DEF Fault
<1>6. CASE Completes(s, r)
  <2>1. FinalStage[r] = s
    BY <1>1, <1>2, <1>6 DEF Completes
  <2>2. RequestsInv'
    BY <1>1, <1>6, <2>1, CountStep DEF Completes
  <2> QED BY <1>2, <1>3, <1>6, <2>2 DEF Completes, boundVars
<1>7. CASE Forwards(s, r)
  <2>1. /\ store' = store \cup {Message(s + 1, r)} /\ in_q' = Put(in_q, s + 1, Task(r, <<>>, TRUE))
        /\ s + 1 <= FinalStage[r] /\ UNCHANGED <<dropped, completed_requests>>
    BY <1>7 DEF Forwards, Message
  <2>2. /\ RequestsInv' /\ in_q' \in [Stages -> Seq(TaskType)]
        /\ store' \subseteq [to : Stages, request_id : Requests, inputs : Seq(Requests)]
    BY <1>1, <2>1, ForwardStep
  <2> QED BY <1>2, <1>3, <1>7, <2>2 DEF Forwards, boundVars
<1>8. CASE InputsFail(s, r) \/ PutFails(s, r)
  <2>1. dropped' = dropped \cup {r} /\ UNCHANGED <<in_q, store, completed_requests>>
    BY <1>8 DEF InputsFail, PutFails
  <2>2. RequestsInv'
    BY <1>4, <2>1, DropStep
  <2> QED BY <1>1, <1>2, <1>3, <1>5, <1>8, <2>1, <2>2 DEF InputsFail, PutFails
<1> QED BY <1>6, <1>7, <1>8 DEF PassOn

-----------------------------------------------------------------------------
(* The steps of the loop.                                                  *)

(* Control when the caller has no output.                                  *)
LEMMA LoopIdle ==
  ASSUME SyncInv, loop # "seeding", UNCHANGED seeded, current'.request_id = NoRequest,
         loop' \in {"running", "closing", "stopping", "joining", "closed"},
         loop' \in {"stopping", "joining"} => at' < NumStages
  PROVE  LoopInv'
BY DEF SyncInv, LoopInv

(* The caller has no output while the loop runs or after it.               *)
LEMMA NoCurrent ==
  ASSUME SyncInv, loop \notin {"yielded", "profiling"}
  PROVE  current.request_id = NoRequest
BY DEF SyncInv, LoopInv

(* A result of a stage without final output.                               *)
LEMMA CollectAndPassOnKeeps ==
  ASSUME SyncInv, NEW s \in Stages, CollectAndPassOn(s)
  PROVE  SyncInv'
<1> DEFINE m == Head(out_q[s])
           r == Head(out_q[s]).request_id
<1>1. /\ loop = "running" /\ out_q[s] # <<>> /\ m.type = "result" /\ out_q' = Take(out_q, s)
      /\ s \notin FinalOutput /\ engine_outputs' = [engine_outputs EXCEPT ![s] = m.outputs]
      /\ PassOn(s, r) /\ UNCHANGED <<seeded, current, yielded, workerVars>>
  BY DEF CollectAndPassOn, Collects, Visiting, Holding
<1>2. /\ Tail(out_q[s]) \in Seq(ResultType) /\ m \in ResultType /\ r \in Requests
      /\ m.outputs = <<r>> /\ r # NoRequest
  BY <1>1, ResultTaken, BoundTypes DEF ResultOk
<1> HIDE DEF m
<1>3. Leaves(r, "result", s)
  BY <1>1, <1>2, ResultLeaves
<1> HIDE DEF r
<1>4. engine_outputs'[s] = <<r>> /\ engine_outputs' \in [Stages -> Seq(Requests)]
  BY <1>1, <1>2 DEF SyncInv, LoopTypes
<1>5. /\ RequestsInv' /\ in_q' \in [Stages -> Seq(TaskType)]
      /\ store' \subseteq [to : Stages, request_id : Requests, inputs : Seq(Requests)]
      /\ loop' \in {"running", "closing"} /\ at' \in 0..NumStages
      /\ dropped' \subseteq Requests /\ faults' \in 0..MaxFaults /\ profiles' = profiles
  BY <1>1, <1>3, <1>4, PassOnStep
<1>6. out_q' \in [Stages -> Seq(ResultType)]
  BY <1>1, <1>2 DEF Take, SyncInv, QueueTypes
<1>7. WorkerTypes'
  BY <1>1 DEF SyncInv, WorkerTypes, workerVars
<1>8. LoopTypes'
  BY <1>1, <1>4, <1>5 DEF SyncInv, LoopTypes
<1>9. LoopInv'
  BY <1>1, <1>5, NoCurrent, LoopIdle
<1> QED BY <1>5, <1>6, <1>7, <1>8, <1>9 DEF SyncInv, QueueTypes

(* The caller asks for the next output.                                    *)
LEMMA ResumeKeeps ==
  ASSUME SyncInv, Resume
  PROVE  SyncInv'
<1> DEFINE r == current.request_id
           s == current.stage
<1>1. /\ loop = "yielded" /\ current' = NoResult /\ PassOn(s, r)
      /\ UNCHANGED <<engine_outputs, seeded, yielded, out_q, workerVars>>
  BY DEF Resume
<1>2. /\ r # NoRequest /\ engine_outputs[s] = <<r>> /\ s \in Stages
  BY <1>1 DEF SyncInv, LoopInv, LoopTypes
<1>3. current' \in [stage : Stages, request_id : Requests \cup {NoRequest}] /\ current'.request_id = NoRequest
  BY <1>1, BoundTypes DEF NoResult
<1>4. Leaves(r, "yielded", s)
  BY <1>1, <1>2, <1>3, CurrentLeaves
<1> HIDE DEF r, s
<1>5. /\ RequestsInv' /\ in_q' \in [Stages -> Seq(TaskType)]
      /\ store' \subseteq [to : Stages, request_id : Requests, inputs : Seq(Requests)]
      /\ loop' \in {"running", "closing"} /\ at' \in 0..NumStages
      /\ dropped' \subseteq Requests /\ faults' \in 0..MaxFaults /\ profiles' = profiles
  <2>1. engine_outputs'[s] = <<r>>
    BY <1>1, <1>2
  <2> QED BY <1>1, <1>4, <2>1, PassOnStep
<1>7. WorkerTypes'
  BY <1>1 DEF SyncInv, WorkerTypes, workerVars
<1>8. LoopTypes'
  BY <1>1, <1>3, <1>5 DEF SyncInv, LoopTypes
<1>9. LoopInv'
  BY <1>1, <1>3, <1>5, LoopIdle
<1> QED BY <1>1, <1>5, <1>7, <1>8, <1>9 DEF SyncInv, QueueTypes

(* A result of a stage with final output: the caller gets it.              *)
LEMMA CollectAndYieldKeeps ==
  ASSUME SyncInv, NEW s \in Stages, CollectAndYield(s),
         NEW r, r = Head(out_q[s]).request_id
  PROVE  SyncInv'
<1> DEFINE m == Head(out_q[s])
           y == [stage |-> s, request_id |-> r, outputs |-> Head(out_q[s]).outputs]
           Output == [stage : Stages, request_id : Requests, outputs : Seq(Requests)]
<1>1. /\ loop = "running" /\ at = s /\ out_q[s] # <<>> /\ m.type = "result" /\ out_q' = Take(out_q, s)
      /\ s \in FinalOutput /\ engine_outputs' = [engine_outputs EXCEPT ![s] = m.outputs]
      /\ current' = [stage |-> s, request_id |-> r] /\ yielded' = Append(yielded, y)
      /\ loop' = "yielded"
      /\ UNCHANGED <<seeded, at, completed_requests, in_q, workerVars, store, dropped, boundVars>>
  BY DEF CollectAndYield, Collects, Visiting, Holding
<1>2. /\ Tail(out_q[s]) \in Seq(ResultType) /\ m \in ResultType /\ r \in Requests
      /\ m.outputs = <<r>> /\ r # NoRequest /\ r \in Named(out_q[s])
      /\ Named(Tail(out_q[s])) = Named(out_q[s]) \ {r} /\ OnceIn(Tail(out_q[s]))
      /\ \A e \in Elements(Tail(out_q[s])) : ResultOk(e)
  BY <1>1, ResultTaken, BoundTypes DEF ResultOk
<1>3. y \in Output /\ y.stage = s /\ y.request_id = r /\ y.outputs = <<r>>
  <2>1. m.outputs \in Seq(Requests)
    BY <1>2 DEF ResultType
  <2>2. y = [stage |-> s, request_id |-> r, outputs |-> m.outputs]
    OBVIOUS
  <2> HIDE DEF m, y
  <2> QED BY <1>2, <2>1, <2>2
<1> HIDE DEF m, y
<1>4. yielded \in Seq(Output) /\ current.request_id = NoRequest
  BY <1>1, NoCurrent DEF SyncInv, LoopTypes
<1>5. out_q'[s] = Tail(out_q[s]) /\ \A x \in Stages : x # s => out_q'[x] = out_q[x]
  BY <1>1 DEF Take, SyncInv, QueueTypes
<1>6. Held(r, "result", s) /\ "result" \in Kinds /\ "yielded" \in Kinds
  BY <1>2 DEF Held, Kinds
<1>7. /\ \A l \in Kinds, t \in Stages : Held(r, l, t) => l = "result" /\ t = s
      /\ s <= FinalStage[r] /\ StagesYielded(r) = FinalOutput \cap 0..UpTo("result", s)
      /\ seeded \in Nat /\ CountInv /\ \A q \in Requests : WhereInv(q)
  BY <1>2, <1>6, OnePlace
<1>8. ASSUME NEW q \in Requests, NEW l \in Kinds, NEW x \in Stages
      PROVE  /\ q = r => (Held(q, l, x)' <=> l = "yielded" /\ x = s)
             /\ q # r => (Held(q, l, x)' <=> Held(q, l, x))
  <2>1. CASE l = "result"
    <3>1. r \in Named(out_q[x]) => x = s
      BY <1>7, <2>1 DEF Held
    <3>2. CASE x = s
      BY <1>2, <1>5, <2>1, <3>2 DEF Held
    <3>3. CASE x # s
      BY <1>5, <2>1, <3>1, <3>3 DEF Held
    <3> QED BY <3>2, <3>3
  <2>2. CASE l = "yielded"
    <3>1. current'.request_id = r /\ current'.stage = s
      BY <1>1
    <3>2. ~Held(q, l, x)
      BY <1>4, <2>2, BoundTypes DEF Held
    <3> QED BY <2>2, <3>1, <3>2 DEF Held
  <2>3. CASE l = "task" \/ l = "batch"
    <3>1. Held(q, l, x)' <=> Held(q, l, x)
      BY <1>1, <2>3 DEF Held, workerVars
    <3> QED BY <1>7, <2>3, <3>1
  <2> QED BY <2>1, <2>2, <2>3 DEF Kinds
<1>9. /\ \A q : StagesYielded(q)' = StagesYielded(q) \cup (IF q = r THEN {s} ELSE {})
      /\ DOMAIN yielded = 1..Len(yielded) /\ Len(yielded) \in Nat
      /\ DOMAIN yielded' = 1..Len(yielded) + 1
      /\ yielded'[Len(yielded) + 1] = y /\ \A i \in 1..Len(yielded) : yielded'[i] = yielded[i]
      /\ yielded' \in Seq(Output)
  <2>1. /\ DOMAIN yielded = 1..Len(yielded) /\ Len(yielded) \in Nat
        /\ DOMAIN yielded' = 1..Len(yielded) + 1
        /\ yielded'[Len(yielded) + 1] = y /\ \A i \in 1..Len(yielded) : yielded'[i] = yielded[i]
        /\ yielded' \in Seq(Output)
    BY <1>1, <1>3, <1>4, AppendProperties, LenProperties
  <2>2. ASSUME NEW q PROVE StagesYielded(q)' = StagesYielded(q) \cup (IF q = r THEN {s} ELSE {})
    <3>1. ASSUME NEW z \in StagesYielded(q)'
          PROVE  z \in StagesYielded(q) \cup (IF q = r THEN {s} ELSE {})
      <4>1. PICK i \in DOMAIN yielded' : yielded'[i].request_id = q /\ z = yielded'[i].stage
        BY <3>1 DEF StagesYielded
      <4>2. i \in 1..Len(yielded) \/ i = Len(yielded) + 1
        BY <2>1
      <4> QED BY <1>3, <2>1, <4>1, <4>2 DEF StagesYielded
    <3>2. ASSUME NEW z \in StagesYielded(q) PROVE z \in StagesYielded(q)'
      <4>1. PICK i \in DOMAIN yielded : yielded[i].request_id = q /\ z = yielded[i].stage
        BY <3>2 DEF StagesYielded
      <4>2. i \in DOMAIN yielded' /\ yielded'[i] = yielded[i]
        BY <2>1, <4>1
      <4> QED BY <4>1, <4>2 DEF StagesYielded
    <3>3. q = r => s \in StagesYielded(q)'
      <4>1. Len(yielded) + 1 \in DOMAIN yielded'
        BY <2>1
      <4> QED BY <1>3, <2>1, <4>1 DEF StagesYielded
    <3> QED BY <3>1, <3>2, <3>3
  <2> QED BY <2>1, <2>2
<1>10. StagesYielded(r)' = FinalOutput \cap 0..UpTo("yielded", s)
  <2>1. s \in Nat
    BY BoundTypes
  <2>2. \A x : x \in 0..s <=> x \in 0..s - 1 \/ x = s
    BY <2>1
  <2>3. FinalOutput \cap 0..s = (FinalOutput \cap 0..s - 1) \cup {s}
    BY <1>1, <2>2
  <2>4. StagesYielded(r) = FinalOutput \cap 0..s - 1 /\ UpTo("yielded", s) = s
    BY <1>7 DEF UpTo
  <2>5. StagesYielded(r)' = StagesYielded(r) \cup {s}
    BY <1>9
  <2> QED BY <2>3, <2>4, <2>5
<1>11. (\A q \in Requests : WhereInv(q)') /\ CountInv'
  <2>1. \A q \in Requests \ {r} : StagesYielded(q)' = StagesYielded(q)
    BY <1>9
  <2>2. UNCHANGED <<seeded, dropped, completed_requests>>
    BY <1>1
  <2>3. /\ \A l \in Kinds, x \in Stages : Held(r, l, x)' <=> l = "yielded" /\ x = s
        /\ \A q \in Requests \ {r}, l \in Kinds, x \in Stages : Held(q, l, x)' <=> Held(q, l, x)
    <3>1. ASSUME NEW l \in Kinds, NEW x \in Stages PROVE Held(r, l, x)' <=> l = "yielded" /\ x = s
      BY <1>2, <1>8
    <3>2. ASSUME NEW q \in Requests \ {r}, NEW l \in Kinds, NEW x \in Stages
          PROVE  Held(q, l, x)' <=> Held(q, l, x)
      BY <1>8
    <3> QED BY <3>1, <3>2
  <2> QED BY <1>2, <1>6, <1>7, <1>10, <2>1, <2>2, <2>3, MovedOne
<1>12. OnceInv' /\ TasksInv' /\ ResultsInv' /\ StoreInv'
  <2>1. \A x \in Stages : OnceIn(out_q'[x]) /\ \A e \in Elements(out_q'[x]) : ResultOk(e)
    BY <1>2, <1>5, QueueFacts
  <2>2. UNCHANGED <<in_q, worker, batch_tasks, store>>
    BY <1>1 DEF workerVars
  <2>3. OnceInv' /\ ResultsInv'
    BY <2>1, <2>2 DEF SyncInv, RequestsInv, OnceInv, ResultsInv
  <2>4. TasksInv'
    BY <2>2 DEF SyncInv, RequestsInv, TasksInv, GenerateOk
  <2>5. StoreInv'
    BY <2>2 DEF SyncInv, RequestsInv, StoreInv, Asks
  <2> QED BY <2>3, <2>4, <2>5
<1>13. YieldedInv'
  <2>1. YieldedInv /\ s \in Nat
    BY BoundTypes DEF SyncInv, RequestsInv
  <2>2. \A i \in DOMAIN yielded' : yielded'[i].outputs = <<yielded'[i].request_id>>
    <3>1. \A i \in DOMAIN yielded' : i \in 1..Len(yielded) \/ i = Len(yielded) + 1
      BY <1>9
    <3> QED BY <1>3, <1>9, <2>1, <3>1 DEF YieldedInv
  <2>3. ASSUME NEW i \in DOMAIN yielded', NEW j \in DOMAIN yielded', i < j,
               yielded'[i].request_id = yielded'[j].request_id
        PROVE  yielded'[i].stage < yielded'[j].stage
    <3>1. i \in 1..Len(yielded) /\ (j \in 1..Len(yielded) \/ j = Len(yielded) + 1)
      BY <1>9, <2>3
    <3>2. CASE j \in 1..Len(yielded)
      BY <1>9, <2>1, <2>3, <3>1, <3>2 DEF YieldedInv
    <3>3. CASE j = Len(yielded) + 1
      <4>1. yielded'[i] = yielded[i] /\ yielded'[j].stage = s /\ yielded[i].request_id = r
        BY <1>3, <1>9, <2>3, <3>1, <3>3
      <4>2. yielded[i].stage \in StagesYielded(r)
        BY <1>9, <3>1, <4>1 DEF StagesYielded
      <4>3. yielded[i].stage \in 0..s - 1
        BY <1>7, <4>2 DEF UpTo
      <4> QED BY <2>1, <4>1, <4>3
    <3> QED BY <3>1, <3>2, <3>3
  <2> QED BY <2>2, <2>3 DEF YieldedInv
<1>14. QueueTypes'
  <2>1. out_q' \in [Stages -> Seq(ResultType)]
    BY <1>1, <1>2 DEF Take, SyncInv, QueueTypes
  <2> QED BY <1>1, <2>1 DEF SyncInv, QueueTypes
<1>15. WorkerTypes'
  BY <1>1 DEF SyncInv, WorkerTypes, workerVars
<1>16. engine_outputs'[s] = <<r>> /\ engine_outputs' \in [Stages -> Seq(Requests)]
  BY <1>1, <1>2 DEF SyncInv, LoopTypes
<1>17. LoopTypes'
  BY <1>1, <1>2, <1>9, <1>16 DEF SyncInv, LoopTypes, boundVars
<1>18. LoopInv'
  BY <1>1, <1>2, <1>16 DEF SyncInv, LoopInv
<1> QED BY <1>11, <1>12, <1>13, <1>14, <1>15, <1>17, <1>18 DEF SyncInv, RequestsInv

(* A control message to one stage.                                         *)
LEMMA ControlPut ==
  ASSUME SyncInv, NEW s \in Stages, NEW type \in {"shutdown", "profiler_stop"},
         in_q' = Put(in_q, s, Control(type))
  PROVE  /\ in_q' \in [Stages -> Seq(TaskType)]
         /\ \A x \in Stages : SameTasks(in_q[x], in_q'[x])
<1>1. /\ in_q \in [Stages -> Seq(TaskType)] /\ in_q' = [in_q EXCEPT ![s] = Append(in_q[s], Control(type))]
  BY DEF SyncInv, QueueTypes, Put
<1>2. Append(in_q[s], Control(type)) \in Seq(TaskType) /\ SameTasks(in_q[s], Append(in_q[s], Control(type)))
  BY ControlAdded
<1>3. \A x \in Stages : SameTasks(in_q[x], in_q[x])
  BY QueueFacts
<1> QED BY <1>1, <1>2, <1>3

(* The types of what no step of the kind changes.                          *)
LEMMA SameTypes ==
  ASSUME SyncInv
  PROVE  /\ in_q' = in_q => /\ in_q' \in [Stages -> Seq(TaskType)]
                            /\ \A x \in Stages : SameTasks(in_q[x], in_q'[x])
         /\ out_q' = out_q => /\ out_q' \in [Stages -> Seq(ResultType)]
                              /\ \A x \in Stages : SameResults(out_q[x], out_q'[x])
         /\ store' = store => store' \subseteq [to : Stages, request_id : Requests, inputs : Seq(Requests)]
         /\ UNCHANGED workerVars => WorkerTypes'
<1>1. \A x \in Stages : SameTasks(in_q[x], in_q[x]) /\ SameResults(out_q[x], out_q[x])
  BY QueueFacts
<1>2. UNCHANGED workerVars => WorkerTypes'
  BY DEF SyncInv, WorkerTypes, workerVars
<1>3. QueueTypes
  BY DEF SyncInv
<1> QED BY <1>1, <1>2, <1>3 DEF QueueTypes

(* An error: the request is dropped.                                       *)
LEMMA CollectErrorKeeps ==
  ASSUME SyncInv, NEW s \in Stages, CollectError(s)
  PROVE  SyncInv'
<1> DEFINE m == Head(out_q[s])
           r == Head(out_q[s]).request_id
<1>1. /\ loop = "running" /\ at = s /\ out_q[s] # <<>> /\ m.type = "error" /\ out_q' = Take(out_q, s)
      /\ at' = s + 1 /\ dropped' = dropped \cup {r}
      /\ UNCHANGED <<loop, seeded, current, completed_requests, engine_outputs, yielded, in_q,
                     workerVars, store, boundVars>>
  BY DEF CollectError, Collects, Visiting
<1>2. Tail(out_q[s]) \in Seq(ResultType) /\ r \in Requests /\ r # NoRequest
  BY <1>1, ResultTaken, BoundTypes DEF ResultOk
<1> HIDE DEF m
<1>3. Leaves(r, "result", s)
  BY <1>1, <1>2, ResultLeaves
<1> HIDE DEF r
<1>4. /\ in_q' \in [Stages -> Seq(TaskType)] /\ \A x \in Stages : SameTasks(in_q[x], in_q'[x])
      /\ store' \subseteq [to : Stages, request_id : Requests, inputs : Seq(Requests)] /\ WorkerTypes'
  BY <1>1, SameTypes
<1>5. RequestsInv'
  <2>1. UNCHANGED <<store, completed_requests>>
    BY <1>1
  <2> QED BY <1>1, <1>3, <1>4, <2>1, DropStep
<1>6. out_q' \in [Stages -> Seq(ResultType)]
  BY <1>1, <1>2 DEF Take, SyncInv, QueueTypes
<1>7. s + 1 \in 0..NumStages
  <2>1. s \in Nat /\ NumStages \in Nat /\ s + 1 <= NumStages
    BY BoundTypes
  <2> QED BY <2>1
<1>8. LoopTypes'
  BY <1>1, <1>2, <1>7 DEF SyncInv, LoopTypes, boundVars
<1>9. LoopInv'
  BY <1>1, NoCurrent, LoopIdle
<1> QED BY <1>4, <1>5, <1>6, <1>8, <1>9 DEF SyncInv, QueueTypes

(* The caller closes.                                                      *)
LEMMA CloseKeeps ==
  ASSUME SyncInv, Close
  PROVE  SyncInv'
<1> DEFINE r == current.request_id
<1>1. /\ loop \in {"yielded", "returned"} /\ loop' = "closing" /\ at' = 0 /\ current' = NoResult
      /\ dropped' = IF loop = "yielded" THEN dropped \cup {r} ELSE dropped
      /\ UNCHANGED <<seeded, completed_requests, engine_outputs, yielded, in_q, out_q,
                     workerVars, store, boundVars>>
  BY DEF Close
<1>2. current' \in [stage : Stages, request_id : Requests \cup {NoRequest}] /\ current'.request_id = NoRequest
  BY <1>1, BoundTypes DEF NoResult
<1>3. /\ in_q' \in [Stages -> Seq(TaskType)] /\ \A x \in Stages : SameTasks(in_q[x], in_q'[x])
      /\ out_q' \in [Stages -> Seq(ResultType)] /\ \A x \in Stages : SameResults(out_q[x], out_q'[x])
      /\ store' \subseteq [to : Stages, request_id : Requests, inputs : Seq(Requests)] /\ WorkerTypes'
  BY <1>1, SameTypes
<1>4. loop = "yielded" => r \in Requests
  BY <1>1 DEF SyncInv, LoopInv, LoopTypes
<1>5. RequestsInv'
  <2>1. CASE loop = "yielded"
    <3>1. r # NoRequest
      BY <2>1 DEF SyncInv, LoopInv
    <3>2. Leaves(r, "yielded", current.stage)
      BY <1>1, <1>2, <3>1, CurrentLeaves
    <3>3. UNCHANGED <<store, completed_requests>> /\ dropped' = dropped \cup {r}
      BY <1>1, <2>1
    <3> HIDE DEF r
    <3> QED BY <1>3, <3>2, <3>3, DropStep
  <2>2. CASE loop = "returned"
    <3>1. current.request_id = NoRequest
      BY <2>2, NoCurrent
    <3>2. UNCHANGED <<batch_tasks, store, seeded, dropped, completed_requests, yielded>> /\ UNCHANGED worker
      BY <1>1, <2>2 DEF workerVars
    <3> QED BY <1>2, <1>3, <3>1, <3>2, QuietStep
  <2> QED BY <1>1, <2>1, <2>2
<1>6. LoopTypes'
  <2>1. 0 \in 0..NumStages
    BY BoundTypes
  <2>2. dropped' \subseteq Requests
    BY <1>1, <1>4 DEF SyncInv, LoopTypes
  <2> QED BY <1>1, <1>2, <2>1, <2>2 DEF SyncInv, LoopTypes, boundVars
<1>7. LoopInv'
  BY <1>1, <1>2, LoopIdle
<1> QED BY <1>3, <1>5, <1>6, <1>7 DEF SyncInv, QueueTypes

(* A step that moves no request.                                           *)
LEMMA QuietKeeps ==
  ASSUME SyncInv,
         in_q' \in [Stages -> Seq(TaskType)], \A s \in Stages : SameTasks(in_q[s], in_q'[s]),
         out_q' \in [Stages -> Seq(ResultType)], \A s \in Stages : SameResults(out_q[s], out_q'[s]),
         \A s \in Stages : worker[s] = "dead" => worker'[s] = "dead",
         current' = current \/ (current.request_id = NoRequest /\ current'.request_id = NoRequest),
         UNCHANGED <<batch_tasks, store, seeded, dropped, completed_requests, yielded>>,
         LoopTypes', WorkerTypes', LoopInv'
  PROVE  SyncInv'
<1>1. RequestsInv'
  BY QuietStep
<1> QED BY <1>1 DEF SyncInv, QueueTypes

(* One where the workers do nothing, and the loop only moves on.           *)
LEMMA OrchestratorKeeps ==
  ASSUME SyncInv,
         in_q' \in [Stages -> Seq(TaskType)], \A s \in Stages : SameTasks(in_q[s], in_q'[s]),
         out_q' \in [Stages -> Seq(ResultType)], \A s \in Stages : SameResults(out_q[s], out_q'[s]),
         UNCHANGED <<seeded, current, completed_requests, engine_outputs, yielded,
                     workerVars, store, dropped, faults>>,
         at' \in 0..NumStages, profiles' \in 0..MaxProfiles,
         loop' \in {"running", "yielded", "profiling", "returned", "closing", "stopping",
                    "joining", "closed"},
         LoopInv'
  PROVE  SyncInv'
<1>1. LoopTypes'
  BY DEF SyncInv, LoopTypes
<1>2. WorkerTypes' /\ worker' = worker /\ batch_tasks' = batch_tasks
  BY SameTypes DEF workerVars
<1> QED BY <1>1, <1>2, QuietKeeps

(* The count: all requests, when it is reached.                            *)
LEMMA CountRange ==
  ASSUME CountInv
  PROVE  /\ completed_requests \in 0..NumRequests
         /\ completed_requests = NumRequests => \A r \in Requests : Counted(r)
<1> DEFINE S == {r \in Requests : Counted(r)}
<1>1. S \in SUBSET Requests /\ completed_requests = Cardinality(S)
  BY DEF CountInv
<1> HIDE DEF S
<1>2. Cardinality(S) \in 0..NumRequests /\ (Cardinality(S) = NumRequests => S = Requests)
  BY <1>1, CountBound
<1> QED BY <1>1, <1>2 DEF S

(* The end of a pass.                                                      *)
LEMMA EndPassKeeps ==
  ASSUME SyncInv, EndPass
  PROVE  SyncInv'
<1>1. /\ loop = "running" /\ at' = 0
      /\ loop' = IF completed_requests < NumRequests THEN "running" ELSE "returned"
      /\ UNCHANGED <<seeded, current, completed_requests, engine_outputs, yielded, in_q, out_q,
                     workerVars, store, dropped, boundVars>>
  BY DEF EndPass
<1>2. loop' = "returned" => completed_requests' = NumRequests
  <2>1. completed_requests \in 0..NumRequests /\ NumRequests \in Nat
    BY CountRange, BoundTypes DEF SyncInv, RequestsInv
  <2> QED BY <1>1, <2>1
<1>3. LoopInv'
  BY <1>1, <1>2 DEF SyncInv, LoopInv
<1>4. at' \in 0..NumStages /\ profiles' \in 0..MaxProfiles
  BY <1>1, BoundTypes DEF SyncInv, LoopTypes, boundVars
<1> QED BY <1>1, <1>3, <1>4, SameTypes, OrchestratorKeeps DEF boundVars

(* Polling a stage that has nothing, is ready, or answers too late.        *)
LEMMA PollKeeps ==
  ASSUME SyncInv, NEW s \in Stages, PollNothing(s) \/ CollectReady(s) \/ CollectProfile(s)
  PROVE  SyncInv'
<1>1. /\ loop = "running" /\ loop' \in {"running", "closing"} /\ at' \in {s + 1, 0}
      /\ UNCHANGED <<seeded, current, completed_requests, engine_outputs, yielded, in_q,
                     workerVars, store, dropped, boundVars>>
      /\ \/ out_q' = out_q
         \/ /\ out_q[s] # <<>> /\ Head(out_q[s]).type \notin {"result", "error"}
            /\ out_q' = Take(out_q, s)
  BY DEF PollNothing, CollectReady, CollectProfile, Collects, Visiting
<1>2. out_q' \in [Stages -> Seq(ResultType)] /\ \A x \in Stages : SameResults(out_q[x], out_q'[x])
  <2>1. CASE out_q' = out_q
    BY <2>1, SameTypes
  <2>2. CASE /\ out_q[s] # <<>> /\ Head(out_q[s]).type \notin {"result", "error"}
             /\ out_q' = Take(out_q, s)
    <3>1. Tail(out_q[s]) \in Seq(ResultType) /\ SameResults(out_q[s], Tail(out_q[s]))
      BY <2>2, ResultTaken DEF ResultOk
    <3>2. out_q \in [Stages -> Seq(ResultType)] /\ out_q' = [out_q EXCEPT ![s] = Tail(out_q[s])]
      BY <2>2 DEF Take, SyncInv, QueueTypes
    <3>3. \A x \in Stages : SameResults(out_q[x], out_q[x])
      BY QueueFacts
    <3> QED BY <3>1, <3>2, <3>3
  <2> QED BY <1>1, <2>1, <2>2
<1>3. at' \in 0..NumStages /\ profiles' \in 0..MaxProfiles
  <2>1. s \in Nat /\ NumStages \in Nat /\ s + 1 <= NumStages
    BY BoundTypes
  <2>2. s + 1 \in 0..NumStages /\ 0 \in 0..NumStages
    BY <2>1
  <2> QED BY <1>1, <2>2 DEF SyncInv, LoopTypes, boundVars
<1>4. LoopInv'
  BY <1>1, NoCurrent, LoopIdle
<1> QED BY <1>1, <1>2, <1>3, <1>4, SameTypes, OrchestratorKeeps DEF boundVars

(* stop_profile goes to the first stage.                                   *)
LEMMA StopProfileKeeps ==
  ASSUME SyncInv, StopProfile
  PROVE  SyncInv'
<1>1. /\ loop = "yielded" /\ profiles < MaxProfiles /\ profiles' = profiles + 1
      /\ loop' = "profiling" /\ at' = 0 /\ in_q' = Put(in_q, 0, Control("profiler_stop"))
      /\ UNCHANGED <<seeded, current, completed_requests, engine_outputs, yielded, out_q,
                     workerVars, store, dropped, faults>>
  BY DEF StopProfile
<1>2. 0 \in Stages /\ NumStages \in Nat /\ 0 < NumStages
  BY BoundTypes DEF Stages
<1>3. in_q' \in [Stages -> Seq(TaskType)] /\ \A x \in Stages : SameTasks(in_q[x], in_q'[x])
  BY <1>1, <1>2, ControlPut
<1>4. at' \in 0..NumStages /\ profiles' \in 0..MaxProfiles
  <2>1. profiles \in 0..MaxProfiles /\ MaxProfiles \in Nat
    BY SyncAssumption DEF SyncInv, LoopTypes
  <2> QED BY <1>1, <1>2, <2>1
<1>5. LoopInv'
  BY <1>1, <1>2 DEF SyncInv, LoopInv
<1> QED BY <1>1, <1>3, <1>4, <1>5, SameTypes, OrchestratorKeeps

(* From one stage to the next.                                             *)
LEMMA StopNextKeeps ==
  ASSUME SyncInv, NEW s \in Stages, loop = "profiling", StopNext(s),
         UNCHANGED <<seeded, current, engine_outputs>>
  PROVE  /\ in_q' \in [Stages -> Seq(TaskType)] /\ \A x \in Stages : SameTasks(in_q[x], in_q'[x])
         /\ at' \in 0..NumStages /\ loop' \in {"yielded", "profiling"} /\ LoopInv'
<1>1. /\ s \in Nat /\ NumStages \in Nat /\ current.stage \in Stages /\ current.stage \in Nat
      /\ current.stage + 1 <= NumStages
  BY BoundTypes DEF SyncInv, LoopTypes
<1>2. CASE s + 1 < NumStages
  <2>1. at' = s + 1 /\ in_q' = Put(in_q, s + 1, Control("profiler_stop")) /\ loop' = loop
    BY <1>2 DEF StopNext
  <2>2. s + 1 \in Stages /\ s + 1 \in 0..NumStages
    BY <1>1, <1>2 DEF Stages
  <2>3. in_q' \in [Stages -> Seq(TaskType)] /\ \A x \in Stages : SameTasks(in_q[x], in_q'[x])
    BY <2>1, <2>2, ControlPut
  <2>4. LoopInv'
    BY <1>2, <2>1 DEF SyncInv, LoopInv
  <2> QED BY <2>1, <2>2, <2>3, <2>4
<1>3. CASE ~(s + 1 < NumStages)
  <2>1. at' = current.stage /\ loop' = "yielded" /\ in_q' = in_q
    BY <1>3 DEF StopNext
  <2>2. current.stage \in 0..NumStages
    BY <1>1
  <2>3. LoopInv'
    BY <2>1 DEF SyncInv, LoopInv
  <2> QED BY <2>1, <2>2, <2>3, SameTypes
<1> QED BY <1>2, <1>3

(* No answer in time.                                                      *)
LEMMA ProfileTimeoutKeeps ==
  ASSUME SyncInv, NEW s \in Stages, ProfileTimeout(s)
  PROVE  SyncInv'
<1>1. /\ loop = "profiling" /\ StopNext(s)
      /\ UNCHANGED <<seeded, current, completed_requests, engine_outputs, yielded, out_q,
                     workerVars, store, dropped, boundVars>>
  BY DEF ProfileTimeout
<1>2. /\ in_q' \in [Stages -> Seq(TaskType)] /\ \A x \in Stages : SameTasks(in_q[x], in_q'[x])
      /\ at' \in 0..NumStages /\ loop' \in {"yielded", "profiling"} /\ LoopInv'
  BY <1>1, StopNextKeeps
<1>3. profiles' \in 0..MaxProfiles
  BY <1>1 DEF SyncInv, LoopTypes, boundVars
<1> QED BY <1>1, <1>2, <1>3, SameTypes, OrchestratorKeeps DEF boundVars

(* An answer, or what is taken for it: a result is lost.                   *)
LEMMA ProfileAnswerKeeps ==
  ASSUME SyncInv, NEW s \in Stages, ProfileAnswer(s)
  PROVE  SyncInv'
<1> DEFINE r == Head(out_q[s]).request_id
<1>1. /\ loop = "profiling" /\ StopNext(s) /\ out_q[s] # <<>> /\ out_q' = Take(out_q, s)
      /\ dropped' = dropped \cup ({r} \ {NoRequest})
      /\ UNCHANGED <<seeded, current, completed_requests, engine_outputs, yielded,
                     workerVars, store, boundVars>>
  BY DEF ProfileAnswer
<1>2. /\ in_q' \in [Stages -> Seq(TaskType)] /\ \A x \in Stages : SameTasks(in_q[x], in_q'[x])
      /\ at' \in 0..NumStages /\ loop' \in {"yielded", "profiling"} /\ LoopInv'
  BY <1>1, StopNextKeeps
<1>3. /\ Tail(out_q[s]) \in Seq(ResultType) /\ Head(out_q[s]) \in ResultType
      /\ r = NoRequest => SameResults(out_q[s], Tail(out_q[s]))
  BY <1>1, ResultTaken
<1>4. r \in Requests \cup {NoRequest}
  BY <1>3 DEF ResultType
<1>5. out_q' = [out_q EXCEPT ![s] = Tail(out_q[s])] /\ out_q \in [Stages -> Seq(ResultType)]
  BY <1>1 DEF Take, SyncInv, QueueTypes
<1>6. out_q' \in [Stages -> Seq(ResultType)] /\ profiles' \in 0..MaxProfiles
  BY <1>1, <1>3, <1>5 DEF SyncInv, LoopTypes, boundVars
<1>7. CASE r = NoRequest
  <2>1. \A x \in Stages : SameResults(out_q[x], out_q[x])
    BY QueueFacts
  <2>2. \A x \in Stages : SameResults(out_q[x], out_q'[x])
    BY <1>3, <1>5, <1>7, <2>1
  <2>3. dropped' = dropped
    BY <1>1, <1>7
  <2> QED BY <1>1, <1>2, <1>6, <2>2, <2>3, OrchestratorKeeps DEF boundVars
<1>8. CASE r # NoRequest
  <2>1. dropped' = dropped \cup {r} /\ dropped' \subseteq Requests
    BY <1>1, <1>4, <1>8 DEF SyncInv, LoopTypes
  <2>2. Leaves(r, "result", s)
    BY <1>1, <1>8, ResultLeaves
  <2> HIDE DEF r
  <2>3. UNCHANGED <<store, completed_requests>>
    BY <1>1
  <2>4. RequestsInv'
    BY <1>2, <2>1, <2>2, <2>3, DropStep
  <2>5. LoopTypes'
    BY <1>1, <1>2, <2>1 DEF SyncInv, LoopTypes, boundVars
  <2>6. WorkerTypes' /\ store' \subseteq [to : Stages, request_id : Requests, inputs : Seq(Requests)]
    BY <1>1, SameTypes
  <2> QED BY <1>2, <1>6, <2>4, <2>5, <2>6 DEF SyncInv, QueueTypes
<1> QED BY <1>7, <1>8

(* close(): a shutdown to every stage.                                     *)
LEMMA SendShutdownsKeeps ==
  ASSUME SyncInv, SendShutdowns
  PROVE  SyncInv'
<1>1. /\ loop = "closing" /\ loop' = "stopping" /\ at' = 0
      /\ in_q' = [x \in Stages |-> Append(in_q[x], Control("shutdown"))]
      /\ UNCHANGED <<seeded, current, completed_requests, engine_outputs, yielded, out_q,
                     workerVars, store, dropped, boundVars>>
  BY DEF SendShutdowns
<1>2. 0 < NumStages /\ 0 \in 0..NumStages
  BY BoundTypes DEF Stages
<1>3. \A x \in Stages : /\ Append(in_q[x], Control("shutdown")) \in Seq(TaskType)
                        /\ SameTasks(in_q[x], Append(in_q[x], Control("shutdown")))
  BY ControlAdded
<1>4. in_q' \in [Stages -> Seq(TaskType)] /\ \A x \in Stages : SameTasks(in_q[x], in_q'[x])
  BY <1>1, <1>3
<1>5. LoopInv'
  BY <1>1, <1>2, NoCurrent, LoopIdle
<1>6. profiles' \in 0..MaxProfiles
  BY <1>1 DEF SyncInv, LoopTypes, boundVars
<1> QED BY <1>1, <1>2, <1>4, <1>5, <1>6, SameTypes, OrchestratorKeeps DEF boundVars

(* Another one for each stage.                                             *)
LEMMA StopWorkerKeeps ==
  ASSUME SyncInv, NEW s \in Stages, StopWorker(s)
  PROVE  SyncInv'
<1>1. /\ loop = "stopping" /\ at = s /\ loop' = "joining" /\ in_q' = Put(in_q, s, Control("shutdown"))
      /\ UNCHANGED <<seeded, at, current, completed_requests, engine_outputs, yielded, out_q,
                     workerVars, store, dropped, boundVars>>
  BY DEF StopWorker
<1>2. in_q' \in [Stages -> Seq(TaskType)] /\ \A x \in Stages : SameTasks(in_q[x], in_q'[x])
  BY <1>1, ControlPut
<1>3. at' < NumStages /\ at' \in 0..NumStages /\ profiles' \in 0..MaxProfiles
  BY <1>1 DEF SyncInv, LoopTypes, LoopInv, boundVars
<1>4. LoopInv'
  BY <1>1, <1>3, NoCurrent, LoopIdle
<1> QED BY <1>1, <1>2, <1>3, <1>4, SameTypes, OrchestratorKeeps DEF boundVars

(* A stage has ended, or is terminated.                                    *)
LEMMA JoinKeeps ==
  ASSUME SyncInv, NEW s \in Stages, Join(s)
  PROVE  SyncInv'
<1>1. /\ loop = "joining" /\ at' = s + 1
      /\ worker' = [worker EXCEPT ![s] = IF worker[s] \in {"exited", "dead"} THEN worker[s] ELSE "terminated"]
      /\ loop' = IF s + 1 < NumStages THEN "stopping" ELSE "closed"
      /\ UNCHANGED <<seeded, current, completed_requests, engine_outputs, yielded, in_q, out_q,
                     batch_tasks, store, dropped, boundVars>>
  BY DEF Join
<1>2. s + 1 \in 0..NumStages
  <2>1. s \in Nat /\ NumStages \in Nat /\ s + 1 <= NumStages
    BY BoundTypes
  <2> QED BY <2>1
<1>3. LoopTypes'
  BY <1>1, <1>2 DEF SyncInv, LoopTypes, boundVars
<1>4. LoopInv'
  BY <1>1, NoCurrent, LoopIdle
<1>5. WorkerTypes'
  <2>1. WorkerTypes
    BY DEF SyncInv
  <2>2. worker' \in [Stages -> {"starting", "idle", "filling", "full", "exited", "dead", "terminated"}]
    BY <1>1, <2>1 DEF WorkerTypes
  <2>3. ASSUME NEW x \in Stages PROVE BatchOk(worker'[x], batch_tasks'[x])
    BY <1>1, <2>1 DEF WorkerTypes, BatchOk
  <2> QED BY <1>1, <2>1, <2>2, <2>3 DEF WorkerTypes
<1>6. \A x \in Stages : worker[x] = "dead" => worker'[x] = "dead"
  BY <1>1 DEF SyncInv, WorkerTypes
<1> QED BY <1>1, <1>3, <1>4, <1>5, <1>6, SameTypes, QuietKeeps

-----------------------------------------------------------------------------
(* The steps of a worker.                                                  *)

(* The loop goes on as it was.                                             *)
LEMMA SameLoop ==
  ASSUME SyncInv, UNCHANGED loopVars
  PROVE  /\ LoopInv' /\ UNCHANGED <<seeded, current, completed_requests, yielded>>
         /\ dropped' \subseteq Requests /\ faults' \in 0..MaxFaults /\ profiles' = profiles => LoopTypes'
BY DEF SyncInv, LoopInv, LoopTypes, loopVars

BatchBecomes(s, b) == batch_tasks' = [batch_tasks EXCEPT ![s] = b]

(* A worker goes from one state to another.                                *)
LEMMA WorkerGoes ==
  ASSUME SyncInv, NEW s \in Stages, NEW w \in {"starting", "idle", "filling", "full", "exited", "dead"},
         Goes(s, w), NEW b \in Seq(TaskType), BatchBecomes(s, b), BatchOk(w, b)
  PROVE  /\ WorkerTypes'
         /\ worker'[s] = w /\ batch_tasks'[s] = b
         /\ \A x \in Stages \ {s} : worker'[x] = worker[x] /\ batch_tasks'[x] = batch_tasks[x]
<1>1. WorkerTypes
  BY DEF SyncInv
<1>2. /\ worker' \in [Stages -> {"starting", "idle", "filling", "full", "exited", "dead", "terminated"}]
      /\ batch_tasks' \in [Stages -> Seq(TaskType)]
      /\ worker'[s] = w /\ batch_tasks'[s] = b
      /\ \A x \in Stages \ {s} : worker'[x] = worker[x] /\ batch_tasks'[x] = batch_tasks[x]
  BY <1>1 DEF WorkerTypes, Goes, BatchBecomes
<1>3. \A x \in Stages : BatchOk(worker'[x], batch_tasks'[x])
  BY <1>1, <1>2 DEF WorkerTypes
<1> QED BY <1>2, <1>3 DEF WorkerTypes

(* A step that only the worker sees, but for control messages.             *)
LEMMA WorkerQuiet ==
  ASSUME SyncInv, NEW s \in Stages,
         in_q' \in [Stages -> Seq(TaskType)], \A x \in Stages : SameTasks(in_q[x], in_q'[x]),
         out_q' \in [Stages -> Seq(ResultType)], \A x \in Stages : SameResults(out_q[x], out_q'[x]),
         NEW w \in {"idle", "filling", "full", "exited"}, Goes(s, w),
         worker[s] # "dead", BatchOk(w, batch_tasks[s]),
         UNCHANGED <<loopVars, batch_tasks, store, dropped, boundVars>>
  PROVE  SyncInv'
<1>1. batch_tasks[s] \in Seq(TaskType) /\ batch_tasks' = [batch_tasks EXCEPT ![s] = batch_tasks[s]]
  BY DEF SyncInv, WorkerTypes
<1>2. WorkerTypes' /\ worker'[s] = w /\ \A x \in Stages \ {s} : worker'[x] = worker[x]
  <2>1. w \in {"starting", "idle", "filling", "full", "exited", "dead"}
    OBVIOUS
  <2> DEFINE b == batch_tasks[s]
  <2>2. b \in Seq(TaskType) /\ BatchBecomes(s, b) /\ BatchOk(w, b)
    BY <1>1 DEF BatchBecomes
  <2> HIDE DEF b
  <2> QED BY <2>1, <2>2, WorkerGoes
<1>3. LoopInv' /\ LoopTypes' /\ UNCHANGED <<seeded, current, completed_requests, yielded>>
  BY SameLoop DEF SyncInv, LoopTypes, boundVars
<1>4. \A x \in Stages : worker[x] = "dead" => worker'[x] = "dead"
  BY <1>2
<1> QED BY <1>2, <1>3, <1>4, QuietKeeps

(* A queue of tasks, or of results, that holds the same requests.          *)
LEMMA OneQueue ==
  ASSUME SyncInv, NEW s \in Stages
  PROVE  /\ \A q : /\ in_q' = [in_q EXCEPT ![s] = q] /\ q \in Seq(TaskType) /\ SameTasks(in_q[s], q)
                   => /\ in_q' \in [Stages -> Seq(TaskType)]
                      /\ \A x \in Stages : SameTasks(in_q[x], in_q'[x])
         /\ \A q : /\ out_q' = [out_q EXCEPT ![s] = q] /\ q \in Seq(ResultType) /\ SameResults(out_q[s], q)
                   => /\ out_q' \in [Stages -> Seq(ResultType)]
                      /\ \A x \in Stages : SameResults(out_q[x], out_q'[x])
<1>1. \A x \in Stages : SameTasks(in_q[x], in_q[x]) /\ SameResults(out_q[x], out_q[x])
  BY QueueFacts
<1>2. in_q \in [Stages -> Seq(TaskType)] /\ out_q \in [Stages -> Seq(ResultType)]
  BY DEF SyncInv, QueueTypes
<1>3. ASSUME NEW q, in_q' = [in_q EXCEPT ![s] = q], q \in Seq(TaskType), SameTasks(in_q[s], q)
      PROVE  /\ in_q' \in [Stages -> Seq(TaskType)]
             /\ \A x \in Stages : SameTasks(in_q[x], in_q'[x])
  BY <1>1, <1>2, <1>3
<1>4. ASSUME NEW q, out_q' = [out_q EXCEPT ![s] = q], q \in Seq(ResultType), SameResults(out_q[s], q)
      PROVE  /\ out_q' \in [Stages -> Seq(ResultType)]
             /\ \A x \in Stages : SameResults(out_q[x], out_q'[x])
  BY <1>1, <1>2, <1>4
<1> QED BY <1>3, <1>4

(* Starting, stopping, and waiting for the batch to fill.                  *)
LEMMA WorkerControlKeeps ==
  ASSUME SyncInv, NEW s \in Stages,
         Ready(s) \/ GetShutdown(s) \/ GetProfilerStop(s) \/ PutBackShutdown(s) \/ BatchTimeout(s)
  PROVE  SyncInv'
<1>0. /\ BatchOk(worker[s], batch_tasks[s])
      /\ worker \in [Stages -> {"starting", "idle", "filling", "full", "exited", "dead", "terminated"}]
  BY DEF SyncInv, WorkerTypes
<1>1. CASE Ready(s)
  <2>1. /\ worker[s] = "starting" /\ Goes(s, "idle")
        /\ out_q' = [out_q EXCEPT ![s] = Append(out_q[s], Result("stage_ready", NoRequest, <<>>))]
        /\ UNCHANGED <<loopVars, in_q, batch_tasks, store, dropped, boundVars>>
    BY <1>1 DEF Ready, Put
  <2>2. BatchOk("idle", batch_tasks[s])
    BY <1>0, <2>1 DEF BatchOk
  <2>3. /\ out_q' \in [Stages -> Seq(ResultType)] /\ \A x \in Stages : SameResults(out_q[x], out_q'[x])
        /\ in_q' \in [Stages -> Seq(TaskType)] /\ \A x \in Stages : SameTasks(in_q[x], in_q'[x])
    BY <2>1, AnswerAdded, OneQueue, SameTypes
  <2> QED BY <2>1, <2>2, <2>3, WorkerQuiet
<1>2. CASE GetShutdown(s)
  <2>1. /\ worker[s] = "idle" /\ Goes(s, "exited") /\ in_q[s] # <<>> /\ Head(in_q[s]).type = "shutdown"
        /\ in_q' = [in_q EXCEPT ![s] = Tail(in_q[s])]
        /\ UNCHANGED <<loopVars, out_q, batch_tasks, store, dropped, boundVars>>
    BY <1>2 DEF GetShutdown, Gets, Take
  <2>2. BatchOk("exited", batch_tasks[s])
    BY <1>0, <2>1 DEF BatchOk
  <2>3. /\ out_q' \in [Stages -> Seq(ResultType)] /\ \A x \in Stages : SameResults(out_q[x], out_q'[x])
        /\ in_q' \in [Stages -> Seq(TaskType)] /\ \A x \in Stages : SameTasks(in_q[x], in_q'[x])
    BY <2>1, ControlTaken, OneQueue, SameTypes
  <2> QED BY <2>1, <2>2, <2>3, WorkerQuiet
<1>3. CASE GetProfilerStop(s)
  <2>1. /\ worker[s] \in {"idle", "filling"} /\ worker' = worker /\ batch_tasks' = batch_tasks
        /\ in_q[s] # <<>> /\ Head(in_q[s]).type = "profiler_stop"
        /\ in_q' = [in_q EXCEPT ![s] = Tail(in_q[s])]
        /\ out_q' = [out_q EXCEPT ![s] = Append(out_q[s], Result("profiler_result", NoRequest, <<>>))]
        /\ UNCHANGED <<loopVars, batch_tasks, store, dropped, boundVars>>
    BY <1>3 DEF GetProfilerStop, Gets, Take, Put, workerVars
  <2>2. Goes(s, worker[s])
    BY <1>0, <2>1 DEF Goes
  <2>3. /\ out_q' \in [Stages -> Seq(ResultType)] /\ \A x \in Stages : SameResults(out_q[x], out_q'[x])
        /\ in_q' \in [Stages -> Seq(TaskType)] /\ \A x \in Stages : SameTasks(in_q[x], in_q'[x])
    BY <2>1, ControlTaken, AnswerAdded, OneQueue
  <2> QED BY <1>0, <2>1, <2>2, <2>3, WorkerQuiet
<1>4. CASE PutBackShutdown(s)
  <2>1. /\ worker[s] = "filling" /\ Goes(s, "full") /\ in_q[s] # <<>> /\ Head(in_q[s]).type = "shutdown"
        /\ in_q' = [in_q EXCEPT ![s] = Append(Tail(in_q[s]), Head(in_q[s]))]
        /\ UNCHANGED <<loopVars, out_q, batch_tasks, store, dropped, boundVars>>
    BY <1>4 DEF PutBackShutdown, Gets
  <2>2. BatchOk("full", batch_tasks[s])
    BY <1>0, <2>1 DEF BatchOk
  <2>3. /\ out_q' \in [Stages -> Seq(ResultType)] /\ \A x \in Stages : SameResults(out_q[x], out_q'[x])
        /\ in_q' \in [Stages -> Seq(TaskType)] /\ \A x \in Stages : SameTasks(in_q[x], in_q'[x])
    BY <2>1, ControlTaken, OneQueue, SameTypes
  <2> QED BY <2>1, <2>2, <2>3, WorkerQuiet
<1>5. CASE BatchTimeout(s)
  <2>1. /\ worker[s] = "filling" /\ Goes(s, "full")
        /\ UNCHANGED <<loopVars, in_q, out_q, batch_tasks, store, dropped, boundVars>>
    BY <1>5 DEF BatchTimeout
  <2>2. BatchOk("full", batch_tasks[s])
    BY <1>0, <2>1 DEF BatchOk
  <2>3. /\ out_q' \in [Stages -> Seq(ResultType)] /\ \A x \in Stages : SameResults(out_q[x], out_q'[x])
        /\ in_q' \in [Stages -> Seq(TaskType)] /\ \A x \in Stages : SameTasks(in_q[x], in_q'[x])
    BY <2>1, SameTypes
  <2> QED BY <2>1, <2>2, <2>3, WorkerQuiet
<1> QED BY <1>1, <1>2, <1>3, <1>4, <1>5

(* A task joins the batch.                                                 *)
LEMMA BatchTaskKeeps ==
  ASSUME SyncInv, NEW s \in Stages, in_q[s] # <<>>, NEW t, t = Head(in_q[s]), t.type = "generate",
         in_q' = Take(in_q, s), worker[s] # "dead",
         NEW b, b = Append(batch_tasks[s], t), batch_tasks' = [batch_tasks EXCEPT ![s] = b],
         NEW w \in {"filling", "full"}, Goes(s, w), BatchOk(w, b),
         UNCHANGED <<loopVars, out_q, store, dropped, boundVars>>
  PROVE  SyncInv'
<1>1. /\ in_q[s] \in Seq(TaskType) /\ OnceIn(in_q[s]) /\ batch_tasks[s] \in Seq(TaskType)
      /\ OnceIn(batch_tasks[s])
      /\ \A e \in Elements(in_q[s]) : e.type = "generate" => GenerateOk(e, s)
  BY QueueFacts
<1>2. PICK r : r = t.request_id
  OBVIOUS
<1>3. /\ Tail(in_q[s]) \in Seq(TaskType) /\ t \in TaskType /\ t \in Elements(in_q[s])
      /\ Elements(in_q[s]) = {t} \cup Elements(Tail(in_q[s]))
      /\ Named(in_q[s]) = ({r} \ {NoRequest}) \cup Named(Tail(in_q[s]))
      /\ OnceIn(Tail(in_q[s])) /\ r \notin Named(Tail(in_q[s]))
  BY <1>1, <1>2, NamedTail
<1>4. GenerateOk(t, s) /\ r \in Requests /\ r # NoRequest
  <2>1. GenerateOk(t, s)
    BY <1>1, <1>3
  <2> QED BY <1>2, <2>1, BoundTypes DEF GenerateOk
<1>5. Held(r, "task", s) /\ "task" \in Kinds /\ "batch" \in Kinds
  BY <1>3, <1>4 DEF Held, Kinds
<1>6. /\ \A l \in Kinds, x \in Stages : Held(r, l, x) => l = "task" /\ x = s
      /\ s <= FinalStage[r] /\ StagesYielded(r) = FinalOutput \cap 0..UpTo("task", s)
      /\ seeded \in Nat /\ CountInv /\ \A q \in Requests : WhereInv(q)
  BY <1>4, <1>5, OnePlace
<1>7. r \notin Named(batch_tasks[s])
  <2>1. ~Held(r, "batch", s)
    BY <1>5, <1>6
  <2> QED BY <2>1 DEF Held
<1>8. /\ b \in Seq(TaskType) /\ Elements(b) = Elements(batch_tasks[s]) \cup {t}
      /\ Named(b) = Named(batch_tasks[s]) \cup {r} /\ OnceIn(b)
  <2>1. /\ b \in Seq(TaskType) /\ Elements(b) = Elements(batch_tasks[s]) \cup {t}
        /\ Named(b) = Named(batch_tasks[s]) \cup ({t.request_id} \ {NoRequest})
        /\ OnceIn(batch_tasks[s]) /\ t.request_id \notin Named(batch_tasks[s]) => OnceIn(b)
    BY <1>1, <1>3, NamedAppend
  <2>2. {t.request_id} \ {NoRequest} = {r}
    BY <1>2, <1>4
  <2> QED BY <1>1, <1>2, <1>7, <2>1, <2>2
<1>9. /\ WorkerTypes' /\ worker'[s] = w /\ batch_tasks'[s] = b
      /\ \A x \in Stages \ {s} : worker'[x] = worker[x] /\ batch_tasks'[x] = batch_tasks[x]
  <2>1. w \in {"starting", "idle", "filling", "full", "exited", "dead"}
    OBVIOUS
  <2>2. BatchBecomes(s, b)
    BY DEF BatchBecomes
  <2> QED BY <1>8, <2>1, <2>2, WorkerGoes, ZenonT(40)
<1>10. /\ in_q' \in [Stages -> Seq(TaskType)] /\ in_q'[s] = Tail(in_q[s])
       /\ \A x \in Stages \ {s} : in_q'[x] = in_q[x]
  BY <1>3 DEF Take, SyncInv, QueueTypes
<1>11. /\ LoopInv' /\ LoopTypes' /\ UNCHANGED <<seeded, current, completed_requests, yielded>>
  BY SameLoop DEF SyncInv, LoopTypes, boundVars
<1>12. ASSUME NEW q \in Requests, NEW l \in Kinds, NEW x \in Stages
       PROVE  /\ q = r => (Held(q, l, x)' <=> l = "batch" /\ x = s)
              /\ q # r => (Held(q, l, x)' <=> Held(q, l, x))
  <2>1. CASE l = "task"
    <3>1. q = r => q \notin Named(in_q'[x])
      <4>1. r \in Named(in_q[x]) => x = s
        BY <1>6, <2>1 DEF Held
      <4> QED BY <1>3, <1>10, <4>1
    <3>2. q # r => (q \in Named(in_q'[x]) <=> q \in Named(in_q[x]))
      BY <1>3, <1>10
    <3> QED BY <2>1, <3>1, <3>2, Zenon DEF Held
  <2>2. CASE l = "batch"
    <3>1. q = r => (q \in Named(batch_tasks'[x]) <=> x = s)
      <4>1. r \notin Named(batch_tasks[x])
        BY <1>6, <2>2 DEF Held
      <4> QED BY <1>8, <1>9, <4>1
    <3>2. q # r => (q \in Named(batch_tasks'[x]) <=> q \in Named(batch_tasks[x]))
      BY <1>8, <1>9
    <3> QED BY <2>2, <3>1, <3>2 DEF Held
  <2>3. CASE l = "result" \/ l = "yielded"
    <3>1. Held(q, l, x)' <=> Held(q, l, x)
      BY <1>11, <2>3 DEF Held
    <3> QED BY <1>6, <2>3, <3>1
  <2> QED BY <2>1, <2>2, <2>3 DEF Kinds
<1>13. (\A q \in Requests : WhereInv(q)') /\ CountInv'
  <2>1. \A q \in Requests : StagesYielded(q)' = StagesYielded(q)
    BY <1>11 DEF StagesYielded
  <2>2. StagesYielded(r)' = FinalOutput \cap 0..UpTo("batch", s)
    BY <1>4, <1>6, <2>1 DEF UpTo
  <2>3. UNCHANGED <<seeded, dropped, completed_requests>>
    BY <1>11
  <2>4. \A l \in Kinds, x \in Stages : Held(r, l, x)' <=> l = "batch" /\ x = s
    BY <1>4, <1>12
  <2>5. \A q \in Requests \ {r}, l \in Kinds, x \in Stages : Held(q, l, x)' <=> Held(q, l, x)
    BY <1>12
  <2> QED BY <1>4, <1>5, <1>6, <2>1, <2>2, <2>3, <2>4, <2>5, MovedOne
<1>14. OnceInv'
  <2>1. ASSUME NEW x \in Stages PROVE OnceIn(in_q'[x]) /\ OnceIn(batch_tasks'[x]) /\ OnceIn(out_q'[x])
    BY <1>3, <1>8, <1>9, <1>10, QueueFacts
  <2> QED BY <2>1 DEF OnceInv
<1>15. TasksInv'
  <2>1. \A e, x : GenerateOk(e, x)' <=> GenerateOk(e, x)
    BY DEF GenerateOk
  <2>2. ASSUME NEW x \in Stages
        PROVE  /\ \A e \in Elements(in_q'[x]) : GenerateOk(e, x) \/ ControlOk(e)
               /\ \A e \in Elements(batch_tasks'[x]) : GenerateOk(e, x)
    <3>1. TasksInv
      BY DEF SyncInv, RequestsInv
    <3>2. CASE x = s
      BY <1>3, <1>4, <1>8, <1>9, <1>10, <3>1, <3>2, ZenonT(40) DEF TasksInv
    <3>3. CASE x # s
      BY <1>9, <1>10, <3>1, <3>3 DEF TasksInv
    <3> QED BY <3>2, <3>3
  <2> QED BY <2>1, <2>2 DEF TasksInv
<1>16. ResultsInv' /\ YieldedInv'
  BY <1>11 DEF SyncInv, RequestsInv, ResultsInv, YieldedInv
<1>17. StoreInv'
  <2>1. ASSUME NEW x \in Stages, NEW q PROVE Asks(q, x)' <=> Asks(q, x)
    <3>1. Elements(in_q'[x]) \cup Elements(batch_tasks'[x]) = Elements(in_q[x]) \cup Elements(batch_tasks[x])
      BY <1>3, <1>8, <1>9, <1>10, ZenonT(40)
    <3> QED BY <3>1 DEF Asks
  <2>2. \A x \in Stages : worker'[x] # "dead" => worker[x] # "dead"
    BY <1>9
  <2>3. \A p \in store : p.to \in Stages
    BY DEF SyncInv, QueueTypes
  <2> QED BY <2>1, <2>2, <2>3 DEF SyncInv, RequestsInv, StoreInv
<1>18. QueueTypes'
  BY <1>10 DEF SyncInv, QueueTypes
<1> QED BY <1>9, <1>11, <1>13, <1>14, <1>15, <1>16, <1>17, <1>18 DEF SyncInv, RequestsInv

(* The first task of a batch, and the next ones.                           *)
LEMMA BatchFillsKeeps ==
  ASSUME SyncInv, NEW s \in Stages, FirstOfBatch(s) \/ JoinBatch(s)
  PROVE  SyncInv'
<1> DEFINE t == Head(in_q[s])
           b == Append(batch_tasks[s], t)
<1>1. /\ in_q[s] # <<>> /\ t.type = "generate" /\ in_q' = Take(in_q, s)
      /\ worker[s] \in {"idle", "filling"}
      /\ UNCHANGED <<loopVars, out_q, store, dropped, boundVars>>
  BY DEF FirstOfBatch, JoinBatch, Gets
<1>2. /\ batch_tasks[s] \in Seq(TaskType) /\ BatchOk(worker[s], batch_tasks[s]) /\ t \in TaskType
      /\ MaxBatchSize \in Nat \ {0}
  BY <1>1, QueueFacts, NamedTail, SyncAssumption DEF SyncInv, WorkerTypes
<1>3. Len(batch_tasks[s]) \in Nat /\ Len(b) = Len(batch_tasks[s]) + 1
  BY <1>2, LenProperties, AppendProperties
<1>4. CASE FirstOfBatch(s)
  <2>1. batch_tasks[s] = <<>> /\ worker[s] # "dead"
    BY <1>2, <1>4 DEF FirstOfBatch, BatchOk
  <2>2. /\ b = <<t>> /\ Len(b) = 1
    BY <2>1
  <2>3. /\ batch_tasks' = [batch_tasks EXCEPT ![s] = b]
        /\ Goes(s, IF MaxBatchSize > 1 THEN "filling" ELSE "full")
    BY <1>4, <2>2 DEF FirstOfBatch
  <2>4. BatchOk(IF MaxBatchSize > 1 THEN "filling" ELSE "full", b)
    BY <1>2, <2>2 DEF BatchOk
  <2> HIDE DEF t, b
  <2> DEFINE w == IF MaxBatchSize > 1 THEN "filling" ELSE "full"
  <2>5. w \in {"filling", "full"} /\ Goes(s, w) /\ BatchOk(w, b)
    BY <2>3, <2>4
  <2> HIDE DEF w
  <2>6. t = Head(in_q[s]) /\ b = Append(batch_tasks[s], t)
    BY DEF t, b
  <2> QED BY <1>1, <2>1, <2>3, <2>5, <2>6, BatchTaskKeeps
<1>5. CASE JoinBatch(s)
  <2> DEFINE w == IF Len(batch_tasks[s]) + 1 < MaxBatchSize THEN "filling" ELSE "full"
  <2>1. worker[s] = "filling" /\ batch_tasks' = [batch_tasks EXCEPT ![s] = b] /\ Goes(s, w)
    BY <1>5 DEF JoinBatch
  <2>2. Len(batch_tasks[s]) < MaxBatchSize
    BY <1>2, <2>1 DEF BatchOk
  <2>3. w \in {"filling", "full"} /\ BatchOk(w, b)
    BY <1>2, <1>3, <2>2 DEF BatchOk
  <2>4. t = Head(in_q[s]) /\ b = Append(batch_tasks[s], t)
    OBVIOUS
  <2> HIDE DEF t, b, w
  <2> QED BY <1>1, <2>1, <2>3, <2>4, BatchTaskKeeps
<1> QED BY <1>4, <1>5

-----------------------------------------------------------------------------
(* What an engine makes of a batch, and who gets which output.             *)

(* The ids of a batch: one for each task.                                  *)
LEMMA BatchFacts ==
  ASSUME SyncInv, NEW s \in Stages
  PROVE  /\ DOMAIN batch_tasks[s] = 1..Len(batch_tasks[s]) /\ Len(batch_tasks[s]) \in Nat
         /\ DOMAIN BatchIds(s) = 1..Len(batch_tasks[s]) /\ BatchIds(s) \in Seq(Requests)
         /\ Len(BatchIds(s)) = Len(batch_tasks[s])
         /\ \A k \in 1..Len(batch_tasks[s]) :
              BatchIds(s)[k] = batch_tasks[s][k].request_id /\ BatchIds(s)[k] \in Requests
         /\ \A i, j \in 1..Len(batch_tasks[s]) : BatchIds(s)[i] = BatchIds(s)[j] => i = j
         /\ Range(BatchIds(s)) = Named(batch_tasks[s])
         /\ Range(batch_tasks[s]) = Elements(batch_tasks[s])
<1> DEFINE b == batch_tasks[s]
           n == Len(b)
           ids == BatchIds(s)
<1>1. /\ b \in Seq(TaskType) /\ OnceIn(b) /\ \A t \in Elements(b) : GenerateOk(t, s)
      /\ DOMAIN b = 1..n /\ n \in Nat
  BY QueueFacts, LenProperties
<1>2. ids = [k \in 1..n |-> b[k].request_id]
  BY <1>1 DEF BatchIds
<1> HIDE DEF b, n, ids
<1>3. \A k \in 1..n : b[k] \in Elements(b) /\ b[k].request_id \in Requests
  BY <1>1 DEF Elements, n, GenerateOk
<1>4. ids \in Seq(Requests) /\ Len(ids) = n /\ DOMAIN ids = 1..n /\ \A k \in 1..n : ids[k] = b[k].request_id
  BY <1>1, <1>2, <1>3, IsASeq
<1>5. \A i, j \in 1..n : ids[i] = ids[j] => i = j
  BY <1>1, <1>3, <1>4, BoundTypes DEF OnceIn, n
<1>6. Elements(b) = {b[k] : k \in 1..n}
  BY DEF Elements, n
<1>7. Range(ids) = Named(b)
  <2>1. Range(ids) = {ids[k] : k \in 1..n}
    BY <1>4 DEF Range
  <2>2. {e.request_id : e \in Elements(b)} = {b[k].request_id : k \in 1..n}
    BY <1>6
  <2>3. NoRequest \notin {b[k].request_id : k \in 1..n}
    BY <1>3, BoundTypes
  <2>4. {ids[k] : k \in 1..n} = {b[k].request_id : k \in 1..n}
    BY <1>4
  <2> QED BY <2>1, <2>2, <2>3, <2>4 DEF Named
<1>8. Range(b) = Elements(b)
  BY <1>1, <1>6 DEF Range
<1> QED BY <1>1, <1>3, <1>4, <1>5, <1>7, <1>8 DEF b, n, ids

(* The input of a task is its own request's.                               *)
LEMMA OwnInput ==
  ASSUME SyncInv, NEW s \in Stages, NEW t, GenerateOk(t, s)
  PROVE  InputsOf(s, t) = <<t.request_id>>
<1>1. CASE t.from_connector
  <2>1. Message(s, t.request_id) \in Payload(s, t)
    BY <1>1 DEF GenerateOk, Payload, Message
  <2>2. \A p \in Payload(s, t) : p.inputs = <<t.request_id>>
    BY DEF SyncInv, RequestsInv, StoreInv, Payload
  <2>3. (CHOOSE p \in Payload(s, t) : TRUE) \in Payload(s, t)
    BY <2>1
  <2> QED BY <1>1, <2>2, <2>3 DEF InputsOf
<1>2. CASE ~t.from_connector
  BY <1>2 DEF InputsOf, GenerateOk
<1> QED BY <1>1, <1>2

(* So the inputs of a batch are its ids.                                   *)
LEMMA BatchInputsAreIds ==
  ASSUME SyncInv, NEW s \in Stages
  PROVE  BatchInputs(s) = BatchIds(s)
<1> DEFINE b == batch_tasks[s]
           ids == BatchIds(s)
<1>1. /\ DOMAIN b = DOMAIN ids /\ ids \in Seq(Requests)
      /\ \A k \in DOMAIN b : ids[k] = b[k].request_id /\ b[k] \in Elements(b)
      /\ \A t \in Elements(b) : GenerateOk(t, s)
  BY BatchFacts, QueueFacts DEF Elements
<1>2. \A k \in DOMAIN b : InputsOf(s, b[k]) = <<ids[k]>>
  BY <1>1, OwnInput
<1>3. BatchInputs(s) = FlattenSeq([k \in DOMAIN b |-> InputsOf(s, b[k])])
  BY DEF BatchInputs
<1> HIDE DEF b, ids
<1>4. [k \in DOMAIN b |-> InputsOf(s, b[k])] = [k \in DOMAIN ids |-> IF ids[k] \in {} THEN <<>> ELSE <<ids[k]>>]
  BY <1>1, <1>2
<1>5. Without(ids, {}) = ids
  <2>1. Elements(ids) \cap {} = {}
    OBVIOUS
  <2> QED BY <1>1, <2>1, WithoutNothing
<1> QED BY <1>3, <1>4, <1>5 DEF Without, ids

(* An order that passes nobody twice passes everybody.                     *)
LEMMA OrderOnto ==
  ASSUME NEW n \in Nat, NEW f \in Orders(n), NEW i \in 1..n
  PROVE  \E j \in 1..n : f[j] = i
<1>1. IsFiniteSet(1..n) /\ f \in Injection(1..n, 1..n)
  BY FS_Interval DEF Orders, Injection, IsInjective
<1>2. f \in Surjection(1..n, 1..n)
  BY <1>1, FS_Injection
<1> QED BY <1>2 DEF Surjection

(* The outputs of an engine, as the worker sees them: in the order of the  *)
(* inputs, under the ids of the batch or under none.                       *)
LEMMA EngineOutputsInOrder ==
  ASSUME SyncInv, NEW s \in Stages, NEW order \in Orders(Len(batch_tasks[s])),
         NEW outputs, outputs = EngineOutputs(s, order)
  PROVE  /\ DOMAIN outputs = 1..Len(batch_tasks[s])
         /\ \A i \in 1..Len(batch_tasks[s]) : outputs[i].data = BatchIds(s)[i]
         /\ \/ \A i \in 1..Len(batch_tasks[s]) : outputs[i].request_id = BatchIds(s)[i]
            \/ \A i \in 1..Len(batch_tasks[s]) : outputs[i].request_id = NoRequest
<1> DEFINE n == Len(batch_tasks[s])
           ids == BatchIds(s)
           finished == [i \in 1..n |-> [number |-> order[i], request_id |-> NoRequest, data |-> ids[order[i]]]]
<1>1. n \in Nat /\ DOMAIN ids = 1..n /\ BatchInputs(s) = ids
  BY BatchFacts, BatchInputsAreIds
<1>2. outputs = IF s \in DiffusionStages
                THEN [i \in 1..n |-> [number |-> i, request_id |-> ids[i], data |-> ids[i]]]
                ELSE Sorted(finished)
  BY <1>1 DEF EngineOutputs
<1> HIDE DEF n, ids
<1>3. CASE s \in DiffusionStages
  BY <1>2, <1>3 DEF n, ids
<1>4. CASE s \notin DiffusionStages
  <2>0. order \in Orders(n)
    BY DEF n
  <2>1. \A i \in 1..n : order[i] \in 1..n
    BY <2>0 DEF Orders
  <2>2. /\ DOMAIN finished = 1..n
        /\ \A o \in Range(finished) : o.number \in 1..n /\ o.data = ids[o.number] /\ o.request_id = NoRequest
    BY <2>1 DEF Range
  <2>3. \A i \in 1..n : \E o \in Range(finished) : o.number = i
    <3> TAKE i \in 1..n
    <3>1. PICK j \in 1..n : order[j] = i
      BY <1>1, <2>0, OrderOnto
    <3>2. finished[j] \in Range(finished) /\ finished[j].number = i
      BY <3>1 DEF Range
    <3> QED BY <3>2
  <2>4. outputs = [i \in DOMAIN finished |-> CHOOSE o \in Range(finished) : o.number = i]
    BY <1>2, <1>4 DEF Sorted
  <2> HIDE DEF finished
  <2>5. ASSUME NEW i \in 1..n
        PROVE  outputs[i] \in Range(finished) /\ outputs[i].number = i
    <3>1. outputs[i] = CHOOSE o \in Range(finished) : o.number = i
      BY <2>2, <2>4
    <3> QED BY <2>3, <3>1
  <2>6. DOMAIN outputs = 1..n
    BY <2>2, <2>4
  <2>7. \A i \in 1..n : outputs[i].data = ids[i] /\ outputs[i].request_id = NoRequest
    BY <2>2, <2>5
  <2> QED BY <2>6, <2>7 DEF n, ids
<1> QED BY <1>3, <1>4

OnlyOf(outputs, chosen) ==
  FlattenSeq([i \in DOMAIN outputs |-> IF i \in chosen THEN <<outputs[i].data>> ELSE <<>>])

(* What a choice of positions makes of the outputs: one, or none.          *)
LEMMA OnlyOne ==
  ASSUME NEW n \in Nat, NEW outputs, DOMAIN outputs = 1..n,
         \A i \in 1..n : outputs[i].data \in Requests, NEW chosen \in SUBSET (1..n)
  PROVE  /\ chosen = {} => OnlyOf(outputs, chosen) = <<>>
         /\ \A k \in 1..n : chosen = {k} => OnlyOf(outputs, chosen) = <<outputs[k].data>>
<1> DEFINE f == [i \in 1..n |-> IF i \in chosen THEN <<outputs[i].data>> ELSE <<>>]
           q == [i \in 1..n |-> i]
           only == OnlyOf(outputs, chosen)
<1>1. q \in Seq(1..n) /\ Len(q) = n /\ DOMAIN q = 1..n /\ \A i \in 1..n : q[i] = i
  BY IsASeq
<1>2. Maps(f, 1..n, Requests)
  BY DEF Maps
<1>3. /\ \A i \in 1..n : i \in chosen => f[i] = <<outputs[i].data>>
      /\ \A i \in 1..n : i \notin chosen => f[i] = <<>>
  OBVIOUS
<1>4. only = Mapped(f, q)
  BY <1>1 DEF Mapped, OnlyOf
<1> HIDE DEF f, q, only
<1>5. ASSUME chosen = {} PROVE only = <<>>
  <2>1. \A x \in Elements(q) : f[x] = <<>>
    BY <1>1, <1>3, <1>5 DEF Elements
  <2> QED BY <1>1, <1>2, <1>4, <2>1, MappedNothing
<1>6. ASSUME NEW k \in 1..n, chosen = {k} PROVE only = <<outputs[k].data>>
  <2>1. \A j \in 1..Len(q) : j # k => f[q[j]] = <<>>
    BY <1>1, <1>3, <1>6
  <2>2. Mapped(f, q) = f[q[k]]
    BY <1>1, <1>2, <2>1, MappedSingle
  <2> QED BY <1>1, <1>3, <1>4, <1>6, <2>2
<1> QED BY <1>5, <1>6 DEF only

(* Each request gets the output made of its own data, by its id or by its  *)
(* position.                                                               *)
LEMMA OutputsForOwn ==
  ASSUME SyncInv, NEW s \in Stages, NEW order \in Orders(Len(batch_tasks[s])),
         NEW k \in 1..Len(batch_tasks[s])
  PROVE  OutputsFor(s, EngineOutputs(s, order), k) = <<BatchIds(s)[k]>>
<1> DEFINE n == Len(batch_tasks[s])
           ids == BatchIds(s)
<1>0. PICK outputs : outputs = EngineOutputs(s, order)
  OBVIOUS
<1> DEFINE own == {i \in DOMAIN outputs : outputs[i].request_id = ids[k]}
           unmapped == {i \in DOMAIN outputs : /\ outputs[i].request_id \notin Range(ids)
                                               /\ ((i - 1) % Len(ids)) + 1 = k}
           Only(chosen) == OnlyOf(outputs, chosen)
<1>1. OutputsFor(s, outputs, k) = Only(own) \o Only(unmapped)
  BY DEF OutputsFor, OnlyOf
<1>2. /\ n \in Nat /\ Len(ids) = n /\ DOMAIN ids = 1..n
      /\ \A i \in 1..n : ids[i] \in Requests /\ ids[i] \in Range(ids) /\ ids[i] # NoRequest
      /\ \A i, j \in 1..n : ids[i] = ids[j] => i = j
      /\ NoRequest \notin Range(ids)
  <2>1. /\ n \in Nat /\ Len(ids) = n /\ DOMAIN ids = 1..n
        /\ \A i \in 1..n : ids[i] \in Requests
        /\ \A i, j \in 1..n : ids[i] = ids[j] => i = j
    BY BatchFacts
  <2> QED BY <2>1, BoundTypes DEF Range
<1>3. /\ DOMAIN outputs = 1..n
      /\ \A i \in 1..n : outputs[i].data = ids[i]
      /\ \/ \A i \in 1..n : outputs[i].request_id = ids[i]
         \/ \A i \in 1..n : outputs[i].request_id = NoRequest
  BY <1>0, EngineOutputsInOrder
<1>4. k \in 1..n
  OBVIOUS
<1> HIDE DEF n, ids
<1>5. own \in SUBSET (1..n) /\ unmapped \in SUBSET (1..n)
  BY <1>3
<1>6. \/ own = {k} /\ unmapped = {}
      \/ own = {} /\ unmapped = {k}
  <2>1. CASE \A i \in 1..n : outputs[i].request_id = ids[i]
    BY <1>2, <1>3, <1>4, <2>1
  <2>2. CASE \A i \in 1..n : outputs[i].request_id = NoRequest
    <3>1. \A i \in 1..n : ((i - 1) % n) + 1 = i
      <4> TAKE i \in 1..n
      <4>1. i - 1 \in 0..n - 1 /\ n > 0
        BY <1>2
      <4>2. (i - 1) % n = i - 1
        BY <1>2, <4>1
      <4> QED BY <1>2, <4>2
    <3>2. own = {}
      BY <1>2, <1>3, <1>4, <2>2
    <3>3. unmapped = {k}
      BY <1>2, <1>3, <1>4, <2>2, <3>1
    <3> QED BY <3>2, <3>3
  <2> QED BY <1>3, <2>1, <2>2
<1>7. /\ \A chosen \in SUBSET (1..n) : chosen = {} => Only(chosen) = <<>>
      /\ \A chosen \in SUBSET (1..n) : chosen = {k} => Only(chosen) = <<ids[k]>>
  <2>1. \A i \in 1..n : outputs[i].data \in Requests
    BY <1>2, <1>3
  <2> QED BY <1>2, <1>3, <1>4, <2>1, OnlyOne
<1> HIDE DEF Only, own, unmapped
<1>8. <<ids[k]>> \o <<>> = <<ids[k]>> /\ <<>> \o <<ids[k]>> = <<ids[k]>>
  <2>1. <<ids[k]>> \in Seq(Requests)
    BY <1>2, <1>4
  <2> QED BY <2>1, ConcatEmptySeq
<1> QED BY <1>0, <1>1, <1>5, <1>6, <1>7, <1>8 DEF ids

-----------------------------------------------------------------------------
(* A batch is done with.                                                   *)

(* The tasks that wait still find their payloads, and no payload is left   *)
(* behind.                                                                 *)
LEMMA BatchGone ==
  ASSUME SyncInv, NEW s \in Stages, NEW w \in {"idle", "dead"}, Goes(s, w), BatchBecomes(s, <<>>),
         worker[s] # "dead", UNCHANGED in_q, store' \subseteq store,
         \A p \in store : p \notin store' => p.to = s /\ p.request_id \in Named(batch_tasks[s]),
         w = "idle" => \A p \in store', t \in Elements(batch_tasks[s]) :
                         p.to = s /\ t.from_connector => t.request_id # p.request_id
  PROVE  /\ WorkerTypes' /\ TasksInv' /\ StoreInv'
         /\ batch_tasks'[s] = <<>> /\ \A x \in Stages \ {s} : batch_tasks'[x] = batch_tasks[x]
<1>1. /\ WorkerTypes' /\ worker'[s] = w /\ batch_tasks'[s] = <<>>
      /\ \A x \in Stages \ {s} : worker'[x] = worker[x] /\ batch_tasks'[x] = batch_tasks[x]
  <2>1. w \in {"starting", "idle", "filling", "full", "exited", "dead"} /\ BatchOk(w, <<>>)
    BY DEF BatchOk
  <2>2. <<>> \in Seq(TaskType)
    OBVIOUS
  <2> DEFINE b == <<>>
  <2> HIDE DEF b
  <2>3. b \in Seq(TaskType) /\ BatchBecomes(s, b) /\ BatchOk(w, b)
    BY <2>1, <2>2 DEF b
  <2>4. /\ WorkerTypes' /\ worker'[s] = w /\ batch_tasks'[s] = b
        /\ \A x \in Stages \ {s} : worker'[x] = worker[x] /\ batch_tasks'[x] = batch_tasks[x]
    BY <2>1, <2>3, WorkerGoes
  <2> QED BY <2>4 DEF b
<1>2. Elements(<<>>) = {}
  BY DEF Elements
<1>3. TasksInv /\ StoreInv /\ \A p \in store : p.to \in Stages /\ p.request_id \in Requests
  BY DEF SyncInv, RequestsInv, QueueTypes
<1>4. ASSUME NEW x \in Stages, NEW t, GenerateOk(t, x),
             x = s => t.request_id \notin Named(batch_tasks[s])
      PROVE  GenerateOk(t, x)'
  <2>1. Message(x, t.request_id).to = x /\ Message(x, t.request_id).request_id = t.request_id
    BY DEF Message
  <2> QED BY <1>4, <2>1 DEF GenerateOk
<1>5. ASSUME NEW t \in Elements(in_q[s]), GenerateOk(t, s)
      PROVE  t.request_id \notin Named(batch_tasks[s])
  <2>1. PICK r : r = t.request_id
    OBVIOUS
  <2>2. r \in Requests /\ Held(r, "task", s) /\ "task" \in Kinds /\ "batch" \in Kinds
    BY <1>5, <2>1, BoundTypes DEF GenerateOk, Held, Named, Kinds
  <2>3. ~Held(r, "batch", s)
    BY <2>2, OnePlace
  <2> QED BY <2>1, <2>3 DEF Held
<1>6. TasksInv'
  <2>1. ASSUME NEW x \in Stages, NEW t \in Elements(in_q[x]) PROVE GenerateOk(t, x)' \/ ControlOk(t)
    <3>1. GenerateOk(t, x) \/ ControlOk(t)
      BY <1>3 DEF TasksInv
    <3> QED BY <1>4, <1>5, <3>1
  <2>2. ASSUME NEW x \in Stages, NEW t \in Elements(batch_tasks'[x]) PROVE GenerateOk(t, x)'
    <3>1. x # s /\ t \in Elements(batch_tasks[x])
      BY <1>1, <1>2
    <3>2. GenerateOk(t, x)
      BY <1>3, <3>1 DEF TasksInv
    <3> QED BY <1>4, <3>1, <3>2
  <2> QED BY <2>1, <2>2 DEF TasksInv
<1>7. StoreInv'
  <2> SUFFICES ASSUME NEW p \in store', worker'[p.to] # "dead" PROVE Asks(p.request_id, p.to)'
    BY <1>3 DEF StoreInv
  <2>1. CASE p.to = s
    <3>1. w = "idle"
      BY <1>1, <2>1
    <3>2. Asks(p.request_id, s)
      BY <1>3, <2>1 DEF StoreInv
    <3>3. PICK t \in Elements(in_q[s]) \cup Elements(batch_tasks[s]) :
            t.from_connector /\ t.request_id = p.request_id
      BY <3>2 DEF Asks
    <3>4. t \in Elements(in_q[s])
      BY <2>1, <3>1, <3>3
    <3> QED BY <2>1, <3>3, <3>4 DEF Asks
  <2>2. CASE p.to # s
    <3>1. p.to \in Stages /\ worker[p.to] # "dead" /\ batch_tasks'[p.to] = batch_tasks[p.to]
      BY <1>1, <1>3, <2>2
    <3>2. Asks(p.request_id, p.to)
      BY <1>3, <3>1 DEF StoreInv
    <3> QED BY <3>1, <3>2 DEF Asks
  <2> QED BY <2>1, <2>2
<1> QED BY <1>1, <1>6, <1>7

(* One answer for each request of the batch.                               *)
LEMMA BatchAnswers ==
  ASSUME SyncInv, NEW s \in Stages, NEW a \in Seq(ResultType), Len(a) = Len(batch_tasks[s]),
         \A k \in 1..Len(batch_tasks[s]) : a[k].request_id = BatchIds(s)[k] /\ ResultOk(a[k])
  PROVE  /\ OnceIn(a) /\ Named(a) = Named(batch_tasks[s])
         /\ \A m \in Elements(a) : ResultOk(m)
<1> DEFINE n == Len(batch_tasks[s])
           ids == BatchIds(s)
<1>1. /\ n \in Nat /\ DOMAIN ids = 1..n /\ \A k \in 1..n : ids[k] \in Requests
      /\ \A i, j \in 1..n : ids[i] = ids[j] => i = j
      /\ Range(ids) = Named(batch_tasks[s])
  BY BatchFacts
<1>2. Len(a) = n /\ \A k \in 1..n : a[k].request_id = ids[k] /\ ResultOk(a[k])
  OBVIOUS
<1> HIDE DEF n, ids
<1>3. OnceIn(a)
  BY <1>1, <1>2 DEF OnceIn
<1>4. \A m \in Elements(a) : ResultOk(m)
  BY <1>2 DEF Elements
<1>5. \A r : r \in Named(a) <=> r \in Range(ids)
  <2> TAKE r
  <2>1. r \in Named(a) <=> r # NoRequest /\ \E i \in 1..n : a[i].request_id = r
    BY <1>2, NamedIn
  <2>2. Range(ids) = {ids[i] : i \in 1..n}
    BY <1>1 DEF Range
  <2>3. \A i \in 1..n : a[i].request_id = ids[i] /\ ids[i] # NoRequest
    BY <1>1, <1>2, BoundTypes
  <2> QED BY <2>1, <2>2, <2>3
<1> QED BY <1>1, <1>3, <1>4, <1>5

(* The batch is answered: its requests move to the queue of results.       *)
LEMMA AnswerBatch ==
  ASSUME SyncInv, NEW s \in Stages, NEW a \in Seq(ResultType), Len(a) = Len(batch_tasks[s]),
         \A k \in 1..Len(batch_tasks[s]) : a[k].request_id = BatchIds(s)[k] /\ ResultOk(a[k]),
         out_q' = [out_q EXCEPT ![s] = out_q[s] \o a], worker[s] = "full", Goes(s, "idle"),
         BatchBecomes(s, <<>>), TakePayloads(s), UNCHANGED <<loopVars, in_q, dropped>>,
         faults' \in 0..MaxFaults, profiles' = profiles
  PROVE  SyncInv'
<1>1. OnceIn(a) /\ Named(a) = Named(batch_tasks[s]) /\ \A m \in Elements(a) : ResultOk(m)
  BY BatchAnswers
<1>2. PICK N : N = Named(batch_tasks[s])
  OBVIOUS
<1>3. N \in SUBSET Requests /\ \A r \in N : Held(r, "batch", s)
  <2>1. \A k \in 1..Len(batch_tasks[s]) : BatchIds(s)[k] \in Requests
    BY BatchFacts
  <2>2. N = Range(BatchIds(s)) /\ DOMAIN BatchIds(s) = 1..Len(batch_tasks[s])
    BY <1>2, BatchFacts
  <2> QED BY <1>2, <2>1, <2>2 DEF Range, Held
<1>4. "batch" \in Kinds /\ "result" \in Kinds
  BY DEF Kinds
<1>5. ASSUME NEW r \in N
      PROVE  /\ \A l \in Kinds, x \in Stages : Held(r, l, x) => l = "batch" /\ x = s
             /\ s <= FinalStage[r] /\ StagesYielded(r) = FinalOutput \cap 0..s - 1
  <2>1. UpTo("batch", s) = s - 1
    BY DEF UpTo
  <2> QED BY <1>3, <1>4, <2>1, OnePlace
<1>6. N \cap Named(out_q[s]) = {}
  BY <1>4, <1>5 DEF Held
<1>7. /\ out_q[s] \o a \in Seq(ResultType)
      /\ Elements(out_q[s] \o a) = Elements(out_q[s]) \cup Elements(a)
      /\ Named(out_q[s] \o a) = Named(out_q[s]) \cup N
      /\ OnceIn(out_q[s] \o a)
  BY <1>1, <1>2, <1>6, QueueFacts, NamedConcat
<1>8. /\ out_q' \in [Stages -> Seq(ResultType)] /\ out_q'[s] = out_q[s] \o a
      /\ \A x \in Stages \ {s} : out_q'[x] = out_q[x]
  BY <1>7 DEF SyncInv, QueueTypes
<1>9. /\ WorkerTypes' /\ TasksInv' /\ StoreInv'
      /\ batch_tasks'[s] = <<>> /\ \A x \in Stages \ {s} : batch_tasks'[x] = batch_tasks[x]
  <2>1. Range(batch_tasks[s]) = Elements(batch_tasks[s]) /\ \A t \in Elements(batch_tasks[s]) : GenerateOk(t, s)
    BY BatchFacts, QueueFacts
  <2>2. \A t \in Elements(batch_tasks[s]) : t.request_id \in Named(batch_tasks[s])
    BY <2>1, BoundTypes DEF Named, GenerateOk
  <2>3. store' \subseteq store
    BY DEF TakePayloads
  <2>4. \A p \in store : p \notin store' => p.to = s /\ p.request_id \in Named(batch_tasks[s])
    BY <2>1, <2>2 DEF TakePayloads, Announced, Payload
  <2>5. \A p \in store', t \in Elements(batch_tasks[s]) :
          p.to = s /\ t.from_connector => t.request_id # p.request_id
    BY <2>1 DEF TakePayloads, Announced, Payload
  <2> QED BY <2>3, <2>4, <2>5, BatchGone
<1>10. /\ LoopInv' /\ LoopTypes' /\ UNCHANGED <<seeded, current, completed_requests, yielded>>
  BY SameLoop DEF SyncInv, LoopTypes
<1>11. ASSUME NEW q \in Requests, NEW l \in Kinds, NEW x \in Stages
       PROVE  /\ q \in N => (Held(q, l, x)' <=> l = "result" /\ x = s)
              /\ q \notin N => (Held(q, l, x)' <=> Held(q, l, x))
  <2>1. CASE l = "batch"
    <3>1. Named(<<>>) = {}
      BY DEF Named, Elements
    <3>2. q \in N => q \notin Named(batch_tasks'[x])
      <4>1. q \in N /\ q \in Named(batch_tasks[x]) => x = s
        BY <1>5, <2>1 DEF Held
      <4> QED BY <1>9, <3>1, <4>1
    <3>3. q \notin N => (q \in Named(batch_tasks'[x]) <=> q \in Named(batch_tasks[x]))
      BY <1>2, <1>9, <3>1
    <3> QED BY <2>1, <3>2, <3>3, Zenon DEF Held
  <2>2. CASE l = "result"
    <3>1. q \in N => (q \in Named(out_q'[x]) <=> x = s)
      <4>1. q \in N => q \notin Named(out_q[x])
        BY <1>5, <2>2 DEF Held
      <4> QED BY <1>7, <1>8, <4>1
    <3>2. q \notin N => (q \in Named(out_q'[x]) <=> q \in Named(out_q[x]))
      BY <1>7, <1>8
    <3> QED BY <2>2, <3>1, <3>2, Zenon DEF Held
  <2>3. CASE l = "task" \/ l = "yielded"
    <3>1. Held(q, l, x)' <=> Held(q, l, x)
      BY <1>10, <2>3 DEF Held
    <3> QED BY <1>5, <2>3, <3>1
  <2> QED BY <2>1, <2>2, <2>3 DEF Kinds
<1>12. (\A q \in Requests : WhereInv(q)') /\ CountInv'
  <2>1. \A q : StagesYielded(q)' = StagesYielded(q)
    BY <1>10 DEF StagesYielded
  <2>2. UpTo("result", s) = s - 1
    BY DEF UpTo
  <2>3. MovesTo(N, "result", s)
    <3>1. ASSUME NEW r \in N, NEW k \in Kinds, NEW x \in Stages PROVE Held(r, k, x)' <=> k = "result" /\ x = s
      BY <1>3, <1>11
    <3> QED BY <1>5, <2>1, <2>2, <3>1 DEF MovesTo
  <2>4. Stays(Requests \ N)
    BY <1>11, <2>1 DEF Stays
  <2>5. UNCHANGED <<seeded, dropped, completed_requests>>
    BY <1>10
  <2>6. (\A q \in Requests : WhereInv(q)) /\ CountInv /\ seeded \in Nat
    BY BoundTypes DEF SyncInv, RequestsInv, LoopTypes
  <2> QED BY <1>3, <1>4, <2>3, <2>4, <2>5, <2>6, MovedWhere
<1>13. OnceInv' /\ ResultsInv'
  <2>1. OnceIn(<<>>)
    BY DEF OnceIn
  <2>2. ASSUME NEW x \in Stages
        PROVE  OnceIn(in_q'[x]) /\ OnceIn(batch_tasks'[x]) /\ OnceIn(out_q'[x])
    BY <1>7, <1>8, <1>9, <2>1, QueueFacts
  <2>3. ASSUME NEW x \in Stages, NEW m \in Elements(out_q'[x]) PROVE ResultOk(m)
    BY <1>1, <1>7, <1>8, QueueFacts
  <2> QED BY <2>2, <2>3 DEF OnceInv, ResultsInv
<1>14. YieldedInv'
  BY <1>10 DEF SyncInv, RequestsInv, YieldedInv
<1>15. QueueTypes'
  <2>1. store' \subseteq store
    BY DEF TakePayloads
  <2> QED BY <1>8, <2>1 DEF SyncInv, QueueTypes
<1> QED BY <1>9, <1>10, <1>12, <1>13, <1>14, <1>15 DEF SyncInv, RequestsInv

(* The engine has finished the batch.                                      *)
LEMMA GenerateKeeps ==
  ASSUME SyncInv, NEW s \in Stages, Generate(s)
  PROVE  SyncInv'
<1> DEFINE n == Len(batch_tasks[s])
           ids == BatchIds(s)
           a == [k \in 1..n |-> Result("result", ids[k], <<ids[k]>>)]
<1>1. /\ worker[s] = "full" /\ TakePayloads(s) /\ BatchBecomes(s, <<>>) /\ Goes(s, "idle")
      /\ UNCHANGED <<loopVars, in_q, dropped, boundVars>>
  BY DEF Generate, BatchBecomes
<1>2. n \in Nat /\ DOMAIN ids = 1..n /\ Len(ids) = n /\ \A k \in 1..n : ids[k] \in Requests
  BY BatchFacts
<1>3. PICK order \in Orders(n) :
        out_q' = [out_q EXCEPT ![s] = @ \o
                    [k \in DOMAIN BatchIds(s) |->
                       Result("result", BatchIds(s)[k], OutputsFor(s, EngineOutputs(s, order), k))]]
  BY <1>2, BatchInputsAreIds DEF Generate
<1>4. \A k \in 1..n : OutputsFor(s, EngineOutputs(s, order), k) = <<ids[k]>>
  BY OutputsForOwn
<1>5. [k \in DOMAIN ids |-> Result("result", ids[k], OutputsFor(s, EngineOutputs(s, order), k))] = a
  BY <1>2, <1>4
<1>6. out_q' = [out_q EXCEPT ![s] = out_q[s] \o a]
  BY <1>3, <1>5
<1> HIDE DEF ids
<1>7. ASSUME NEW k \in 1..n
      PROVE  a[k] \in ResultType /\ a[k].request_id = ids[k] /\ ResultOk(a[k])
  BY <1>2 DEF Result, ResultType, ResultOk
<1>8. a \in Seq(ResultType) /\ Len(a) = n
  <2>1. \A k \in 1..n : Result("result", ids[k], <<ids[k]>>) \in ResultType
    BY <1>7
  <2> HIDE DEF n
  <2>2. a \in Seq(ResultType)
    BY <1>2, <2>1, IsASeq
  <2>3. DOMAIN a = 1..n /\ DOMAIN a = 1..Len(a) /\ Len(a) \in Nat
    BY <2>2, LenProperties
  <2> QED BY <1>2, <2>2, <2>3
<1>9. \A k \in 1..Len(batch_tasks[s]) : a[k].request_id = BatchIds(s)[k] /\ ResultOk(a[k])
  BY <1>7 DEF ids
<1>10. faults' \in 0..MaxFaults /\ profiles' = profiles
  BY <1>1 DEF SyncInv, LoopTypes, boundVars
<1> HIDE DEF a
<1> QED BY <1>1, <1>6, <1>8, <1>9, <1>10, AnswerBatch

(* The engine raises.                                                      *)
LEMMA GenerateFailsKeeps ==
  ASSUME SyncInv, NEW s \in Stages, GenerateFails(s)
  PROVE  SyncInv'
<1> DEFINE n == Len(batch_tasks[s])
           ids == BatchIds(s)
           a == [k \in 1..n |-> Result("error", ids[k], <<>>)]
<1>1. /\ worker[s] = "full" /\ TakePayloads(s) /\ BatchBecomes(s, <<>>) /\ Goes(s, "idle") /\ Fault
      /\ UNCHANGED <<loopVars, in_q, dropped>>
      /\ out_q' = [out_q EXCEPT ![s] = @ \o [k \in DOMAIN ids |-> Result("error", ids[k], <<>>)]]
  BY DEF GenerateFails, BatchBecomes
<1>2. n \in Nat /\ DOMAIN ids = 1..n /\ \A k \in 1..n : ids[k] \in Requests
  BY BatchFacts
<1>3. out_q' = [out_q EXCEPT ![s] = out_q[s] \o a]
  BY <1>1, <1>2
<1> HIDE DEF ids
<1>4. ASSUME NEW k \in 1..n
      PROVE  a[k] \in ResultType /\ a[k].request_id = ids[k] /\ ResultOk(a[k])
  BY <1>2 DEF Result, ResultType, ResultOk
<1>5. a \in Seq(ResultType) /\ Len(a) = n
  <2>1. \A k \in 1..n : Result("error", ids[k], <<>>) \in ResultType
    BY <1>4
  <2> HIDE DEF n
  <2>2. a \in Seq(ResultType)
    BY <1>2, <2>1, IsASeq
  <2>3. DOMAIN a = 1..n /\ DOMAIN a = 1..Len(a) /\ Len(a) \in Nat
    BY <2>2, LenProperties
  <2> QED BY <1>2, <2>2, <2>3
<1>6. \A k \in 1..Len(batch_tasks[s]) : a[k].request_id = BatchIds(s)[k] /\ ResultOk(a[k])
  BY <1>4 DEF ids
<1>7. faults' \in 0..MaxFaults /\ profiles' = profiles
  BY <1>1, SyncAssumption DEF SyncInv, LoopTypes, Fault
<1> HIDE DEF a
<1> QED BY <1>1, <1>3, <1>5, <1>6, <1>7, AnswerBatch

(* A payload is missing: the process ends with the batch.                  *)
LEMMA PayloadMissingKeeps ==
  ASSUME SyncInv, NEW s \in Stages, PayloadMissing(s)
  PROVE  SyncInv'
<1>1. /\ worker[s] = "full" /\ Fault /\ BatchBecomes(s, <<>>) /\ Goes(s, "dead")
      /\ UNCHANGED <<loopVars, in_q, out_q>> /\ dropped' = dropped \cup Range(BatchIds(s))
  BY DEF PayloadMissing, BatchBecomes
<1>2. PICK k \in DOMAIN batch_tasks[s] :
        store' = store \ UNION {Payload(s, batch_tasks[s][i]) : i \in 1..k}
  BY DEF PayloadMissing
<1>3. PICK N : N = Named(batch_tasks[s])
  OBVIOUS
<1>4. /\ N = Range(BatchIds(s)) /\ DOMAIN BatchIds(s) = 1..Len(batch_tasks[s])
      /\ DOMAIN batch_tasks[s] = 1..Len(batch_tasks[s]) /\ Len(batch_tasks[s]) \in Nat
      /\ \A i \in 1..Len(batch_tasks[s]) :
           BatchIds(s)[i] = batch_tasks[s][i].request_id /\ BatchIds(s)[i] \in Requests
  BY <1>3, BatchFacts
<1>5. N \in SUBSET Requests /\ \A r \in N : Held(r, "batch", s)
  BY <1>3, <1>4 DEF Range, Held
<1>6. "batch" \in Kinds
  BY DEF Kinds
<1>7. /\ WorkerTypes' /\ TasksInv' /\ StoreInv'
      /\ batch_tasks'[s] = <<>> /\ \A x \in Stages \ {s} : batch_tasks'[x] = batch_tasks[x]
  <2>1. \A i \in 1..k : batch_tasks[s][i].request_id \in N
    BY <1>4 DEF Range
  <2>2. \A p \in store : p \notin store' => p.to = s /\ p.request_id \in Named(batch_tasks[s])
    BY <1>2, <1>3, <2>1 DEF Payload
  <2>3. store' \subseteq store
    BY <1>2
  <2> QED BY <1>1, <2>2, <2>3, BatchGone
<1>8. /\ LoopInv' /\ LoopTypes' /\ UNCHANGED <<seeded, current, completed_requests, yielded>>
  <2>1. faults' \in 0..MaxFaults /\ profiles' = profiles
    BY <1>1, SyncAssumption DEF SyncInv, LoopTypes, Fault
  <2>2. dropped' \subseteq Requests
    BY <1>1, <1>4, <1>5 DEF SyncInv, LoopTypes
  <2> QED BY <1>1, <2>1, <2>2, SameLoop
<1>9. ASSUME NEW q \in Requests, NEW l \in Kinds, NEW x \in Stages
      PROVE  /\ q \in N => ~Held(q, l, x)'
             /\ q \notin N => (Held(q, l, x)' <=> Held(q, l, x))
  <2>1. q \in N /\ Held(q, l, x) => l = "batch" /\ x = s
    BY <1>5, <1>6, OnePlace
  <2>2. CASE l = "batch"
    <3>1. Named(<<>>) = {}
      BY DEF Named, Elements
    <3>2. q \in N => q \notin Named(batch_tasks'[x])
      <4>1. q \in N /\ q \in Named(batch_tasks[x]) => x = s
        BY <2>1, <2>2 DEF Held
      <4> QED BY <1>7, <3>1, <4>1
    <3>3. q \notin N => (q \in Named(batch_tasks'[x]) <=> q \in Named(batch_tasks[x]))
      BY <1>3, <1>7, <3>1
    <3> QED BY <2>2, <3>2, <3>3, Zenon DEF Held
  <2>3. CASE l # "batch"
    <3>1. Held(q, l, x)' <=> Held(q, l, x)
      BY <1>1, <1>8, <2>3 DEF Held
    <3> QED BY <2>1, <2>3, <3>1
  <2> QED BY <2>2, <2>3
<1>10. (\A q \in Requests : WhereInv(q)') /\ CountInv'
  <2>1. (\A q \in Requests : WhereInv(q)) /\ CountInv /\ seeded \in Nat
    BY BoundTypes DEF SyncInv, RequestsInv, LoopTypes
  <2>2. dropped' = dropped \cup N
    BY <1>1, <1>4
  <2>3. \A q \in N, l \in Kinds, x \in Stages : ~Held(q, l, x)'
    BY <1>5, <1>9
  <2>4. \A q \in Requests \ N, l \in Kinds, x \in Stages : Held(q, l, x)' <=> Held(q, l, x)
    BY <1>9
  <2>5. UNCHANGED <<seeded, completed_requests, yielded>>
    BY <1>8
  <2> QED BY <1>5, <1>6, <2>1, <2>2, <2>3, <2>4, <2>5, DroppedWhere
<1>11. OnceInv'
  <2>1. OnceIn(<<>>)
    BY DEF OnceIn
  <2>2. ASSUME NEW x \in Stages
        PROVE  OnceIn(in_q'[x]) /\ OnceIn(batch_tasks'[x]) /\ OnceIn(out_q'[x])
    BY <1>1, <1>7, <2>1, QueueFacts
  <2> QED BY <2>2 DEF OnceInv
<1>12. ResultsInv' /\ YieldedInv'
  BY <1>1, <1>8 DEF SyncInv, RequestsInv, ResultsInv, YieldedInv
<1>13. QueueTypes'
  BY <1>1, <1>2 DEF SyncInv, QueueTypes
<1> QED BY <1>7, <1>8, <1>10, <1>11, <1>12, <1>13 DEF SyncInv, RequestsInv

-----------------------------------------------------------------------------
(* All steps.                                                              *)

(* A request is submitted.                                                 *)
LEMMA SeedKeeps ==
  ASSUME SyncInv, Seed
  PROVE  SyncInv'
<1>1. PICK r : r = seeded + 1
  OBVIOUS
<1> DEFINE t == Task(r, <<r>>, FALSE)
<1>2. /\ loop = "seeding" /\ seeded' = r /\ in_q' = Put(in_q, 0, t)
      /\ loop' = IF r = NumRequests THEN "running" ELSE loop
      /\ UNCHANGED <<at, current, completed_requests, engine_outputs, yielded, out_q, workerVars,
                     store, dropped, boundVars>>
  BY <1>1 DEF Seed
<1>3. /\ seeded \in Nat /\ r \in Nat /\ r > seeded /\ r <= NumRequests /\ r \in Requests /\ r # NoRequest
      /\ seeded < NumRequests /\ r \in 0..NumRequests
  <2>1. seeded < NumRequests /\ NumRequests \in Nat /\ seeded \in 0..NumRequests
    BY <1>2, BoundTypes DEF SyncInv, LoopInv, LoopTypes
  <2> QED BY <1>1, <2>1 DEF Requests, NoRequest
<1>4. 0 \in Stages /\ 0 <= FinalStage[r]
  <2>1. FinalStage[r] \in Nat
    BY <1>3, BoundTypes
  <2> QED BY <2>1, BoundTypes
<1>5. /\ t \in TaskType /\ t.request_id = r /\ t.type = "generate" /\ ~t.from_connector
      /\ t.inputs = <<t.request_id>>
  BY <1>3 DEF Task, TaskType
<1>6. /\ in_q'[0] = Append(in_q[0], t) /\ \A x \in Stages \ {0} : in_q'[x] = in_q[x]
      /\ \A x \in Stages : in_q[x] \in Seq(TaskType) /\ OnceIn(in_q[x])
      /\ DOMAIN in_q' = Stages /\ in_q' = [x \in DOMAIN in_q' |-> in_q'[x]]
  BY <1>2, <1>4, QueueFacts DEF Put, SyncInv, QueueTypes
<1> HIDE DEF t
<1>7. WhereInv(r) /\ \A q \in Requests : WhereInv(q)
  BY <1>3 DEF SyncInv, RequestsInv
<1>8. /\ \A k \in Kinds, x \in Stages : ~Held(r, k, x)
      /\ r \notin dropped /\ StagesYielded(r) = FinalOutput \cap 0..-1
  BY <1>3, <1>7 DEF WhereInv, HasHad
<1>9. \A x \in Stages : r \notin Named(in_q[x])
  BY <1>8 DEF Held, Kinds
<1>10. /\ in_q'[0] \in Seq(TaskType)
       /\ Elements(in_q'[0]) = Elements(in_q[0]) \cup {t}
       /\ Named(in_q'[0]) = Named(in_q[0]) \cup {r}
       /\ OnceIn(in_q'[0])
  <2>1. /\ Append(in_q[0], t) \in Seq(TaskType)
        /\ Elements(Append(in_q[0], t)) = Elements(in_q[0]) \cup {t}
        /\ Named(Append(in_q[0], t)) = Named(in_q[0]) \cup ({t.request_id} \ {NoRequest})
        /\ OnceIn(in_q[0]) /\ t.request_id \notin Named(in_q[0]) => OnceIn(Append(in_q[0], t))
    BY <1>4, <1>5, <1>6, NamedAppend
  <2>2. {t.request_id} \ {NoRequest} = {r}
    BY <1>3, <1>5
  <2>3. in_q'[0] = Append(in_q[0], t) /\ OnceIn(in_q[0]) /\ t.request_id \notin Named(in_q[0])
    BY <1>4, <1>5, <1>6, <1>9
  <2> QED BY <2>1, <2>2, <2>3
<1>11. in_q' \in [Stages -> Seq(TaskType)]
  <2>1. \A x \in Stages : in_q'[x] \in Seq(TaskType)
    BY <1>6, <1>10
  <2> QED BY <1>6, <2>1
<1>12. ASSUME NEW q \in Requests, NEW l \in Kinds, NEW x \in Stages
       PROVE  /\ q = r => (Held(q, l, x)' <=> l = "task" /\ x = 0)
              /\ q # r => (Held(q, l, x)' <=> Held(q, l, x))
  <2>1. CASE l = "task"
    <3>1. q = r => (q \in Named(in_q'[x]) <=> x = 0)
      BY <1>6, <1>9, <1>10
    <3>2. q # r => (q \in Named(in_q'[x]) <=> q \in Named(in_q[x]))
      BY <1>6, <1>10
    <3> QED BY <2>1, <3>1, <3>2, Zenon DEF Held
  <2>2. CASE l # "task"
    <3>1. Held(q, l, x)' <=> Held(q, l, x)
      BY <1>2, <2>2 DEF Held, workerVars
    <3> QED BY <1>8, <2>2, <3>1
  <2> QED BY <2>1, <2>2
<1>13. \A q : StagesYielded(q)' = StagesYielded(q)
  BY <1>2 DEF StagesYielded
<1>14. WhereInv(r)' /\ ~Counted(r)' /\ ~Counted(r)
  <2>1. "task" \in Kinds /\ UpTo("task", 0) = -1
    BY DEF Kinds, UpTo
  <2>2. \A l \in Kinds, x \in Stages : Held(r, l, x)' <=> l = "task" /\ x = 0
    BY <1>3, <1>12
  <2>3. seeded' \in Nat /\ r <= seeded' /\ r \notin dropped'
    BY <1>2, <1>3, <1>8
  <2>4. StagesYielded(r)' = FinalOutput \cap 0..UpTo("task", 0)
    BY <1>8, <1>13, <2>1
  <2>5. ~Counted(r)
    BY <1>3 DEF Counted
  <2> QED BY <1>3, <1>4, <2>1, <2>2, <2>3, <2>4, <2>5, PlacedWhere
<1>15. ASSUME NEW q \in Requests, q # r PROVE WhereInv(q)' /\ (Counted(q)' <=> Counted(q))
  <2>1. q \in Nat
    BY BoundTypes
  <2>2. (q <= seeded' <=> q <= seeded) /\ (q > seeded' <=> q > seeded) /\ (q \in dropped' <=> q \in dropped)
    BY <1>1, <1>2, <1>3, <1>15, <2>1
  <2>3. \A l \in Kinds, x \in Stages : Held(q, l, x)' <=> Held(q, l, x)
    BY <1>12, <1>15
  <2> QED BY <1>7, <1>13, <2>2, <2>3, SameWhere
<1>16. (\A q \in Requests : WhereInv(q)') /\ CountInv'
  <2>1. \A q \in Requests : WhereInv(q)' /\ (Counted(q)' <=> Counted(q))
    BY <1>14, <1>15
  <2>2. CountInv /\ completed_requests' = completed_requests
    BY <1>2 DEF SyncInv, RequestsInv
  <2> QED BY <2>1, <2>2, SameCount
<1>17. OnceInv'
  <2>1. \A x \in Stages : OnceIn(in_q'[x])
    BY <1>6, <1>10
  <2> QED BY <1>2, <2>1 DEF OnceInv, SyncInv, RequestsInv, workerVars
<1>18. TasksInv'
  <2>1. \A e, x : GenerateOk(e, x)' <=> GenerateOk(e, x)
    BY <1>2 DEF GenerateOk
  <2>2. GenerateOk(t, 0)
    BY <1>3, <1>5 DEF GenerateOk
  <2>3. TasksInv
    BY DEF SyncInv, RequestsInv
  <2>4. ASSUME NEW x \in Stages, NEW e \in Elements(in_q'[x]) PROVE GenerateOk(e, x) \/ ControlOk(e)
    BY <1>6, <1>10, <2>2, <2>3 DEF TasksInv
  <2> QED BY <1>2, <2>1, <2>3, <2>4 DEF TasksInv, workerVars
<1>19. ResultsInv' /\ YieldedInv'
  BY <1>2 DEF SyncInv, RequestsInv, ResultsInv, YieldedInv
<1>20. StoreInv'
  <2>1. ASSUME NEW x \in Stages, NEW q, Asks(q, x) PROVE Asks(q, x)'
    <3>1. Elements(in_q[x]) \subseteq Elements(in_q'[x])
      BY <1>6, <1>10
    <3> QED BY <1>2, <2>1, <3>1 DEF Asks, workerVars
  <2>2. \A p \in store : p.to \in Stages
    BY DEF SyncInv, QueueTypes
  <2> QED BY <1>2, <2>1, <2>2 DEF SyncInv, RequestsInv, StoreInv, workerVars
<1>21. QueueTypes'
  BY <1>2, <1>11 DEF SyncInv, QueueTypes
<1>22. LoopTypes'
  BY <1>2, <1>3 DEF SyncInv, LoopTypes, boundVars
<1>23. LoopInv'
  <2>1. NumRequests \in Nat
    BY BoundTypes
  <2> QED BY <1>2, <1>3, <2>1 DEF SyncInv, LoopInv
<1>24. WorkerTypes'
  BY <1>2, SameTypes
<1> QED BY <1>16, <1>17, <1>18, <1>19, <1>20, <1>21, <1>22, <1>23, <1>24 DEF SyncInv, RequestsInv

(* Nothing has happened yet.                                               *)
LEMMA InitSync == Init => SyncInv
<1> SUFFICES ASSUME Init PROVE SyncInv
  OBVIOUS
<1>1. /\ loop = "seeding" /\ seeded = 0 /\ at = 0 /\ current = NoResult
      /\ completed_requests = 0 /\ engine_outputs = [s \in Stages |-> <<>>]
      /\ in_q = [s \in Stages |-> <<>>] /\ out_q = [s \in Stages |-> <<>>]
      /\ worker \in [Stages -> {"starting", "idle"}] /\ batch_tasks = [s \in Stages |-> <<>>]
      /\ store = {} /\ yielded = <<>> /\ dropped = {} /\ faults = 0 /\ profiles = 0
  BY DEF Init
<1>2. current \in [stage : Stages, request_id : Requests \cup {NoRequest}] /\ current.request_id = NoRequest
  BY <1>1, BoundTypes DEF NoResult
<1>3. \A s \in Stages : in_q[s] = <<>> /\ out_q[s] = <<>> /\ batch_tasks[s] = <<>>
  BY <1>1
<1>4. Named(<<>>) = {} /\ OnceIn(<<>>) /\ Elements(<<>>) = {}
  BY DEF Named, OnceIn, Elements
<1>5. LoopTypes
  <2>1. 0 \in 0..NumRequests /\ 0 \in 0..NumStages /\ 0 \in 0..MaxFaults /\ 0 \in 0..MaxProfiles
    BY BoundTypes, SyncAssumption
  <2> QED BY <1>1, <1>2, <2>1 DEF LoopTypes
<1>6. QueueTypes
  BY <1>1 DEF QueueTypes
<1>7. WorkerTypes
  BY <1>1 DEF WorkerTypes, BatchOk
<1>8. LoopInv
  BY <1>1, <1>2, BoundTypes DEF LoopInv
<1>9. ASSUME NEW r \in Requests PROVE WhereInv(r) /\ ~Counted(r)
  <2>1. \A k \in Kinds, s \in Stages : ~Held(r, k, s)
    BY <1>2, <1>3, <1>4, BoundTypes DEF Held
  <2>2. ~(r <= seeded) /\ -1 \in -1..FinalStage[r]
    <3>1. r \in Nat /\ r > 0 /\ FinalStage[r] \in Nat
      BY BoundTypes
    <3> QED BY <1>1, <3>1
  <2>3. HasHad(r, -1)
    <3>1. DOMAIN yielded = {} /\ 0..-1 = {}
      BY <1>1
    <3>2. StagesYielded(r) = {}
      BY <3>1 DEF StagesYielded
    <3> QED BY <3>1, <3>2 DEF HasHad
  <2> QED BY <1>1, <2>1, <2>2, <2>3 DEF WhereInv, Counted
<1>10. CountInv
  <2>1. {r \in Requests : Counted(r)} = {}
    BY <1>9
  <2>2. Cardinality({}) = 0
    BY FS_EmptySet
  <2> QED BY <1>1, <2>1, <2>2 DEF CountInv
<1>11. OnceInv /\ TasksInv /\ ResultsInv /\ StoreInv
  BY <1>1, <1>3, <1>4 DEF OnceInv, TasksInv, ResultsInv, StoreInv
<1>12. YieldedInv
  <2>1. DOMAIN yielded = {}
    BY <1>1
  <2> QED BY <2>1 DEF YieldedInv
<1> QED BY <1>5, <1>6, <1>7, <1>8, <1>9, <1>10, <1>11, <1>12 DEF SyncInv, RequestsInv

(* Every step keeps the invariant.                                         *)
LEMMA NextSync == SyncInv /\ [Next]_vars => SyncInv'
<1> SUFFICES ASSUME SyncInv, [Next]_vars PROVE SyncInv'
  OBVIOUS
<1>1. CASE UNCHANGED vars
  <2>1. UNCHANGED <<loopVars, in_q, out_q, workerVars, store, dropped, boundVars>>
    BY <1>1 DEF vars
  <2>2. /\ in_q' \in [Stages -> Seq(TaskType)] /\ \A x \in Stages : SameTasks(in_q[x], in_q'[x])
        /\ out_q' \in [Stages -> Seq(ResultType)] /\ \A x \in Stages : SameResults(out_q[x], out_q'[x])
        /\ WorkerTypes'
    BY <2>1, SameTypes
  <2>3. LoopInv' /\ LoopTypes' /\ UNCHANGED <<seeded, current, completed_requests, yielded>>
    BY <2>1, SameLoop DEF SyncInv, LoopTypes, boundVars
  <2> QED BY <2>1, <2>2, <2>3, QuietKeeps DEF workerVars
<1>2. CASE Orchestrator
  <2>1. ASSUME NEW s \in Stages, Loop(s) PROVE SyncInv'
    <3>1. CASE CollectAndYield(s)
      <4>1. PICK r : r = Head(out_q[s]).request_id
        OBVIOUS
      <4> QED BY <3>1, <4>1, CollectAndYieldKeeps
    <3> QED
      BY <2>1, <3>1, PollKeeps, CollectErrorKeeps, CollectAndPassOnKeeps, ProfileAnswerKeeps,
         ProfileTimeoutKeeps, StopWorkerKeeps, JoinKeeps DEF Loop
  <2> QED BY <1>2, <2>1, SeedKeeps, EndPassKeeps, ResumeKeeps, SendShutdownsKeeps DEF Orchestrator
<1>3. ASSUME NEW s \in Stages, Worker(s) PROVE SyncInv'
  BY <1>3, WorkerControlKeeps, BatchFillsKeeps, GenerateKeeps, GenerateFailsKeeps,
     PayloadMissingKeeps DEF Worker
<1> QED BY <1>1, <1>2, <1>3, CloseKeeps, StopProfileKeeps DEF Next

-----------------------------------------------------------------------------
(* What follows.                                                           *)

(* The invariant holds in every state.                                     *)
THEOREM SyncInvariant == Safety => []SyncInv
<1> QED
  BY InitSync, NextSync, PTL DEF Safety

(* Every variable keeps its type, for any number of requests and stages,   *)
(* batch sizes, faults and calls of stop_profile, and no batch is larger   *)
(* than max_batch_size.                                                    *)
THEOREM SyncTypes == Spec => []TypeOK
<1>1. ASSUME SyncInv PROVE TypeOK
  <2>1. completed_requests \in 0..NumRequests
    BY <1>1, CountRange DEF SyncInv, RequestsInv
  <2>2. LoopTypes /\ QueueTypes /\ WorkerTypes
    BY <1>1 DEF SyncInv
  <2>3. \A s \in Stages :
          /\ worker[s] \in {"filling", "full"} => Len(batch_tasks[s]) \in 1..MaxBatchSize
          /\ worker[s] \in {"starting", "idle", "exited", "dead"} => batch_tasks[s] = <<>>
    BY <2>2 DEF WorkerTypes, BatchOk
  <2> QED BY <2>1, <2>2, <2>3 DEF TypeOK, LoopTypes, QueueTypes, WorkerTypes
<1> QED
  BY <1>1, SyncInvariant, PTL DEF Spec

(* The places of a request.                                                *)
LEMMA PlacesHeld ==
  ASSUME SyncInv, NEW r \in Requests
  PROVE  /\ Places(r) = {} <=> Nowhere(r)
         /\ \A p, q \in Places(r) : p = q
<1>1. /\ \A s \in Stages : /\ DOMAIN in_q[s] = 1..Len(in_q[s]) /\ DOMAIN out_q[s] = 1..Len(out_q[s])
                           /\ DOMAIN batch_tasks[s] = 1..Len(batch_tasks[s])
                           /\ OnceIn(in_q[s]) /\ OnceIn(batch_tasks[s]) /\ OnceIn(out_q[s])
      /\ r # NoRequest
  BY QueueFacts, LenProperties, BoundTypes
<1>2. ASSUME NEW p
      PROVE  p \in Places(r) <=>
               \/ \E s \in Stages : \E i \in DOMAIN in_q[s] :
                    in_q[s][i].request_id = r /\ p = <<"task", s, i>>
               \/ \E s \in Stages : \E i \in DOMAIN batch_tasks[s] :
                    batch_tasks[s][i].request_id = r /\ p = <<"batch", s, i>>
               \/ \E s \in Stages : \E i \in DOMAIN out_q[s] :
                    out_q[s][i].request_id = r /\ p = <<"result", s, i>>
               \/ current.request_id = r /\ p = <<"yielded", current.stage, 0>>
  <2>1. \A s : p \in PlacesAt(r, s) <=>
          \/ \E i \in DOMAIN in_q[s] : in_q[s][i].request_id = r /\ p = <<"task", s, i>>
          \/ \E i \in DOMAIN batch_tasks[s] : batch_tasks[s][i].request_id = r /\ p = <<"batch", s, i>>
          \/ \E i \in DOMAIN out_q[s] : out_q[s][i].request_id = r /\ p = <<"result", s, i>>
    BY DEF PlacesAt
  <2>2. p \in InHand(r) <=> current.request_id = r /\ p = <<"yielded", current.stage, 0>>
    BY DEF InHand
  <2>3. p \in UNION {PlacesAt(r, s) : s \in Stages} <=> \E s \in Stages : p \in PlacesAt(r, s)
    OBVIOUS
  <2>4. p \in Places(r) <=> p \in UNION {PlacesAt(r, s) : s \in Stages} \/ p \in InHand(r)
    BY DEF Places
  <2> QED BY <2>1, <2>2, <2>3, <2>4
<1>3. \A s \in Stages :
        /\ Held(r, "task", s) <=> \E i \in DOMAIN in_q[s] : in_q[s][i].request_id = r
        /\ Held(r, "batch", s) <=> \E i \in DOMAIN batch_tasks[s] : batch_tasks[s][i].request_id = r
        /\ Held(r, "result", s) <=> \E i \in DOMAIN out_q[s] : out_q[s][i].request_id = r
        /\ Held(r, "yielded", s) <=> current.request_id = r /\ s = current.stage
  BY <1>1, NamedIn DEF Held
<1>4. current.stage \in Stages /\ WhereInv(r)
  BY DEF SyncInv, LoopTypes, RequestsInv
<1>5. \A k, l \in Kinds, s, t \in Stages : Held(r, k, s) /\ Held(r, l, t) => k = l /\ s = t
  BY <1>4 DEF WhereInv
<1>6. ASSUME NEW p \in Places(r)
      PROVE  \E k \in Kinds, s \in Stages : Held(r, k, s) /\ p[1] = k /\ p[2] = s
  <2>1. {"task", "batch", "result", "yielded"} \subseteq Kinds
    BY DEF Kinds
  <2>2. CASE \E s \in Stages : \E i \in DOMAIN in_q[s] : in_q[s][i].request_id = r /\ p = <<"task", s, i>>
    BY <1>3, <2>1, <2>2
  <2>3. CASE \E s \in Stages : \E i \in DOMAIN batch_tasks[s] :
               batch_tasks[s][i].request_id = r /\ p = <<"batch", s, i>>
    BY <1>3, <2>1, <2>3
  <2>4. CASE \E s \in Stages : \E i \in DOMAIN out_q[s] : out_q[s][i].request_id = r /\ p = <<"result", s, i>>
    BY <1>3, <2>1, <2>4
  <2>5. CASE current.request_id = r /\ p = <<"yielded", current.stage, 0>>
    BY <1>3, <1>4, <2>1, <2>5
  <2> QED BY <1>2, <2>2, <2>3, <2>4, <2>5
<1>7. ASSUME NEW k \in Kinds, NEW s \in Stages, Held(r, k, s) PROVE Places(r) # {}
  <2>1. CASE k = "task"
    BY <1>2, <1>3, <1>7, <2>1, ZenonT(40)
  <2>2. CASE k = "batch"
    BY <1>2, <1>3, <1>7, <2>2
  <2>3. CASE k = "result"
    BY <1>2, <1>3, <1>7, <2>3
  <2>4. CASE k = "yielded"
    BY <1>2, <1>3, <1>7, <2>4
  <2> QED BY <2>1, <2>2, <2>3, <2>4 DEF Kinds
<1>8. Places(r) = {} <=> Nowhere(r)
  BY <1>6, <1>7 DEF Nowhere
<1>9. ASSUME NEW p \in Places(r), NEW q \in Places(r) PROVE p = q
  <2>1. p[1] = q[1] /\ p[2] = q[2]
    <3>1. PICK k \in Kinds, s \in Stages : Held(r, k, s) /\ p[1] = k /\ p[2] = s
      BY <1>6
    <3>2. PICK l \in Kinds, t \in Stages : Held(r, l, t) /\ q[1] = l /\ q[2] = t
      BY <1>6
    <3> QED BY <1>5, <3>1, <3>2
  <2>2. CASE \E s \in Stages : \E i \in DOMAIN in_q[s] : in_q[s][i].request_id = r /\ p = <<"task", s, i>>
    <3>0. PICK s \in Stages : \E i \in DOMAIN in_q[s] : in_q[s][i].request_id = r /\ p = <<"task", s, i>>
      BY <2>2
    <3>1. PICK i \in DOMAIN in_q[s] : in_q[s][i].request_id = r /\ p = <<"task", s, i>>
      BY <3>0
    <3>2. q[1] = "task" /\ q[2] = s
      BY <2>1, <3>1
    <3>3. PICK j \in DOMAIN in_q[s] : in_q[s][j].request_id = r /\ q = <<"task", s, j>>
      BY <1>2, <3>2
    <3> QED BY <1>1, <3>1, <3>3 DEF OnceIn
  <2>3. CASE \E s \in Stages : \E i \in DOMAIN batch_tasks[s] :
               batch_tasks[s][i].request_id = r /\ p = <<"batch", s, i>>
    <3>0. PICK s \in Stages : \E i \in DOMAIN batch_tasks[s] :
                                 batch_tasks[s][i].request_id = r /\ p = <<"batch", s, i>>
      BY <2>3
    <3>1. PICK i \in DOMAIN batch_tasks[s] : batch_tasks[s][i].request_id = r /\ p = <<"batch", s, i>>
      BY <3>0
    <3>2. q[1] = "batch" /\ q[2] = s
      BY <2>1, <3>1
    <3>3. PICK j \in DOMAIN batch_tasks[s] : batch_tasks[s][j].request_id = r /\ q = <<"batch", s, j>>
      BY <1>2, <3>2
    <3> QED BY <1>1, <3>1, <3>3 DEF OnceIn
  <2>4. CASE \E s \in Stages : \E i \in DOMAIN out_q[s] : out_q[s][i].request_id = r /\ p = <<"result", s, i>>
    <3>0. PICK s \in Stages : \E i \in DOMAIN out_q[s] : out_q[s][i].request_id = r /\ p = <<"result", s, i>>
      BY <2>4
    <3>1. PICK i \in DOMAIN out_q[s] : out_q[s][i].request_id = r /\ p = <<"result", s, i>>
      BY <3>0
    <3>2. q[1] = "result" /\ q[2] = s
      BY <2>1, <3>1
    <3>3. PICK j \in DOMAIN out_q[s] : out_q[s][j].request_id = r /\ q = <<"result", s, j>>
      BY <1>2, <3>2
    <3> QED BY <1>1, <3>1, <3>3 DEF OnceIn
  <2>5. CASE current.request_id = r /\ p = <<"yielded", current.stage, 0>>
    BY <1>2, <2>1, <2>5
  <2> QED BY <1>2, <2>2, <2>3, <2>4, <2>5
<1> QED BY <1>8, <1>9

(* No request is lost or doubled: it is in one place, or was dropped by a  *)
(* fault that was seen, or was counted, and the count on which generate()  *)
(* ends is that of the requests that were counted.                         *)
THEOREM RequestsAccounted == Spec => []Accounted
<1>1. ASSUME SyncInv PROVE Accounted
  <2>1. ASSUME NEW r \in Requests PROVE Cardinality(Places(r)) <= 1
    <3>1. CASE Places(r) = {}
      <4>1. Cardinality(Places(r)) = 0
        BY <3>1, FS_EmptySet
      <4> QED BY <4>1
    <3>2. CASE Places(r) # {}
      <4>1. PICK p : p \in Places(r)
        BY <3>2
      <4>2. Places(r) = {p}
        BY <1>1, <4>1, PlacesHeld
      <4>3. Cardinality({p}) = 1
        BY FS_Singleton
      <4> QED BY <4>2, <4>3
    <3> QED BY <3>1, <3>2
  <2>2. ASSUME NEW r \in dropped PROVE Places(r) = {}
    <3>1. r \in Requests /\ WhereInv(r)
      BY <1>1 DEF SyncInv, LoopTypes, RequestsInv
    <3> QED BY <1>1, <3>1, PlacesHeld DEF WhereInv, Nowhere
  <2>3. {r \in 1..seeded \ dropped : Places(r) = {}} = {r \in Requests : Counted(r)}
    <3>1. seeded \in 0..NumRequests /\ NumRequests \in Nat
      BY <1>1, BoundTypes DEF SyncInv, LoopTypes
    <3>2. \A r : r \in 1..seeded <=> r \in Requests /\ r <= seeded
      BY <3>1 DEF Requests
    <3>3. \A r \in Requests : Places(r) = {} <=> Nowhere(r)
      BY <1>1, PlacesHeld
    <3> QED BY <3>2, <3>3 DEF Counted
  <2> QED BY <1>1, <2>1, <2>2, <2>3 DEF Accounted, SyncInv, RequestsInv, CountInv
<1> QED
  BY <1>1, SyncInvariant, PTL DEF Spec

(* What the caller gets for a request was made of its own data, whatever   *)
(* the batches and the order in which engines finish; it comes in the      *)
(* order of the stages, each once and none passed over, and is complete    *)
(* when generate() returns.                                                *)
THEOREM CallerGetsItsOwn == Spec => []OwnOutputs
<1>1. ASSUME SyncInv PROVE OwnOutputs
  <2>1. YieldedInv
    BY <1>1 DEF SyncInv, RequestsInv
  <2>2. ASSUME NEW r \in Requests
        PROVE  /\ \A s \in StagesYielded(r) :
                    s \in OutputStages(r) /\ OutputStages(r) \cap 0..s \subseteq StagesYielded(r)
               /\ loop = "returned" => StagesYielded(r) = OutputStages(r)
    <3>1. FinalStage[r] \in Nat
      BY BoundTypes
    <3>2. PICK m \in -1..FinalStage[r] : StagesYielded(r) = FinalOutput \cap 0..m
      BY <1>1 DEF SyncInv, RequestsInv, WhereInv, HasHad
    <3>3. ASSUME NEW s \in StagesYielded(r)
          PROVE  s \in OutputStages(r) /\ OutputStages(r) \cap 0..s \subseteq StagesYielded(r)
      <4>1. s \in FinalOutput /\ s \in 0..m
        BY <3>2
      <4>2. s \in 0..FinalStage[r] /\ 0..s \subseteq 0..m
        BY <3>1, <4>1
      <4> QED BY <3>2, <4>1, <4>2 DEF OutputStages
    <3>4. ASSUME loop = "returned" PROVE StagesYielded(r) = OutputStages(r)
      <4>1. completed_requests = NumRequests
        BY <1>1, <3>4 DEF SyncInv, LoopInv
      <4>2. Counted(r)
        BY <1>1, <4>1, CountRange DEF SyncInv, RequestsInv
      <4> QED BY <1>1, <4>2 DEF SyncInv, RequestsInv, WhereInv, HasHad, OutputStages
    <3> QED BY <3>3, <3>4
  <2> QED BY <2>1, <2>2 DEF OwnOutputs, YieldedInv
<1> QED
  BY <1>1, SyncInvariant, PTL DEF Spec

(* The tasks that announce a payload and the payloads in the connectors    *)
(* belong together: none is announced before it is there, read twice, or   *)
(* left behind by a batch.                                                 *)
THEOREM PayloadForEachTask == Spec => []PayloadPerTask
<1>1. ASSUME SyncInv, NEW s \in Stages, NEW waiting, NEW there,
             waiting = {t \in Range(in_q[s]) \cup Range(batch_tasks[s]) : t.from_connector},
             there = {p \in store : p.to = s}
      PROVE  /\ \A t \in waiting : Cardinality(Payload(s, t)) = 1
             /\ worker[s] # "dead" => {p.request_id : p \in there} = {t.request_id : t \in waiting}
  <2>1. Range(in_q[s]) = Elements(in_q[s]) /\ Range(batch_tasks[s]) = Elements(batch_tasks[s])
    BY <1>1, QueueFacts, LenProperties DEF Range, Elements
  <2>2. ASSUME NEW t \in waiting PROVE Message(s, t.request_id) \in store
    BY <1>1, <2>1, QueueFacts DEF TaskOk, ControlOk, GenerateOk
  <2>3. \A p \in store : p = Message(p.to, p.request_id)
    <3>1. \A p \in store : /\ p \in [to : Stages, request_id : Requests, inputs : Seq(Requests)]
                           /\ p.inputs = <<p.request_id>>
      BY <1>1 DEF SyncInv, QueueTypes, RequestsInv, StoreInv
    <3>2. ASSUME NEW p \in store PROVE p = Message(p.to, p.request_id)
      <4>1. p = [to |-> p.to, request_id |-> p.request_id, inputs |-> p.inputs]
        BY <3>1
      <4> QED BY <3>1, <4>1 DEF Message
    <3> QED BY <3>2
  <2>4. ASSUME NEW t \in waiting PROVE Cardinality(Payload(s, t)) = 1
    <3>1. Payload(s, t) = {Message(s, t.request_id)}
      <4>1. \A p \in Payload(s, t) : p = Message(s, t.request_id)
        BY <2>3 DEF Payload
      <4>2. Message(s, t.request_id) \in Payload(s, t)
        BY <2>2 DEF Payload, Message
      <4> QED BY <4>1, <4>2
    <3>2. Cardinality({Message(s, t.request_id)}) = 1
      BY FS_Singleton
    <3> QED BY <3>1, <3>2
  <2>5. ASSUME worker[s] # "dead"
        PROVE  {p.request_id : p \in there} = {t.request_id : t \in waiting}
    <3>1. \A p \in there : \E t \in waiting : t.request_id = p.request_id
      BY <1>1, <2>1, <2>5 DEF SyncInv, RequestsInv, StoreInv, Asks
    <3>2. \A t \in waiting : \E p \in there : p.request_id = t.request_id
      <4> TAKE t \in waiting
      <4>1. Message(s, t.request_id) \in there
        BY <1>1, <2>2 DEF Message
      <4> QED BY <4>1 DEF Message
    <3> QED BY <3>1, <3>2
  <2> QED BY <2>4, <2>5
<1>2. SyncInv => PayloadPerTask
  BY <1>1 DEF PayloadPerTask
<1> QED
  BY <1>2, SyncInvariant, PTL DEF Spec

=============================================================================
