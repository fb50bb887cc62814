------------------------- MODULE AudioStreamProofs -------------------------
(***************************************************************************)
(* Proofs about AudioStream: type correctness, that every frame is decoded *)
(* exactly once whatever the sizes of chunks and contexts, and that a      *)
(* listener of the speech endpoint hears every chunk once and in order.    *)
(***************************************************************************)
EXTENDS AudioStream, TLAPS

-----------------------------------------------------------------------------
(* Arithmetic of the windows.                                              *)

(* The remainder of the next number.                                       *)
LEMMA ModStep ==
  ASSUME NEW L \in Nat \ {0}, NEW a \in Nat
  PROVE  /\ a % L \in 0..L - 1
         /\ (a + 1) % L = IF (a % L) + 1 = L THEN 0 ELSE (a % L) + 1
<1> DEFINE q == a \div L   m == a % L   q1 == (a + 1) \div L   m1 == (a + 1) % L
<1>1. a = L * q + m /\ m \in 0..L - 1 /\ q \in Int
  BY SMT
<1>2. a + 1 = L * q1 + m1 /\ m1 \in 0..L - 1 /\ q1 \in Int
  BY SMT
<1> HIDE DEF q, m, q1, m1
<1>3. L * (q1 - q) = m + 1 - m1
  BY <1>1, <1>2, SMT
<1>4. q1 - q >= 0
  <2> SUFFICES ASSUME q1 - q <= -1 PROVE FALSE
    BY <1>1, <1>2, SMT
  <2>1. L * (q1 - q) <= -L
    BY <1>1, <1>2, SMT
  <2> QED BY <2>1, <1>1, <1>2, <1>3, SMT
<1>5. q1 - q <= 1
  <2> SUFFICES ASSUME q1 - q >= 2 PROVE FALSE
    BY <1>1, <1>2, SMT
  <2>1. L * (q1 - q) >= 2 * L
    BY <1>1, <1>2, SMT
  <2> QED BY <2>1, <1>1, <1>2, <1>3, SMT
<1>6. CASE q1 - q = 0
  <2>1. m1 = m + 1
    BY <1>1, <1>2, <1>3, <1>6, SMT
  <2> QED BY <1>1, <1>2, <2>1, SMT DEF m, m1
<1>7. CASE q1 - q = 1
  <2>1. m + 1 - m1 = L
    BY <1>1, <1>2, <1>3, <1>7, SMT
  <2> QED BY <1>1, <1>2, <2>1, SMT DEF m, m1
<1> QED BY <1>1, <1>2, <1>4, <1>5, <1>6, <1>7, SMT

(* A length is a multiple of L, or a part of L is left over; beyond the    *)
(* first L there is room for a context.                                    *)
LEMMA Left ==
  ASSUME NEW L \in Nat \ {0}, NEW a \in Nat \ {0}
  PROVE  /\ a % L \in 0..L - 1
         /\ a % L # 0 => (a = a % L /\ a < L) \/ a >= L + (a % L)
         /\ a % L = 0 => a = L \/ a >= 2 * L
<1> DEFINE q == a \div L   m == a % L
<1>1. a = L * q + m /\ m \in 0..L - 1 /\ q \in Int
  BY SMT
<1> HIDE DEF q, m
<1>2. q >= 0
  <2> SUFFICES ASSUME q <= -1 PROVE FALSE
    BY <1>1, SMT
  <2>1. L * q <= -L
    BY <1>1, SMT
  <2> QED BY <2>1, <1>1, SMT
<1>3. CASE q = 0
  <2>1. a = m
    BY <1>1, <1>3, SMT
  <2> QED BY <1>1, <2>1, SMT DEF m
<1>4. CASE q = 1
  <2>1. a = L + m
    BY <1>1, <1>4, SMT
  <2> QED BY <1>1, <2>1, SMT DEF m
<1>5. CASE q >= 2
  <2>1. L * q >= 2 * L
    BY <1>1, <1>5, SMT
  <2> QED BY <1>1, <2>1, SMT DEF m
<1> QED BY <1>1, <1>2, <1>3, <1>4, <1>5, SMT

(* The frame at which the window before the one that ends at l ends.       *)
PrevCut(l) == l - (IF l % LeftContext # 0 THEN l % LeftContext ELSE LeftContext)

(* What code2wav makes of the window that ends at frame l.                 *)
LEMMA WindowDecoded ==
  ASSUME NEW l \in Nat \ {0}
  PROVE  /\ Window(l) \in Intervals /\ Window(l).last = l
         /\ PrevCut(l) \in Nat
         /\ StreamingDecoded(Window(l)) = [first |-> PrevCut(l) + 1, last |-> l]
<1> USE AudioAssumption
<1>0. LeftContext \in Nat \ {0}
  OBVIOUS
<1>1. /\ l % LeftContext \in 0..LeftContext - 1
      /\ l % LeftContext # 0 => (l = l % LeftContext /\ l < LeftContext) \/ l >= LeftContext + (l % LeftContext)
      /\ l % LeftContext = 0 => l = LeftContext \/ l >= 2 * LeftContext
  BY <1>0, Left
<1> DEFINE c == l % LeftContext   d == IF c # 0 THEN c ELSE LeftContext
           e == Smaller(l, LeftContext + d)
<1>2. c \in Nat /\ d \in 1..LeftContext /\ PrevCut(l) = l - d /\ EndIndex(l) = e
  BY <1>0, <1>1 DEF PrevCut, EndIndex
<1>3. \/ l <= LeftContext /\ d = l
      \/ l >= LeftContext + d /\ d \in 1..LeftContext
  BY <1>0, <1>1
<1> HIDE DEF c, d
<1>4. Window(l) = [first |-> l - e + 1, last |-> l] /\ e \in 1..l
  BY <1>0, <1>2 DEF Window, Smaller
<1>5. Window(l) \in Intervals /\ Window(l).last = l
  BY <1>4 DEF Intervals
<1>6. e = IF l <= LeftContext THEN l ELSE LeftContext + d
  BY <1>0, <1>2, <1>3 DEF Smaller
<1>7. StreamingDecoded(Window(l)) = [first |-> l - d + 1, last |-> l]
  <2>1. StreamingDecoded(Window(l)) =
          [first |-> (l - e + 1) + (IF e <= LeftContext THEN 0 ELSE LeftContext), last |-> l]
    BY <1>0, <1>4 DEF StreamingDecoded
  <2>2. (l - e + 1) + (IF e <= LeftContext THEN 0 ELSE LeftContext) = l - d + 1
    BY <1>0, <1>2, <1>3, <1>6
  <2> QED BY <2>1, <2>2
<1> QED BY <1>2, <1>3, <1>5, <1>7

(* The overlap of the TTS decoder leaves exactly the new frames.           *)
LEMMA OverlapIsNew ==
  ASSUME NEW prev \in Nat, NEW n \in Nat
  PROVE  /\ OverlapDecoded(prev, n) \in Intervals
         /\ OverlapDecoded(prev, n).first = prev + 1
         /\ OverlapDecoded(prev, n).last = prev + n
<1>1. OverlapDecoded(prev, n) = [first |-> prev + 1, last |-> prev + n]
  BY AudioAssumption DEF OverlapDecoded, Larger
<1> QED BY <1>1 DEF Intervals

-----------------------------------------------------------------------------
(* Streams of windows and of decoded chunks.                               *)

(* The elements of a sequence.                                             *)
LEMMA Elements ==
  ASSUME NEW S, NEW s \in Seq(S)
  PROVE  /\ Len(s) \in Nat /\ DOMAIN s = 1..Len(s)
         /\ \A j \in DOMAIN s : s[j] \in S
         /\ s = <<>> <=> Len(s) = 0
OBVIOUS

(* The fields of the records.                                              *)
LEMMA IntervalFields == \A c \in Intervals : c.first \in Nat /\ c.last \in Nat
BY DEF Intervals

(* The fields of an output.                                                *)
LEMMA OutputFields ==
  \A o \in Outputs : o.request \in Requests /\ o.list \in BOOLEAN /\ o.finished \in BOOLEAN
BY DEF Outputs

(* The fields of a result.                                                 *)
LEMMA ResultFields ==
  \A m \in Results : m.request \in Requests /\ m.list \in BOOLEAN /\ m.len \in Nat \ {0}
BY DEF Results

(* The last frame of a stream of intervals that starts after frame from.   *)
End(s, from) == IF s = <<>> THEN from ELSE s[Len(s)].last

Contiguous(s) ==
  \A i \in DOMAIN s : s[i].first = IF i = 1 THEN 1 ELSE s[i - 1].last + 1

(* Windows cut one after the other.                                        *)
Windows(s, from) ==
  \A i \in DOMAIN s :
    /\ s[i].last \in Nat \ {0} /\ s[i] = Window(s[i].last)
    /\ PrevCut(s[i].last) = IF i = 1 THEN from ELSE s[i - 1].last

(* The end of a stream is a frame number.                                  *)
LEMMA EndType ==
  ASSUME NEW s \in Seq(Intervals), NEW from \in Nat
  PROVE  End(s, from) \in Nat
<1>1. s # <<>> => Len(s) \in DOMAIN s
  BY Elements
<1>2. s # <<>> => s[Len(s)].last \in Nat
  BY <1>1, Elements, IntervalFields
<1> QED BY <1>2 DEF End

(* The chunk after the last one continues the stream.                      *)
LEMMA ContiguousAppend ==
  ASSUME NEW s \in Seq(Intervals), NEW c \in Intervals,
         Contiguous(s), c.first = End(s, 0) + 1
  PROVE  Contiguous(Append(s, c)) /\ End(Append(s, c), 0) = c.last
<1>1. /\ Append(s, c) \in Seq(Intervals) /\ Len(Append(s, c)) = Len(s) + 1
      /\ Append(s, c)[Len(s) + 1] = c /\ \A i \in 1..Len(s) : Append(s, c)[i] = s[i]
      /\ DOMAIN Append(s, c) = 1..Len(s) + 1 /\ DOMAIN s = 1..Len(s) /\ Len(s) \in Nat
  OBVIOUS
<1>2. End(Append(s, c), 0) = c.last
  BY <1>1 DEF End
<1>3. s = <<>> <=> Len(s) = 0
  OBVIOUS
<1>4. ASSUME NEW i \in 1..Len(s) + 1
      PROVE  Append(s, c)[i].first = IF i = 1 THEN 1 ELSE Append(s, c)[i - 1].last + 1
  <2>1. CASE i = Len(s) + 1
    <3>1. i - 1 = Len(s) /\ Append(s, c)[i] = c /\ (s = <<>> <=> i = 1)
      BY <1>1, <1>3, <2>1
    <3>2. s # <<>> => Append(s, c)[i - 1] = s[Len(s)]
      BY <1>1, <1>3, <3>1
    <3> QED BY <3>1, <3>2 DEF End
  <2>2. CASE i \in 1..Len(s)
    <3>1. i # 1 => i - 1 \in 1..Len(s)
      BY <1>1, <2>2
    <3> QED BY <1>1, <2>2, <3>1 DEF Contiguous
  <2> QED BY <1>1, <2>1, <2>2
<1> QED BY <1>1, <1>2, <1>4 DEF Contiguous

(* A window that starts where the last one ends continues the stream.      *)
LEMMA WindowsAppend ==
  ASSUME NEW s \in Seq(Intervals), NEW from \in Nat, NEW l \in Nat \ {0},
         Windows(s, from), PrevCut(l) = End(s, from)
  PROVE  Windows(Append(s, Window(l)), from) /\ End(Append(s, Window(l)), from) = l
<1> DEFINE c == Window(l)
<1>0. c \in Intervals /\ c.last = l
  BY WindowDecoded
<1> HIDE DEF c
<1>1. /\ Append(s, c) \in Seq(Intervals) /\ Len(Append(s, c)) = Len(s) + 1
      /\ Append(s, c)[Len(s) + 1] = c /\ \A i \in 1..Len(s) : Append(s, c)[i] = s[i]
      /\ DOMAIN Append(s, c) = 1..Len(s) + 1 /\ DOMAIN s = 1..Len(s) /\ Len(s) \in Nat
  BY <1>0
<1>2. End(Append(s, c), from) = l
  BY <1>0, <1>1 DEF End
<1>3. s = <<>> <=> Len(s) = 0
  OBVIOUS
<1>4. ASSUME NEW i \in 1..Len(s) + 1
      PROVE  /\ Append(s, c)[i].last \in Nat \ {0}
             /\ Append(s, c)[i] = Window(Append(s, c)[i].last)
             /\ PrevCut(Append(s, c)[i].last) = IF i = 1 THEN from ELSE Append(s, c)[i - 1].last
  <2>1. CASE i = Len(s) + 1
    <3>1. Append(s, c)[i] = Window(l) /\ Append(s, c)[i].last = l
      BY <1>0, <1>1, <2>1 DEF c
    <3>2. PrevCut(l) = IF i = 1 THEN from ELSE Append(s, c)[i - 1].last
      <4>1. i - 1 = Len(s) /\ (s = <<>> <=> i = 1)
        BY <1>1, <1>3, <2>1
      <4>2. s # <<>> => Append(s, c)[i - 1] = s[Len(s)]
        BY <1>1, <1>3, <4>1
      <4> QED BY <4>1, <4>2 DEF End
    <3> QED BY <3>1, <3>2
  <2>2. CASE i \in 1..Len(s)
    <3>1. i # 1 => i - 1 \in 1..Len(s)
      BY <1>1, <2>2
    <3> QED BY <1>1, <2>2, <3>1 DEF Windows
  <2> QED BY <1>1, <2>1, <2>2
<1>5. Windows(Append(s, c), from)
  BY <1>1, <1>4 DEF Windows
<1> QED BY <1>2, <1>5 DEF c

(* Without its first window a stream starts where that window ended.       *)
LEMMA WindowsTail ==
  ASSUME NEW s \in Seq(Intervals), NEW from \in Nat, Windows(s, from), s # <<>>
  PROVE  /\ Head(s) = Window(Head(s).last) /\ Head(s).last \in Nat \ {0}
         /\ PrevCut(Head(s).last) = from
         /\ Windows(Tail(s), Head(s).last)
         /\ End(Tail(s), Head(s).last) = End(s, from)
<1>1. /\ Len(s) \in Nat \ {0} /\ DOMAIN s = 1..Len(s) /\ Head(s) = s[1]
      /\ Tail(s) \in Seq(Intervals) /\ Len(Tail(s)) = Len(s) - 1
      /\ DOMAIN Tail(s) = 1..Len(s) - 1 /\ \A i \in 1..Len(s) - 1 : Tail(s)[i] = s[i + 1]
  OBVIOUS
<1>2. /\ Head(s) = Window(Head(s).last) /\ Head(s).last \in Nat \ {0}
      /\ PrevCut(Head(s).last) = from
  BY <1>1 DEF Windows
<1>3. Tail(s) = <<>> <=> Len(s) = 1
  <2>1. Tail(s) = <<>> <=> Len(Tail(s)) = 0
    BY <1>1, Elements
  <2> QED BY <1>1, <2>1
<1>4. End(Tail(s), Head(s).last) = End(s, from)
  BY <1>1, <1>3 DEF End
<1>5. ASSUME NEW i \in 1..Len(s) - 1
      PROVE  /\ Tail(s)[i].last \in Nat \ {0} /\ Tail(s)[i] = Window(Tail(s)[i].last)
             /\ PrevCut(Tail(s)[i].last) = IF i = 1 THEN Head(s).last ELSE Tail(s)[i - 1].last
  <2>1. i + 1 \in 1..Len(s) /\ i + 1 # 1 /\ (i # 1 => i - 1 \in 1..Len(s) - 1) /\ (i + 1) - 1 = i
    BY <1>1
  <2>2. Tail(s)[i] = s[i + 1] /\ (i # 1 => Tail(s)[i - 1] = s[i])
    BY <1>1, <2>1
  <2> QED BY <1>1, <2>1, <2>2 DEF Windows
<1>6. Windows(Tail(s), Head(s).last)
  BY <1>1, <1>5 DEF Windows
<1> QED BY <1>2, <1>4, <1>6

-----------------------------------------------------------------------------
(* Types.                                                                  *)

(* An output is made only when there is something to hear.                 *)
OutputsInv ==
  /\ \A j \in DOMAIN generation_out_q : decoded[generation_out_q[j].request] # <<>>
  /\ \A r \in Requests : collector[r] # NoOutput => decoded[r] # <<>>

TypeInv == TypeOK /\ OutputsInv

(* An output of a request is not the absence of one.                       *)
LEMMA OutputIsOne ==
  ASSUME NEW r \in Requests, NEW list \in BOOLEAN, NEW finished \in BOOLEAN
  PROVE  /\ Output(r, list, finished) \in Outputs /\ Output(r, list, finished) # NoOutput
         /\ Output(r, list, finished).request = r /\ Output(r, list, finished).list = list
BY AudioAssumption DEF Output, NoOutput, Outputs

(* What the output processor changes, and that it keeps the types.         *)
LEMMA ProcessOutputsTypes ==
  ASSUME TypeInv, NEW r \in Requests, NEW c \in Intervals, NEW fin \in BOOLEAN,
         ProcessOutputs(r, c, fin)
  PROVE  /\ decoded' \in [Requests -> Seq(Intervals)]
         /\ decoded'[r] = Append(decoded[r], c) /\ decoded'[r] # <<>>
         /\ \A q \in Requests : q # r => decoded'[q] = decoded[q]
         /\ collector' \in [Requests -> {NoOutput} \union Outputs]
         /\ collector'[r] = Output(r, decoded[r] # <<>>, fin)
         /\ \A q \in Requests : q # r => collector'[q] = collector[q]
         /\ \A q \in Requests : collector'[q] # NoOutput => collector'[q].request = q
         /\ \A q \in Requests : collector'[q] # NoOutput => decoded'[q] # <<>>
<1>1. decoded \in [Requests -> Seq(Intervals)] /\ collector \in [Requests -> {NoOutput} \union Outputs]
  BY DEF TypeInv, TypeOK
<1>2. Append(decoded[r], c) \in Seq(Intervals) /\ Append(decoded[r], c) # <<>>
  BY <1>1
<1>3. /\ decoded' \in [Requests -> Seq(Intervals)]
      /\ decoded'[r] = Append(decoded[r], c)
      /\ \A q \in Requests : q # r => decoded'[q] = decoded[q]
  BY <1>1, <1>2 DEF ProcessOutputs
<1> DEFINE o == Output(r, decoded[r] # <<>>, fin)
<1>4. o \in Outputs /\ o.request = r
  <2>1. (decoded[r] # <<>>) \in BOOLEAN
    OBVIOUS
  <2> QED BY <2>1, OutputIsOne
<1>5. collector' = [collector EXCEPT ![r] = o]
  BY DEF ProcessOutputs
<1> HIDE DEF o
<1>6. /\ collector' \in [Requests -> {NoOutput} \union Outputs]
      /\ collector'[r] = o
      /\ \A q \in Requests : q # r => collector'[q] = collector[q]
  BY <1>1, <1>4, <1>5
<1>7. \A q \in Requests : collector'[q] # NoOutput => collector'[q].request = q
  BY <1>4, <1>6 DEF TypeInv, TypeOK
<1>8. \A q \in Requests : collector'[q] # NoOutput => decoded'[q] # <<>>
  BY <1>2, <1>3, <1>6 DEF TypeInv, OutputsInv
<1> QED BY <1>2, <1>3, <1>6, <1>7, <1>8 DEF o

(* After a chunk was decoded the outputs under way are still backed.       *)
LEMMA DecodingKeepsOutputs ==
  ASSUME TypeInv, NEW r \in Requests, NEW c \in Intervals, NEW fin \in BOOLEAN,
         ProcessOutputs(r, c, fin), UNCHANGED generation_out_q
  PROVE  OutputsInv'
<1>1. ASSUME NEW j \in DOMAIN generation_out_q
      PROVE  decoded'[generation_out_q[j].request] # <<>>
  <2>1. generation_out_q[j].request \in Requests
    BY Elements, OutputFields DEF TypeInv, TypeOK
  <2> QED BY <2>1, ProcessOutputsTypes DEF TypeInv, OutputsInv
<1>2. \A q \in Requests : collector'[q] # NoOutput => decoded'[q] # <<>>
  BY ProcessOutputsTypes
<1> QED BY <1>1, <1>2 DEF OutputsInv

(* A state that keeps what outputs depend on.                              *)
LEMMA SameOutputs ==
  ASSUME TypeInv, UNCHANGED <<decoded, collector, generation_out_q>>
  PROVE  OutputsInv'
BY DEF TypeInv, OutputsInv

(* Initially.                                                              *)
LEMMA InitTypes == Init => TypeInv
<1> SUFFICES ASSUME Init PROVE TypeInv
  OBVIOUS
<1>1. TypeOK
  BY AudioAssumption DEF Init, TypeOK, NoOutput
<1>2. OutputsInv
  BY DEF Init, OutputsInv
<1> QED BY <1>1, <1>2 DEF TypeInv

(* One step of the generator of a request.                                 *)
LEMMA AdvanceTypes ==
  ASSUME TypeInv, NEW r \in Requests, NEW n \in 0..ChunkSize, AdvanceStreaming(r, n)
  PROVE  TypeInv'
<1> USE AudioAssumption
<1>1. frames[r] \in 0..MaxFrames /\ n \in Nat /\ frames[r] + n \in 0..MaxFrames
  BY DEF TypeInv, TypeOK, AdvanceStreaming, FramesOfChunk, Smaller
<1>2. frames' \in [Requests -> 0..MaxFrames]
  BY <1>1 DEF TypeInv, TypeOK, AdvanceStreaming
<1>3. OverlapDecoded(frames[r], n) \in Intervals
  <2>1. frames[r] \in Nat
    BY <1>1
  <2> QED BY <1>1, <2>1, OverlapIsNew
<1>4. IsFinal(n) \in BOOLEAN
  BY DEF IsFinal
<1>5. ProcessOutputs(r, OverlapDecoded(frames[r], n), IsFinal(n)) /\ UNCHANGED generation_out_q
  BY DEF AdvanceStreaming, queueVars
<1>6. OutputsInv'
  BY <1>3, <1>4, <1>5, DecodingKeepsOutputs
<1>7. /\ decoded' \in [Requests -> Seq(Intervals)]
      /\ collector' \in [Requests -> {NoOutput} \union Outputs]
      /\ \A q \in Requests : collector'[q] # NoOutput => collector'[q].request = q
  BY <1>3, <1>4, <1>5, ProcessOutputsTypes
<1>8. generators' \subseteq Requests /\ running' \subseteq Requests
  BY DEF TypeInv, TypeOK, AdvanceStreaming
<1>9. TypeOK'
  BY <1>2, <1>7, <1>8 DEF TypeInv, TypeOK, AdvanceStreaming, queueVars, clientVars
<1> QED BY <1>6, <1>9 DEF TypeInv

(* One step of the talker.                                                 *)
LEMMA TalkTypes ==
  ASSUME TypeInv, NEW r \in Requests, NEW finished \in BOOLEAN, Talk(r, finished)
  PROVE  TypeInv'
<1> USE AudioAssumption
<1>1. frames[r] \in 0..MaxFrames /\ frames[r] + 1 \in 0..MaxFrames /\ frames[r] + 1 \in Nat \ {0}
  BY DEF TypeInv, TypeOK, Talk
<1>2. frames' \in [Requests -> 0..MaxFrames] /\ frames'[r] = frames[r] + 1
  BY <1>1 DEF TypeInv, TypeOK, Talk
<1>3. Window(frames'[r]) \in Intervals
  BY <1>1, <1>2, WindowDecoded
<1>4. chunks \in [Requests -> Seq(Intervals)]
  BY DEF TypeInv, TypeOK
<1>5. Append(chunks[r], Window(frames'[r])) \in Seq(Intervals)
  BY <1>3, <1>4
<1>6. chunks' \in [Requests -> Seq(Intervals)]
  BY <1>4, <1>5 DEF Talk
<1>7. running' \subseteq Requests
  BY DEF TypeInv, TypeOK, Talk
<1>8. OutputsInv'
  BY SameOutputs DEF Talk, stageVars, queueVars
<1>9. TypeOK'
  BY <1>2, <1>6, <1>7 DEF TypeInv, TypeOK, Talk, stageVars, queueVars, clientVars
<1> QED BY <1>8, <1>9 DEF TypeInv

(* What code2wav makes of a window is an interval.                         *)
LEMMA StreamingDecodedType ==
  ASSUME NEW w \in Intervals
  PROVE  StreamingDecoded(w) \in Intervals
BY AudioAssumption DEF StreamingDecoded, Intervals

(* One step of code2wav.                                                   *)
LEMMA Code2WavTypes ==
  ASSUME TypeInv, NEW r \in Requests, Code2Wav(r)
  PROVE  TypeInv'
<1>1. chunks \in [Requests -> Seq(Intervals)] /\ chunks[r] \in Seq(Intervals) /\ chunks[r] # <<>>
  BY DEF TypeInv, TypeOK, Code2Wav
<1>2. Head(chunks[r]) \in Intervals /\ Tail(chunks[r]) \in Seq(Intervals)
  BY <1>1
<1>3. chunks' \in [Requests -> Seq(Intervals)]
  BY <1>1, <1>2 DEF Code2Wav
<1> DEFINE c == StreamingDecoded(Head(chunks[r]))
<1>4. c \in Intervals
  BY <1>2, StreamingDecodedType
<1>5. ProcessOutputs(r, c, FALSE) /\ UNCHANGED generation_out_q
  BY DEF Code2Wav, queueVars
<1> HIDE DEF c
<1>6. OutputsInv'
  BY <1>4, <1>5, DecodingKeepsOutputs
<1>7. /\ decoded' \in [Requests -> Seq(Intervals)]
      /\ collector' \in [Requests -> {NoOutput} \union Outputs]
      /\ \A q \in Requests : collector'[q] # NoOutput => collector'[q].request = q
  BY <1>4, <1>5, ProcessOutputsTypes
<1>8. TypeOK'
  BY <1>3, <1>7 DEF TypeInv, TypeOK, Code2Wav, queueVars, clientVars
<1> QED BY <1>6, <1>8 DEF TypeInv

(* An output is collected.                                                 *)
LEMMA GenerationSingleRequestTypes ==
  ASSUME TypeInv, NEW r \in Requests, GenerationSingleRequest(r)
  PROVE  TypeInv'
<1>1. /\ collector \in [Requests -> {NoOutput} \union Outputs]
      /\ generation_out_q \in Seq(Outputs)
      /\ collector[r] \in Outputs /\ collector[r].request = r /\ decoded[r] # <<>>
  BY DEF TypeInv, TypeOK, OutputsInv, GenerationSingleRequest
<1>2. /\ generation_out_q' = Append(generation_out_q, collector[r])
      /\ collector' = [collector EXCEPT ![r] = NoOutput]
      /\ decoded' = decoded
  BY DEF GenerationSingleRequest
<1>3. /\ generation_out_q' \in Seq(Outputs)
      /\ collector' \in [Requests -> {NoOutput} \union Outputs]
      /\ collector'[r] = NoOutput
      /\ \A q \in Requests : q # r => collector'[q] = collector[q]
  BY <1>1, <1>2
<1>4. TypeOK'
  BY <1>3 DEF TypeInv, TypeOK, GenerationSingleRequest, sourceVars, clientVars
<1>5. ASSUME NEW j \in DOMAIN generation_out_q'
      PROVE  decoded'[generation_out_q'[j].request] # <<>>
  <2>1. CASE j = Len(generation_out_q) + 1
    BY <1>1, <1>2, <2>1
  <2>2. CASE j \in DOMAIN generation_out_q
    <3>1. generation_out_q'[j] = generation_out_q[j]
      BY <1>1, <1>2, <2>2
    <3> QED BY <1>2, <2>2, <3>1 DEF TypeInv, OutputsInv
  <2> QED BY <1>1, <1>2, <2>1, <2>2
<1>6. \A q \in Requests : collector'[q] # NoOutput => decoded'[q] # <<>>
  BY <1>2, <1>3 DEF TypeInv, OutputsInv
<1> QED BY <1>4, <1>5, <1>6 DEF TypeInv, OutputsInv

(* A list that is pickled is as long as it is by then.                     *)
LEMMA PickledType ==
  ASSUME TypeInv, NEW o \in Outputs, decoded[o.request] # <<>>
  PROVE  /\ Pickled(o) \in Results
         /\ Pickled(o).request = o.request /\ Pickled(o).list = o.list
         /\ Pickled(o).len = IF o.list THEN Len(decoded[o.request]) ELSE 1
<1>1. decoded[o.request] \in Seq(Intervals) /\ Len(decoded[o.request]) \in Nat \ {0}
  BY DEF TypeInv, TypeOK, Outputs
<1> QED BY <1>1 DEF Pickled, Results, Outputs

(* An output is pickled.                                                   *)
LEMMA PickleTypes ==
  ASSUME TypeInv, Pickle
  PROVE  TypeInv'
<1> DEFINE o == Head(generation_out_q)
<1>1. /\ generation_out_q \in Seq(Outputs) /\ generation_out_q # <<>> /\ out_q \in Seq(Results)
      /\ o = generation_out_q[1] /\ 1 \in DOMAIN generation_out_q /\ o \in Outputs
  BY DEF TypeInv, TypeOK, Pickle
<1>2. decoded[o.request] # <<>>
  BY <1>1 DEF TypeInv, OutputsInv
<1>3. Pickled(o) \in Results
  BY <1>1, <1>2, PickledType
<1>4. out_q' \in Seq(Results) /\ generation_out_q' \in Seq(Outputs)
  BY <1>1, <1>3 DEF Pickle
<1>5. TypeOK'
  BY <1>4 DEF TypeInv, TypeOK, Pickle, sourceVars, stageVars, clientVars
<1>6. ASSUME NEW j \in DOMAIN generation_out_q'
      PROVE  decoded'[generation_out_q'[j].request] # <<>>
  <2>1. generation_out_q' = Tail(generation_out_q) /\ decoded' = decoded
    BY DEF Pickle, stageVars
  <2>2. j + 1 \in DOMAIN generation_out_q /\ generation_out_q'[j] = generation_out_q[j + 1]
    BY <1>1, <2>1
  <2> QED BY <2>1, <2>2 DEF TypeInv, OutputsInv
<1>7. \A q \in Requests : collector'[q] # NoOutput => decoded'[q] # <<>>
  BY DEF Pickle, stageVars, TypeInv, OutputsInv
<1> QED BY <1>5, <1>6, <1>7 DEF TypeInv, OutputsInv

(* What a listener is sent are numbers of chunks.                          *)
LEMMA SendsType ==
  ASSUME TypeInv, NEW m \in Results
  PROVE  NewTensors(m) \in Seq(Nat \ {0})
<1>1. m.len \in Nat \ {0} /\ chunks_yielded[m.request] \in Nat
  BY DEF TypeInv, TypeOK, Results
<1> DEFINE n == Larger(0, m.len - chunks_yielded[m.request])
           s == [i \in 1..n |-> chunks_yielded[m.request] + i]
<1>2. n \in Nat
  BY <1>1 DEF Larger
<1>3. s \in Seq(Nat \ {0})
  <2> HIDE DEF n
  <2>1. \A i \in 1..n : chunks_yielded[m.request] + i \in Nat \ {0}
    BY <1>1, <1>2
  <2> QED BY <1>2, <2>1
<1> QED
  <2>1. <<1>> \in Seq(Nat \ {0})
    OBVIOUS
  <2> HIDE DEF s
  <2>2. NewTensors(m) = IF m.list THEN s ELSE <<1>>
    BY DEF NewTensors, s, n
  <2> QED BY <1>3, <2>1, <2>2

(* A result reaches its endpoint.                                          *)
LEMMA StreamTypes ==
  ASSUME TypeInv, StreamProgressiveAudio
  PROVE  TypeInv'
<1> DEFINE m == Head(out_q)
<1>1. /\ out_q \in Seq(Results) /\ out_q # <<>> /\ m \in Results /\ m.request \in Requests
      /\ m.len \in Nat \ {0} /\ out_q' \in Seq(Results)
  <2>1. out_q \in Seq(Results) /\ out_q # <<>> /\ out_q' = Tail(out_q)
    BY DEF TypeInv, TypeOK, StreamProgressiveAudio
  <2>2. m \in Results /\ out_q' \in Seq(Results)
    BY <2>1
  <2> QED BY <2>1, <2>2, ResultFields
<1>2. OutputsInv'
  BY SameOutputs DEF StreamProgressiveAudio, stageVars
<1>3. /\ heard \in [Requests -> Seq(Nat \ {0})] /\ chunks_yielded \in [Requests -> Nat]
      /\ client \in [Requests -> {"new", "listening", "done", "gone"}]
  BY DEF TypeInv, TypeOK
<1>4. /\ heard' \in [Requests -> Seq(Nat \ {0})] /\ chunks_yielded' \in [Requests -> Nat]
      /\ client' \in [Requests -> {"new", "listening", "done", "gone"}]
  <2>1. CASE client[m.request] = "listening"
    <3>1. /\ heard' = [heard EXCEPT ![m.request] = @ \o NewTensors(m)]
          /\ chunks_yielded' = [chunks_yielded EXCEPT ![m.request] = m.len]
          /\ client' = [client EXCEPT ![m.request] = IF m.finished THEN "done" ELSE @]
      BY <2>1 DEF StreamProgressiveAudio
    <3>2. heard[m.request] \o NewTensors(m) \in Seq(Nat \ {0})
      BY <1>1, <1>3, SendsType
    <3> HIDE DEF m
    <3> QED BY <1>1, <1>3, <3>1, <3>2
  <2>2. CASE client[m.request] # "listening"
    BY <1>3, <2>2 DEF StreamProgressiveAudio, clientVars
  <2> QED BY <2>1, <2>2
<1>5. TypeOK'
  BY <1>1, <1>4 DEF TypeInv, TypeOK, StreamProgressiveAudio, sourceVars, stageVars
<1> QED BY <1>2, <1>5 DEF TypeInv

(* Types in every step.                                                    *)
LEMMA NextTypes == TypeInv /\ [Next]_vars => TypeInv'
<1> SUFFICES ASSUME TypeInv, [Next]_vars PROVE TypeInv'
  OBVIOUS
<1>1. CASE Pickle
  BY <1>1, PickleTypes
<1>2. CASE StreamProgressiveAudio
  BY <1>2, StreamTypes
<1>3. ASSUME NEW r \in Requests, CreateSpeech(r) PROVE TypeInv'
  <2>1. TypeOK'
    BY <1>3 DEF TypeInv, TypeOK, CreateSpeech, stageVars, queueVars
  <2>2. OutputsInv'
    BY <1>3, SameOutputs DEF CreateSpeech, stageVars, queueVars
  <2> QED BY <2>1, <2>2 DEF TypeInv
<1>4. ASSUME NEW r \in Requests, Schedule(r) PROVE TypeInv'
  <2>1. TypeOK'
    BY <1>4 DEF TypeInv, TypeOK, Schedule, stageVars, queueVars, clientVars
  <2>2. OutputsInv'
    BY <1>4, SameOutputs DEF Schedule, stageVars, queueVars
  <2> QED BY <2>1, <2>2 DEF TypeInv
<1>5. ASSUME NEW r \in Requests, NEW n \in 0..ChunkSize, AdvanceStreaming(r, n) PROVE TypeInv'
  BY <1>5, AdvanceTypes
<1>6. ASSUME NEW r \in Requests, FinishAtPrefill(r) PROVE TypeInv'
  <2>1. TypeOK'
    BY <1>6 DEF TypeInv, TypeOK, FinishAtPrefill, stageVars, queueVars, clientVars
  <2>2. OutputsInv'
    BY <1>6, SameOutputs DEF FinishAtPrefill, stageVars, queueVars
  <2> QED BY <2>1, <2>2 DEF TypeInv
<1>7. ASSUME NEW r \in Requests, NEW finished \in BOOLEAN, Talk(r, finished) PROVE TypeInv'
  BY <1>7, TalkTypes
<1>8. ASSUME NEW r \in Requests, Code2Wav(r) PROVE TypeInv'
  BY <1>8, Code2WavTypes
<1>9. ASSUME NEW r \in Requests, GenerationSingleRequest(r) PROVE TypeInv'
  BY <1>9, GenerationSingleRequestTypes
<1>10. ASSUME NEW r \in Requests, Abort(r) PROVE TypeInv'
  <2>1. TypeOK'
    BY <1>10 DEF TypeInv, TypeOK, Abort, stageVars, queueVars, clientVars
  <2>2. OutputsInv'
    BY <1>10, SameOutputs DEF Abort, stageVars, queueVars
  <2> QED BY <2>1, <2>2 DEF TypeInv
<1>11. ASSUME NEW r \in Requests, Disconnect(r) PROVE TypeInv'
  <2>1. TypeOK'
    BY <1>11 DEF TypeInv, TypeOK, Disconnect, sourceVars, stageVars, queueVars
  <2>2. OutputsInv'
    BY <1>11, SameOutputs DEF Disconnect, stageVars, queueVars
  <2> QED BY <2>1, <2>2 DEF TypeInv
<1>12. CASE UNCHANGED vars
  <2>1. TypeOK'
    BY <1>12 DEF TypeInv, TypeOK, vars, sourceVars, stageVars, queueVars, clientVars
  <2>2. OutputsInv'
    BY <1>12, SameOutputs DEF vars, stageVars, queueVars
  <2> QED BY <2>1, <2>2 DEF TypeInv
<1> QED
  BY <1>1, <1>2, <1>3, <1>4, <1>5, <1>6, <1>7, <1>8, <1>9, <1>10, <1>11, <1>12
     DEF Next, Produce

(* The invariant behind the types holds in every reachable state.          *)
LEMMA TypesAlways == Safety => []TypeInv
BY InitTypes, NextTypes, PTL DEF Safety

(* Every variable of the audio stream keeps its type.                      *)
THEOREM TypeCorrect == Spec => []TypeOK
<1>1. TypeInv => TypeOK
  BY DEF TypeInv
<1> QED BY <1>1, TypesAlways, PTL DEF Spec

-----------------------------------------------------------------------------
(* Every frame is decoded once.                                            *)

DecodedTo(r) == End(decoded[r], 0)
SentTo(r) == End(chunks[r], DecodedTo(r))

(* A request that has not begun.                                           *)
Fresh(r) == r \notin running /\ frames[r] = 0 /\ decoded[r] = <<>> /\ chunks[r] = <<>>

(* The decoded chunks of a request, and the windows behind them, follow    *)
(* each other without a gap, up to the last cut, or up to the last frame   *)
(* when the talker has finished.                                           *)
RequestFrames(r) ==
  /\ Contiguous(decoded[r])
  /\ Windows(chunks[r], DecodedTo(r))
  /\ model = "tts" => chunks[r] = <<>> /\ DecodedTo(r) = frames[r]
  /\ model # "tts" /\ r \in running => SentTo(r) = frames[r] - (frames[r] % LeftContext)
  /\ model # "tts" /\ r \notin running /\ client[r] # "gone" => SentTo(r) = frames[r]
  /\ r \in waiting => Fresh(r) /\ client[r] # "new"
  /\ client[r] = "new" => Fresh(r)
  /\ r \in aborting => client[r] = "gone"

FramesInv == TypeInv /\ \A r \in Requests : RequestFrames(r)

(* A request none of whose parts changes keeps its invariant.              *)
LEMMA FramesSame ==
  ASSUME NEW q \in Requests, RequestFrames(q), model' = model,
         decoded'[q] = decoded[q], chunks'[q] = chunks[q], frames'[q] = frames[q],
         q \in running' <=> q \in running, q \in waiting' <=> q \in waiting,
         q \in aborting' <=> q \in aborting, client'[q] = client[q]
  PROVE  RequestFrames(q)'
BY DEF RequestFrames, Fresh, DecodedTo, SentTo

(* Zero is a multiple.                                                     *)
LEMMA ZeroLeft == 0 % LeftContext = 0
BY AudioAssumption, SMT

(* Initially.                                                              *)
LEMMA InitFrames == Init => FramesInv
<1> SUFFICES ASSUME Init, NEW r \in Requests PROVE RequestFrames(r)
  BY InitTypes DEF FramesInv
<1>1. decoded[r] = <<>> /\ chunks[r] = <<>> /\ frames[r] = 0 /\ running = {} /\ waiting = {}
      /\ aborting = {} /\ client[r] = "new"
  BY DEF Init
<1> QED BY <1>1 DEF RequestFrames, Fresh, DecodedTo, SentTo, End, Contiguous, Windows

(* One step of the generator: its chunk starts at the frame after the last.*)
LEMMA AdvanceFrames ==
  ASSUME FramesInv, NEW r \in Requests, NEW n \in 0..ChunkSize, AdvanceStreaming(r, n),
         NEW q \in Requests
  PROVE  RequestFrames(q)'
<1>1. model = "tts" /\ model' = model /\ r \in running /\ chunks' = chunks
      /\ waiting' = waiting /\ aborting' = aborting /\ client' = client
  BY DEF AdvanceStreaming, clientVars
<1>2. frames[r] \in Nat /\ n \in Nat /\ frames \in [Requests -> 0..MaxFrames]
      /\ decoded[r] \in Seq(Intervals)
  BY AudioAssumption DEF FramesInv, TypeInv, TypeOK
<1> DEFINE c == OverlapDecoded(frames[r], n)
<1>3. c \in Intervals /\ c.first = frames[r] + 1 /\ c.last = frames[r] + n
  BY <1>2, OverlapIsNew
<1>4. ProcessOutputs(r, c, IsFinal(n)) /\ IsFinal(n) \in BOOLEAN
  BY DEF AdvanceStreaming, IsFinal
<1> HIDE DEF c
<1>5. /\ decoded'[r] = Append(decoded[r], c)
      /\ \A p \in Requests : p # r => decoded'[p] = decoded[p]
  BY <1>3, <1>4, ProcessOutputsTypes DEF FramesInv
<1>6. frames'[r] = frames[r] + n /\ \A p \in Requests : p # r => frames'[p] = frames[p]
  BY <1>2 DEF AdvanceStreaming
<1>7. \A p \in Requests : p # r => (p \in running' <=> p \in running)
  BY DEF AdvanceStreaming
<1>8. RequestFrames(r) /\ RequestFrames(q)
  BY DEF FramesInv
<1>9. CASE q # r
  BY <1>1, <1>5, <1>6, <1>7, <1>8, <1>9, FramesSame
<1>10. CASE q = r
  <2>1. Contiguous(decoded[r]) /\ End(decoded[r], 0) = frames[r] /\ chunks[r] = <<>>
    BY <1>1, <1>8 DEF RequestFrames, DecodedTo
  <2>2. Contiguous(decoded'[r]) /\ End(decoded'[r], 0) = frames'[r]
    BY <1>2, <1>3, <1>5, <1>6, <2>1, ContiguousAppend
  <2>3. r \notin waiting /\ client[r] # "new" /\ (r \in aborting => client[r] = "gone")
    BY <1>1, <1>8 DEF RequestFrames, Fresh
  <2>4. Windows(chunks'[r], DecodedTo(r)')
    BY <1>1, <2>1 DEF Windows
  <2> QED BY <1>1, <1>10, <2>1, <2>2, <2>3, <2>4 DEF RequestFrames, DecodedTo
<1> QED BY <1>9, <1>10

(* One step of the talker: the window it sends starts at the last cut.     *)
LEMMA TalkFrames ==
  ASSUME FramesInv, NEW r \in Requests, NEW finished \in BOOLEAN, Talk(r, finished),
         NEW q \in Requests
  PROVE  RequestFrames(q)'
<1> DEFINE L == LeftContext   f == frames[r]   from == DecodedTo(r)
<1>1. model # "tts" /\ model' = model /\ r \in running /\ decoded' = decoded
      /\ waiting' = waiting /\ aborting' = aborting /\ client' = client
  BY DEF Talk, stageVars, clientVars
<1>2. /\ L \in Nat \ {0} /\ f \in Nat /\ frames \in [Requests -> 0..MaxFrames]
      /\ chunks \in [Requests -> Seq(Intervals)] /\ chunks[r] \in Seq(Intervals)
      /\ decoded[r] \in Seq(Intervals)
  BY AudioAssumption DEF FramesInv, TypeInv, TypeOK
<1>3. frames'[r] = f + 1 /\ \A p \in Requests : p # r => frames'[p] = frames[p]
  BY <1>2 DEF Talk
<1>4. \A p \in Requests : p # r => chunks'[p] = chunks[p] /\ (p \in running' <=> p \in running)
  BY <1>2 DEF Talk
<1>5. RequestFrames(r) /\ RequestFrames(q)
  BY DEF FramesInv
<1>6. CASE q # r
  BY <1>1, <1>3, <1>4, <1>5, <1>6, FramesSame
<1>7. CASE q = r
  <2>1. Contiguous(decoded[r]) /\ Windows(chunks[r], from) /\ End(chunks[r], from) = f - (f % L)
    BY <1>1, <1>5 DEF RequestFrames, SentTo
  <2>2. r \notin waiting /\ client[r] # "new" /\ (r \in aborting => client[r] = "gone")
    BY <1>1, <1>5 DEF RequestFrames, Fresh
  <2>3. from \in Nat /\ DecodedTo(r)' = from
    BY <1>1, <1>2, EndType DEF DecodedTo
  <2>4. f % L \in 0..L - 1 /\ (f + 1) % L = IF (f % L) + 1 = L THEN 0 ELSE (f % L) + 1
    BY <1>2, ModStep
  <2>5. running' = IF finished THEN running \ {r} ELSE running
    BY DEF Talk
  <2>6. Windows(chunks'[r], from) /\ End(chunks'[r], from)
           = IF finished THEN f + 1 ELSE (f + 1) - ((f + 1) % L)
    <3>1. CASE (f + 1) % L # 0 /\ ~finished
      <4>1. chunks' = chunks
        BY <1>3, <3>1 DEF Talk
      <4>2. f - (f % L) = (f + 1) - ((f + 1) % L)
        BY <1>2, <2>4, <3>1
      <4> QED BY <2>1, <3>1, <4>1, <4>2
    <3>2. CASE (f + 1) % L = 0 \/ finished
      <4>1. chunks'[r] = Append(chunks[r], Window(f + 1))
        BY <1>2, <1>3, <3>2 DEF Talk
      <4>2. PrevCut(f + 1) = f - (f % L)
        <5> DEFINE m == f % L   m1 == (f + 1) % L
        <5>1. PrevCut(f + 1) = (f + 1) - (IF m1 # 0 THEN m1 ELSE L)
          BY DEF PrevCut
        <5>2. m \in 0..L - 1 /\ m1 = IF m + 1 = L THEN 0 ELSE m + 1
          BY <2>4
        <5>4. L \in Nat \ {0} /\ f \in Nat
          BY <1>2
        <5> HIDE DEF m, m1, f, L
        <5>3. PrevCut(f + 1) = f - m
          BY <5>1, <5>2, <5>4
        <5> QED BY <5>3 DEF m, f, L
      <4>3. Windows(chunks'[r], from) /\ End(chunks'[r], from) = f + 1
        BY <1>2, <2>1, <2>3, <4>1, <4>2, WindowsAppend
      <4>4. CASE finished
        BY <4>3, <4>4
      <4>5. CASE ~finished
        <5>1. (f + 1) % L = 0
          BY <3>2, <4>5
        <5>2. (f + 1) - 0 = f + 1
          BY <1>2
        <5>3. (f + 1) - ((f + 1) % L) = f + 1
          BY <5>1, <5>2
        <5> QED BY <4>3, <4>5, <5>3, Zenon
      <4> QED BY <4>4, <4>5
    <3> QED BY <3>1, <3>2
  <2>7. SentTo(r)' = End(chunks'[r], from)
    BY <2>3 DEF SentTo
  <2> HIDE DEF from
  <2>8. Contiguous(decoded'[r]) /\ Windows(chunks'[r], DecodedTo(r)')
    BY <1>1, <2>1, <2>3, <2>6
  <2> QED BY <1>1, <1>3, <1>7, <2>2, <2>5, <2>6, <2>7, <2>8 DEF RequestFrames
<1> QED BY <1>6, <1>7

(* One step of code2wav: the first window starts where the decoded chunks  *)
(* end.                                                                    *)
LEMMA Code2WavFrames ==
  ASSUME FramesInv, NEW r \in Requests, Code2Wav(r), NEW q \in Requests
  PROVE  RequestFrames(q)'
<1> DEFINE w == Head(chunks[r])   c == StreamingDecoded(w)
<1>1. /\ model' = model /\ running' = running /\ waiting' = waiting /\ frames' = frames
      /\ aborting' = aborting /\ client' = client /\ chunks[r] # <<>>
  BY DEF Code2Wav, clientVars
<1>2. /\ chunks \in [Requests -> Seq(Intervals)] /\ chunks[r] \in Seq(Intervals)
      /\ decoded[r] \in Seq(Intervals) /\ DecodedTo(r) \in Nat
  BY EndType DEF FramesInv, TypeInv, TypeOK, DecodedTo
<1>3. RequestFrames(r) /\ RequestFrames(q)
  BY DEF FramesInv
<1>4. /\ w = Window(w.last) /\ w.last \in Nat \ {0} /\ PrevCut(w.last) = DecodedTo(r)
      /\ Windows(Tail(chunks[r]), w.last)
      /\ End(Tail(chunks[r]), w.last) = End(chunks[r], DecodedTo(r))
  BY <1>1, <1>2, <1>3, WindowsTail DEF RequestFrames
<1>5. c = [first |-> DecodedTo(r) + 1, last |-> w.last]
  BY <1>4, WindowDecoded
<1>6. c \in Intervals /\ c.first = DecodedTo(r) + 1 /\ c.last = w.last
  BY <1>2, <1>4, <1>5 DEF Intervals
<1>7. ProcessOutputs(r, c, FALSE)
  BY DEF Code2Wav
<1>8. chunks'[r] = Tail(chunks[r]) /\ \A p \in Requests : p # r => chunks'[p] = chunks[p]
  BY <1>2 DEF Code2Wav
<1> HIDE DEF c, w
<1>9. /\ decoded'[r] = Append(decoded[r], c)
      /\ \A p \in Requests : p # r => decoded'[p] = decoded[p]
  BY <1>6, <1>7, ProcessOutputsTypes DEF FramesInv
<1>10. CASE q # r
  BY <1>1, <1>3, <1>8, <1>9, <1>10, FramesSame
<1>11. CASE q = r
  <2>1. Contiguous(decoded'[r]) /\ DecodedTo(r)' = w.last
    BY <1>2, <1>3, <1>6, <1>9, ContiguousAppend DEF RequestFrames, DecodedTo
  <2>2. Windows(chunks'[r], DecodedTo(r)') /\ SentTo(r)' = SentTo(r)
    BY <1>4, <1>8, <2>1 DEF SentTo
  <2>3. model # "tts" /\ r \notin waiting /\ client[r] # "new"
    BY <1>1, <1>3 DEF RequestFrames, Fresh
  <2> QED BY <1>1, <1>3, <1>11, <2>1, <2>2, <2>3 DEF RequestFrames
<1> QED BY <1>10, <1>11

(* The other steps only move requests and outputs.                         *)
LEMMA OtherFrames ==
  ASSUME FramesInv, NEW q \in Requests,
         \/ Pickle \/ StreamProgressiveAudio
         \/ \E r \in Requests : \/ CreateSpeech(r) \/ Schedule(r) \/ FinishAtPrefill(r)
                                \/ GenerationSingleRequest(r) \/ Abort(r) \/ Disconnect(r)
         \/ UNCHANGED vars
  PROVE  RequestFrames(q)'
<1>1. RequestFrames(q)
  BY DEF FramesInv
<1>2. client \in [Requests -> {"new", "listening", "done", "gone"}]
  BY DEF FramesInv, TypeInv, TypeOK
<1> DEFINE Same == /\ model' = model /\ decoded' = decoded /\ chunks' = chunks /\ frames' = frames
<1>3. CASE Pickle \/ (\E r \in Requests : GenerationSingleRequest(r)) \/ UNCHANGED vars
  <2>1. Same /\ running' = running /\ waiting' = waiting /\ aborting' = aborting /\ client' = client
    BY <1>3 DEF Pickle, GenerationSingleRequest, vars, sourceVars, stageVars, clientVars
  <2> QED BY <1>1, <2>1, FramesSame
<1>4. CASE StreamProgressiveAudio
  <2>1. Same /\ running' = running /\ waiting' = waiting /\ aborting' = aborting
    BY <1>4, SMTT(30) DEF StreamProgressiveAudio, sourceVars, stageVars
  <2>2. client'[q] = client[q] \/ (client[q] = "listening" /\ client'[q] = "done")
    BY <1>2, <1>4 DEF StreamProgressiveAudio, clientVars
  <2> QED BY <1>1, <2>1, <2>2, SMTT(30) DEF RequestFrames, Fresh, DecodedTo, SentTo
<1>5. ASSUME NEW r \in Requests, CreateSpeech(r) PROVE RequestFrames(q)'
  <2>1. Same /\ running' = running /\ waiting' = waiting \union {r} /\ aborting' = aborting
    BY <1>5 DEF CreateSpeech, stageVars
  <2>2. client[r] = "new" /\ client' = [client EXCEPT ![r] = "listening"]
    BY <1>5 DEF CreateSpeech
  <2>3. CASE q # r
    BY <1>1, <1>2, <2>1, <2>2, <2>3, FramesSame
  <2>4. CASE q = r
    <3>1. Fresh(r) /\ client'[r] = "listening" /\ r \notin aborting
      BY <1>1, <1>2, <2>2, <2>4 DEF RequestFrames
    <3> QED BY <1>1, <2>1, <2>2, <2>4, <3>1 DEF RequestFrames, Fresh, DecodedTo, SentTo
  <2> QED BY <2>3, <2>4
<1>6. ASSUME NEW r \in Requests, Schedule(r) PROVE RequestFrames(q)'
  <2>1. Same /\ running' = running \union {r} /\ waiting' = waiting \ {r} /\ aborting' = aborting
        /\ client' = client /\ r \in waiting
    BY <1>6 DEF Schedule, stageVars, clientVars
  <2>2. CASE q # r
    BY <1>1, <2>1, <2>2, FramesSame
  <2>3. CASE q = r
    <3>1. Fresh(r) /\ client[r] # "new"
      BY <1>1, <2>1, <2>3 DEF RequestFrames
    <3>2. SentTo(r) = 0 /\ frames[r] = 0 /\ 0 - (0 % LeftContext) = 0
      BY <3>1, ZeroLeft DEF Fresh, SentTo, DecodedTo, End
    <3> QED BY <1>1, <2>1, <2>3, <3>1, <3>2 DEF RequestFrames, DecodedTo, SentTo
  <2> QED BY <2>2, <2>3
<1>7. ASSUME NEW r \in Requests, FinishAtPrefill(r) PROVE RequestFrames(q)'
  <2>1. Same /\ running' = running \ {r} /\ waiting' = waiting /\ aborting' = aborting
        /\ client' = client /\ r \in running /\ frames[r] = 0 /\ model # "tts"
    BY <1>7 DEF FinishAtPrefill, stageVars, clientVars
  <2>2. CASE q # r
    BY <1>1, <2>1, <2>2, FramesSame
  <2>3. CASE q = r
    <3>1. r \notin waiting /\ client[r] # "new" /\ SentTo(r) = 0 - (0 % LeftContext)
      BY <1>1, <2>1, <2>3 DEF RequestFrames, Fresh
    <3>2. SentTo(r) = frames[r]
      BY <2>1, <3>1, ZeroLeft
    <3> QED BY <1>1, <2>1, <2>3, <3>1, <3>2 DEF RequestFrames, DecodedTo, SentTo
  <2> QED BY <2>2, <2>3
<1>8. ASSUME NEW r \in Requests, Abort(r) PROVE RequestFrames(q)'
  <2>1. Same /\ running' = running \ {r} /\ waiting' = waiting \ {r} /\ aborting' = aborting \ {r}
        /\ client' = client /\ r \in aborting
    BY <1>8 DEF Abort, stageVars, clientVars
  <2>2. CASE q # r
    BY <1>1, <2>1, <2>2, FramesSame
  <2>3. CASE q = r
    <3>1. client[r] = "gone"
      BY <1>1, <2>1, <2>3 DEF RequestFrames
    <3> QED BY <1>1, <2>1, <2>3, <3>1 DEF RequestFrames, DecodedTo
  <2> QED BY <2>2, <2>3
<1>9. ASSUME NEW r \in Requests, Disconnect(r) PROVE RequestFrames(q)'
  <2>1. Same /\ running' = running /\ waiting' = waiting /\ aborting' = aborting \union {r}
        /\ client[r] = "listening" /\ client' = [client EXCEPT ![r] = "gone"]
    BY <1>9 DEF Disconnect, sourceVars, stageVars
  <2>2. CASE q # r
    BY <1>1, <1>2, <2>1, <2>2, FramesSame
  <2>3. CASE q = r
    <3>1. client'[r] = "gone"
      BY <1>2, <2>1
    <3> QED BY <1>1, <2>1, <2>3, <3>1 DEF RequestFrames, Fresh, DecodedTo, SentTo
  <2> QED BY <2>2, <2>3
<1> QED BY <1>3, <1>4, <1>5, <1>6, <1>7, <1>8, <1>9

(* Every step.                                                             *)
LEMMA NextFrames == FramesInv /\ [Next]_vars => FramesInv'
<1> SUFFICES ASSUME FramesInv, [Next]_vars, NEW q \in Requests PROVE RequestFrames(q)'
  BY NextTypes DEF FramesInv
<1>1. ASSUME NEW r \in Requests, NEW n \in 0..ChunkSize, AdvanceStreaming(r, n)
      PROVE  RequestFrames(q)'
  BY <1>1, AdvanceFrames
<1>2. ASSUME NEW r \in Requests, NEW finished \in BOOLEAN, Talk(r, finished)
      PROVE  RequestFrames(q)'
  BY <1>2, TalkFrames
<1>3. ASSUME NEW r \in Requests, Code2Wav(r) PROVE RequestFrames(q)'
  BY <1>3, Code2WavFrames
<1>4. CASE \/ Pickle \/ StreamProgressiveAudio
           \/ \E r \in Requests : \/ CreateSpeech(r) \/ Schedule(r) \/ FinishAtPrefill(r)
                                  \/ GenerationSingleRequest(r) \/ Abort(r) \/ Disconnect(r)
           \/ UNCHANGED vars
  BY <1>4, OtherFrames
<1> QED BY <1>1, <1>2, <1>3, <1>4 DEF Next, Produce

(* For any sizes of chunks, contexts and requests, and however requests    *)
(* are scheduled and aborted, the windows of both decoders leave every     *)
(* frame in exactly one chunk, in order, and none behind.                  *)
THEOREM EveryFrameOnce == Spec => []FramesOnce
<1>1. FramesInv => FramesOnce
  <2> SUFFICES ASSUME FramesInv, NEW r \in Requests
               PROVE  /\ \A i \in DOMAIN decoded[r] :
                           decoded[r][i].first = IF i = 1 THEN 1 ELSE decoded[r][i - 1].last + 1
                      /\ decoded[r] # <<>> /\ chunks[r] = <<>> /\ r \notin running
                           /\ r \notin aborting /\ client[r] # "gone"
                         => Last(decoded[r]).last = frames[r]
    BY DEF FramesOnce
  <2>1. RequestFrames(r)
    BY DEF FramesInv
  <2>2. decoded[r] # <<>> => DecodedTo(r) = Last(decoded[r]).last
    BY DEF DecodedTo, End, Last
  <2>3. chunks[r] = <<>> => SentTo(r) = DecodedTo(r)
    BY DEF SentTo, End
  <2> QED BY <2>1, <2>2, <2>3 DEF RequestFrames, Contiguous
<1> QED BY <1>1, InitFrames, NextFrames, PTL DEF Spec, Safety

-----------------------------------------------------------------------------
(* A listener of the speech endpoint hears every chunk once, in order.     *)

(* The cursor counts what was heard, and nothing was heard that was not    *)
(* decoded.                                                                *)
CursorInv ==
  \A r \in Requests :
    /\ chunks_yielded[r] = Len(heard[r]) /\ Len(heard[r]) <= Len(decoded[r])
    /\ \A i \in 1..Len(heard[r]) : heard[r][i] = i

(* Of the results of one request only the first can be a single tensor,    *)
(* and none is shorter than what was heard or than one before it.          *)
ResultsInv ==
  /\ \A j \in DOMAIN out_q :
       /\ Len(heard[out_q[j].request]) <= out_q[j].len
       /\ out_q[j].len <= Len(decoded[out_q[j].request])
       /\ ~out_q[j].list => out_q[j].len = 1 /\ heard[out_q[j].request] = <<>>
  /\ \A j, k \in DOMAIN out_q :
       j < k /\ out_q[j].request = out_q[k].request => out_q[k].list /\ out_q[j].len <= out_q[k].len

(* The same of the outputs that are not pickled yet.                       *)
UnpickledInv ==
  /\ \A j \in DOMAIN generation_out_q :
       ~generation_out_q[j].list => heard[generation_out_q[j].request] = <<>>
  /\ \A j, k \in DOMAIN generation_out_q :
       j < k /\ generation_out_q[j].request = generation_out_q[k].request => generation_out_q[k].list
  /\ \A j \in DOMAIN out_q, k \in DOMAIN generation_out_q :
       out_q[j].request = generation_out_q[k].request => generation_out_q[k].list

(* And of the one that is not collected.                                   *)
UncollectedInv ==
  \A r \in Requests : collector[r] # NoOutput =>
    /\ ~collector[r].list => heard[r] = <<>>
    /\ \A j \in DOMAIN generation_out_q : generation_out_q[j].request = r => collector[r].list
    /\ \A j \in DOMAIN out_q : out_q[j].request = r => collector[r].list

HeardInv == TypeInv /\ CursorInv /\ ResultsInv /\ UnpickledInv /\ UncollectedInv

(* Initially.                                                              *)
LEMMA InitHeard == Init => HeardInv
BY InitTypes DEF Init, HeardInv, CursorInv, ResultsInv, UnpickledInv, UncollectedInv

(* A step that changes neither the queues nor what was heard.              *)
LEMMA HeardSame ==
  ASSUME HeardInv, TypeInv', UNCHANGED <<decoded, collector, generation_out_q, out_q,
                                         chunks_yielded, heard>>
  PROVE  HeardInv'
BY DEF HeardInv, CursorInv, ResultsInv, UnpickledInv, UncollectedInv

(* A chunk is decoded: a first chunk finds nothing under way and nothing   *)
(* heard, a later one makes a list.                                        *)
LEMMA DecodingHeard ==
  ASSUME HeardInv, TypeInv', NEW r \in Requests, NEW c \in Intervals, NEW fin \in BOOLEAN,
         ProcessOutputs(r, c, fin), UNCHANGED <<generation_out_q, out_q, chunks_yielded, heard>>
  PROVE  HeardInv'
<1>1. /\ decoded \in [Requests -> Seq(Intervals)] /\ out_q \in Seq(Results)
      /\ generation_out_q \in Seq(Outputs) /\ heard \in [Requests -> Seq(Nat \ {0})]
  BY DEF HeardInv, TypeInv, TypeOK
<1>2. /\ decoded'[r] = Append(decoded[r], c)
      /\ \A q \in Requests : q # r => decoded'[q] = decoded[q]
      /\ collector'[r] = Output(r, decoded[r] # <<>>, fin)
      /\ \A q \in Requests : q # r => collector'[q] = collector[q]
  BY ProcessOutputsTypes DEF HeardInv
<1>3. \A q \in Requests : Len(decoded[q]) \in Nat /\ Len(decoded'[q]) \in Nat
                          /\ Len(decoded[q]) <= Len(decoded'[q])
  <2> SUFFICES ASSUME NEW q \in Requests
               PROVE  Len(decoded[q]) \in Nat /\ Len(decoded'[q]) \in Nat
                      /\ Len(decoded[q]) <= Len(decoded'[q])
    OBVIOUS
  <2>1. decoded[q] \in Seq(Intervals) /\ decoded[r] \in Seq(Intervals)
    BY <1>1
  <2>2. Len(Append(decoded[r], c)) = Len(decoded[r]) + 1 /\ Len(decoded[r]) \in Nat
    BY <2>1
  <2> QED BY <1>2, <2>1, <2>2, Elements
<1>4. /\ \A j \in DOMAIN out_q : out_q[j].request \in Requests /\ out_q[j].len \in Nat \ {0}
      /\ \A j \in DOMAIN generation_out_q : generation_out_q[j].request \in Requests
      /\ \A q \in Requests : Len(heard[q]) \in Nat
  BY <1>1, Elements, ResultFields, OutputFields
<1>5. CursorInv' /\ ResultsInv' /\ UnpickledInv'
  BY <1>3, <1>4 DEF HeardInv, CursorInv, ResultsInv, UnpickledInv
<1>6. collector'[r].list = (decoded[r] # <<>>)
  BY <1>2 DEF Output
<1>7. ASSUME decoded[r] = <<>>
      PROVE  /\ heard[r] = <<>>
             /\ \A j \in DOMAIN generation_out_q : generation_out_q[j].request # r
             /\ \A j \in DOMAIN out_q : out_q[j].request # r
  <2>1. Len(decoded[r]) = 0 /\ Len(heard[r]) <= 0
    BY <1>7 DEF HeardInv, CursorInv
  <2>2. heard[r] = <<>>
    BY <1>1, <1>4, <2>1
  <2>3. \A j \in DOMAIN generation_out_q : generation_out_q[j].request # r
    BY <1>7 DEF HeardInv, TypeInv, OutputsInv
  <2>4. \A j \in DOMAIN out_q : out_q[j].request # r
    BY <1>4, <2>1 DEF HeardInv, ResultsInv
  <2> QED BY <2>2, <2>3, <2>4
<1>8. UncollectedInv'
  BY <1>2, <1>6, <1>7 DEF HeardInv, UncollectedInv
<1> QED BY <1>5, <1>8 DEF HeardInv

(* The unread output joins the outputs that are not pickled yet.           *)
LEMMA CollectHeard ==
  ASSUME HeardInv, TypeInv', NEW r \in Requests, GenerationSingleRequest(r)
  PROVE  HeardInv'
<1> DEFINE o == collector[r]
<1>1. /\ UNCHANGED <<decoded, out_q, chunks_yielded, heard>>
      /\ generation_out_q' = Append(generation_out_q, o) /\ o # NoOutput
      /\ collector' = [collector EXCEPT ![r] = NoOutput]
  BY DEF GenerationSingleRequest, clientVars
<1>2. /\ collector \in [Requests -> {NoOutput} \union Outputs] /\ out_q \in Seq(Results)
      /\ generation_out_q \in Seq(Outputs) /\ o \in Outputs /\ o.request = r
  BY <1>1 DEF HeardInv, TypeInv, TypeOK
<1>3. /\ collector'[r] = NoOutput
      /\ \A q \in Requests : q # r => collector'[q] = collector[q]
  BY <1>1, <1>2
<1>4. /\ ~o.list => heard[r] = <<>>
      /\ \A j \in DOMAIN generation_out_q : generation_out_q[j].request = r => o.list
      /\ \A j \in DOMAIN out_q : out_q[j].request = r => o.list
  BY <1>1 DEF HeardInv, UncollectedInv
<1> HIDE DEF o
<1>5. /\ DOMAIN generation_out_q = 1..Len(generation_out_q) /\ Len(generation_out_q) \in Nat
      /\ DOMAIN generation_out_q' = 1..Len(generation_out_q) + 1
      /\ generation_out_q'[Len(generation_out_q) + 1] = o
      /\ \A j \in 1..Len(generation_out_q) : generation_out_q'[j] = generation_out_q[j]
  BY <1>1, <1>2
<1>6. CursorInv' /\ ResultsInv'
  BY <1>1 DEF HeardInv, CursorInv, ResultsInv
<1>7. UnpickledInv'
  <2>1. ASSUME NEW j \in DOMAIN generation_out_q'
        PROVE  ~generation_out_q'[j].list => heard'[generation_out_q'[j].request] = <<>>
    BY <1>1, <1>2, <1>4, <1>5 DEF HeardInv, UnpickledInv
  <2>2. ASSUME NEW j \in DOMAIN generation_out_q', NEW k \in DOMAIN generation_out_q',
               j < k, generation_out_q'[j].request = generation_out_q'[k].request
        PROVE  generation_out_q'[k].list
    <3>1. j \in 1..Len(generation_out_q)
      BY <1>5, <2>2
    <3>2. CASE k = Len(generation_out_q) + 1
      BY <1>2, <1>4, <1>5, <2>2, <3>1, <3>2
    <3>3. CASE k \in 1..Len(generation_out_q)
      BY <1>5, <2>2, <3>1, <3>3 DEF HeardInv, UnpickledInv
    <3> QED BY <1>5, <3>2, <3>3
  <2>3. ASSUME NEW j \in DOMAIN out_q', NEW k \in DOMAIN generation_out_q',
               out_q'[j].request = generation_out_q'[k].request
        PROVE  generation_out_q'[k].list
    <3>1. CASE k = Len(generation_out_q) + 1
      BY <1>1, <1>2, <1>4, <1>5, <2>3, <3>1
    <3>2. CASE k \in 1..Len(generation_out_q)
      BY <1>1, <1>5, <2>3, <3>2 DEF HeardInv, UnpickledInv
    <3> QED BY <1>5, <3>1, <3>2
  <2> QED BY <2>1, <2>2, <2>3 DEF UnpickledInv
<1>8. UncollectedInv'
  <2> SUFFICES ASSUME NEW q \in Requests, collector'[q] # NoOutput
               PROVE  /\ ~collector'[q].list => heard'[q] = <<>>
                      /\ \A j \in DOMAIN generation_out_q' :
                           generation_out_q'[j].request = q => collector'[q].list
                      /\ \A j \in DOMAIN out_q' : out_q'[j].request = q => collector'[q].list
    BY DEF UncollectedInv
  <2>1. q # r /\ collector'[q] = collector[q]
    BY <1>3
  <2>2. ASSUME NEW j \in DOMAIN generation_out_q', generation_out_q'[j].request = q
        PROVE  collector'[q].list
    <3>1. j \in 1..Len(generation_out_q)
      BY <1>2, <1>5, <2>1, <2>2
    <3> QED BY <1>5, <2>1, <2>2, <3>1 DEF HeardInv, UncollectedInv
  <2> QED BY <1>1, <2>1, <2>2 DEF HeardInv, UncollectedInv
<1> QED BY <1>6, <1>7, <1>8 DEF HeardInv

(* What a pickled output is.                                               *)
LEMMA PickledOutput ==
  ASSUME TypeInv, NEW o \in Outputs, decoded[o.request] # <<>>
  PROVE  /\ Pickled(o) \in Results /\ Pickled(o).request = o.request
         /\ Pickled(o).list = o.list
         /\ Pickled(o).len = IF o.list THEN Len(decoded[o.request]) ELSE 1
         /\ Len(decoded[o.request]) \in Nat \ {0}
<1>1. o.request \in Requests /\ o.list \in BOOLEAN /\ o.finished \in BOOLEAN
  BY DEF Outputs
<1>2. decoded[o.request] \in Seq(Intervals)
  BY <1>1 DEF TypeInv, TypeOK
<1>3. Len(decoded[o.request]) \in Nat \ {0}
  BY <1>2
<1> QED BY <1>1, <1>3 DEF Pickled, Results

(* The oldest output is pickled behind the results under way.              *)
LEMMA PickleHeard ==
  ASSUME HeardInv, TypeInv', Pickle
  PROVE  HeardInv'
<1> DEFINE o == Head(generation_out_q)   p == Pickled(o)
           n == Len(generation_out_q)    l == Len(out_q)
<1>1. /\ UNCHANGED <<decoded, collector, chunks_yielded, heard>>
      /\ generation_out_q # <<>> /\ generation_out_q' = Tail(generation_out_q)
      /\ out_q' = Append(out_q, p)
  BY DEF Pickle, stageVars, clientVars
<1>2. out_q \in Seq(Results) /\ generation_out_q \in Seq(Outputs)
  BY DEF HeardInv, TypeInv, TypeOK
<1>3. /\ n \in Nat \ {0} /\ DOMAIN generation_out_q = 1..n /\ o = generation_out_q[1]
      /\ o \in Outputs /\ DOMAIN generation_out_q' = 1..n - 1
      /\ \A j \in 1..n - 1 : j + 1 \in 1..n /\ generation_out_q'[j] = generation_out_q[j + 1]
  BY <1>1, <1>2
<1>4. decoded[o.request] # <<>> /\ o.request \in Requests
  BY <1>3 DEF HeardInv, TypeInv, OutputsInv, Outputs
<1>5. /\ p \in Results /\ p.request = o.request /\ p.list = o.list
      /\ p.len = (IF o.list THEN Len(decoded[o.request]) ELSE 1)
      /\ Len(decoded[o.request]) \in Nat \ {0}
  BY <1>3, <1>4, PickledOutput DEF HeardInv
<1>6. /\ ~o.list => heard[o.request] = <<>>
      /\ \A j \in DOMAIN out_q : out_q[j].request = o.request => o.list
      /\ \A k \in 1..n : 1 < k /\ o.request = generation_out_q[k].request => generation_out_q[k].list
  BY <1>3 DEF HeardInv, UnpickledInv
<1> HIDE DEF o, p
<1>7. /\ l \in Nat /\ DOMAIN out_q = 1..l /\ DOMAIN out_q' = 1..l + 1
      /\ out_q'[l + 1] = p /\ \A j \in 1..l : out_q'[j] = out_q[j]
  BY <1>1, <1>2, <1>5
<1> HIDE DEF n, l
<1>8. CursorInv'
  BY <1>1 DEF HeardInv, CursorInv
<1>9. ResultsInv'
  <2>1. ASSUME NEW j \in DOMAIN out_q'
        PROVE  /\ Len(heard'[out_q'[j].request]) <= out_q'[j].len
               /\ out_q'[j].len <= Len(decoded'[out_q'[j].request])
               /\ ~out_q'[j].list => out_q'[j].len = 1 /\ heard'[out_q'[j].request] = <<>>
    <3>1. CASE j = l + 1
      <4>1. Len(heard[o.request]) <= Len(decoded[o.request])
        BY <1>4 DEF HeardInv, CursorInv
      <4>2. heard[o.request] = <<>> => Len(heard[o.request]) = 0
        OBVIOUS
      <4> QED BY <1>1, <1>5, <1>6, <1>7, <3>1, <4>1, <4>2
    <3>2. CASE j \in 1..l
      BY <1>1, <1>7, <3>2 DEF HeardInv, ResultsInv
    <3> QED BY <1>7, <3>1, <3>2
  <2>2. ASSUME NEW j \in DOMAIN out_q', NEW k \in DOMAIN out_q', j < k,
               out_q'[j].request = out_q'[k].request
        PROVE  out_q'[k].list /\ out_q'[j].len <= out_q'[k].len
    <3>1. j \in 1..l
      BY <1>7, <2>2
    <3>2. CASE k = l + 1
      <4>1. o.list /\ p.len = Len(decoded[o.request])
        BY <1>5, <1>6, <1>7, <2>2, <3>1, <3>2
      <4>2. out_q[j].len <= Len(decoded[out_q[j].request])
        BY <1>7, <3>1 DEF HeardInv, ResultsInv
      <4> QED BY <1>5, <1>7, <2>2, <3>1, <3>2, <4>1, <4>2
    <3>3. CASE k \in 1..l
      BY <1>7, <2>2, <3>1, <3>3 DEF HeardInv, ResultsInv
    <3> QED BY <1>7, <3>2, <3>3
  <2> QED BY <2>1, <2>2 DEF ResultsInv
<1>10. UnpickledInv'
  <2>1. ASSUME NEW j \in DOMAIN generation_out_q'
        PROVE  ~generation_out_q'[j].list => heard'[generation_out_q'[j].request] = <<>>
    BY <1>1, <1>3 DEF HeardInv, UnpickledInv
  <2>2. ASSUME NEW j \in DOMAIN generation_out_q', NEW k \in DOMAIN generation_out_q',
               j < k, generation_out_q'[j].request = generation_out_q'[k].request
        PROVE  generation_out_q'[k].list
    <3>1. j + 1 < k + 1
      BY <1>3, <2>2
    <3> QED BY <1>3, <2>2, <3>1 DEF HeardInv, UnpickledInv
  <2>3. ASSUME NEW j \in DOMAIN out_q', NEW k \in DOMAIN generation_out_q',
               out_q'[j].request = generation_out_q'[k].request
        PROVE  generation_out_q'[k].list
    <3>1. k + 1 \in 1..n /\ 1 < k + 1 /\ generation_out_q'[k] = generation_out_q[k + 1]
      BY <1>3
    <3>2. CASE j = l + 1
      BY <1>5, <1>6, <1>7, <2>3, <3>1, <3>2
    <3>3. CASE j \in 1..l
      BY <1>3, <1>7, <2>3, <3>1, <3>3 DEF HeardInv, UnpickledInv
    <3> QED BY <1>7, <3>2, <3>3
  <2> QED BY <2>1, <2>2, <2>3 DEF UnpickledInv
<1>11. UncollectedInv'
  <2> SUFFICES ASSUME NEW q \in Requests, collector[q] # NoOutput
               PROVE  /\ ~collector[q].list => heard[q] = <<>>
                      /\ \A j \in DOMAIN generation_out_q' :
                           generation_out_q'[j].request = q => collector[q].list
                      /\ \A j \in DOMAIN out_q' : out_q'[j].request = q => collector[q].list
    BY <1>1 DEF UncollectedInv
  <2>1. ~collector[q].list => heard[q] = <<>>
    BY DEF HeardInv, UncollectedInv
  <2>2. ASSUME NEW j \in DOMAIN generation_out_q', generation_out_q'[j].request = q
        PROVE  collector[q].list
    BY <1>3, <2>2 DEF HeardInv, UncollectedInv
  <2>3. ASSUME NEW j \in DOMAIN out_q', out_q'[j].request = q
        PROVE  collector[q].list
    <3>1. CASE j = l + 1
      <4>1. generation_out_q[1].request = q /\ 1 \in DOMAIN generation_out_q
        BY <1>3, <1>5, <1>7, <2>3, <3>1 DEF o
      <4> QED BY <4>1 DEF HeardInv, UncollectedInv
    <3>2. CASE j \in 1..l
      BY <1>7, <2>3, <3>2 DEF HeardInv, UncollectedInv
    <3> QED BY <1>7, <3>1, <3>2
  <2> QED BY <2>1, <2>2, <2>3
<1> QED BY <1>8, <1>9, <1>10, <1>11 DEF HeardInv

(* The second part of a concatenation.                                     *)
LEMMA ConcatAt ==
  ASSUME NEW h \in Seq(Nat), NEW s \in Seq(Nat), NEW i \in Int,
         Len(h) < i, i <= Len(h) + Len(s)
  PROVE  (h \o s)[i] = s[i - Len(h)]
OBVIOUS

(* The length of a concatenation.                                          *)
LEMMA ConcatLen ==
  ASSUME NEW h \in Seq(Nat \ {0}), NEW s \in Seq(Nat)
  PROVE  Len(h \o s) = Len(h) + Len(s)
OBVIOUS

(* What the speech endpoint sends of a result continues what was heard.    *)
LEMMA SendsNext ==
  ASSUME NEW m \in Results, NEW h \in Seq(Nat \ {0}),
         chunks_yielded[m.request] = Len(h), Len(h) <= m.len,
         ~m.list => m.len = 1 /\ h = <<>>,
         \A i \in 1..Len(h) : h[i] = i
  PROVE  Len(h \o NewTensors(m)) = m.len /\ \A i \in 1..m.len : (h \o NewTensors(m))[i] = i
<1>1. m.len \in Nat \ {0} /\ Len(h) \in Nat
  BY DEF Results
<1>2. CASE m.list
  <2> DEFINE k == m.len - Len(h)   s == [i \in 1..k |-> Len(h) + i]
  <2>1. k \in Nat /\ Larger(0, m.len - chunks_yielded[m.request]) = k
    BY <1>1, <1>2 DEF Larger
  <2>2. NewTensors(m) = s
    BY <1>1, <1>2, <2>1 DEF NewTensors
  <2> HIDE DEF k
  <2>6. s \in Seq(Nat) /\ Len(s) = k
    BY <1>1, <2>1
  <2>3. \A i \in 1..k : s[i] = Len(h) + i
    OBVIOUS
  <2> HIDE DEF s
  <2>4. Len(h \o s) = Len(h) + k /\ Len(h) + k = m.len
    <3>1. Len(h) + k = m.len
      BY <1>1 DEF k
    <3>2. Len(h \o s) = Len(h) + Len(s)
      BY <2>6, ConcatLen
    <3> QED BY <2>6, <3>1, <3>2
  <2>5. ASSUME NEW i \in 1..m.len PROVE (h \o s)[i] = i
    <3>1. CASE i <= Len(h)
      BY <1>1, <2>6, <3>1
    <3>2. CASE i > Len(h)
      <4>1. i - Len(h) \in 1..k /\ Len(h) + (i - Len(h)) = i
        BY <1>1, <2>1, <2>4, <3>2
      <4>2. (h \o s)[i] = s[i - Len(h)]
        <5>1. h \in Seq(Nat) /\ i \in Int /\ Len(h) < i /\ i <= Len(h) + Len(s)
          BY <1>1, <2>4, <2>6, <3>2
        <5> QED BY <2>6, <5>1, ConcatAt
      <4> QED BY <2>3, <4>1, <4>2
    <3>3. i <= Len(h) \/ i > Len(h)
      BY <1>1
    <3> QED BY <3>1, <3>2, <3>3
  <2> QED BY <1>1, <2>2, <2>4, <2>5
<1>3. CASE ~m.list
  <2>1. NewTensors(m) = <<1>> /\ m.len = 1 /\ h = <<>>
    BY <1>1, <1>3 DEF NewTensors
  <2> QED BY <2>1
<1> QED BY <1>2, <1>3

(* The endpoint takes a result: it sends what is new in it.                *)
LEMMA StreamHeard ==
  ASSUME HeardInv, TypeInv', StreamProgressiveAudio
  PROVE  HeardInv'
<1> DEFINE m == Head(out_q)   r == m.request   l == Len(out_q)
<1>1. /\ UNCHANGED <<decoded, collector, generation_out_q>>
      /\ out_q # <<>> /\ out_q' = Tail(out_q)
  BY DEF StreamProgressiveAudio, stageVars
<1>2. /\ out_q \in Seq(Results) /\ heard \in [Requests -> Seq(Nat \ {0})]
      /\ chunks_yielded \in [Requests -> Nat] /\ generation_out_q \in Seq(Outputs)
      /\ collector \in [Requests -> {NoOutput} \union Outputs]
  BY DEF HeardInv, TypeInv, TypeOK
<1>3. /\ l \in Nat \ {0} /\ DOMAIN out_q = 1..l /\ m = out_q[1] /\ m \in Results
      /\ DOMAIN out_q' = 1..l - 1
      /\ \A j \in 1..l - 1 : j + 1 \in 1..l /\ 1 < j + 1 /\ out_q'[j] = out_q[j + 1]
  BY <1>1, <1>2
<1>4. r \in Requests /\ m.len \in Nat \ {0}
  BY <1>3 DEF Results
<1>5. /\ Len(heard[r]) <= m.len /\ m.len <= Len(decoded[r])
      /\ ~m.list => m.len = 1 /\ heard[r] = <<>>
      /\ \A k \in 1..l : 1 < k /\ r = out_q[k].request => out_q[k].list /\ m.len <= out_q[k].len
      /\ \A k \in DOMAIN generation_out_q :
           r = generation_out_q[k].request => generation_out_q[k].list
  <2>1. 1 \in DOMAIN out_q /\ out_q[1] = m
    BY <1>3
  <2>2. ResultsInv /\ UnpickledInv
    BY DEF HeardInv
  <2> HIDE DEF m
  <2> QED BY <1>3, <2>1, <2>2, SMTT(30) DEF ResultsInv, UnpickledInv
<1>6. collector[r] # NoOutput => collector[r].list
  BY <1>3, <1>4 DEF HeardInv, UncollectedInv
<1> HIDE DEF l
<1>7. CASE client[r] # "listening"
  <2>1. UNCHANGED <<chunks_yielded, heard>>
    BY <1>7 DEF StreamProgressiveAudio, clientVars
  <2>2. CursorInv'
    BY <1>1, <2>1 DEF HeardInv, CursorInv
  <2>3. ResultsInv'
    <3>1. ASSUME NEW j \in 1..l - 1, NEW k \in 1..l - 1, j < k
          PROVE  j + 1 < k + 1
      BY <1>3, <3>1
    <3> QED BY <1>1, <1>3, <2>1, <3>1 DEF HeardInv, ResultsInv
  <2>4. UnpickledInv'
    BY <1>1, <1>3, <2>1 DEF HeardInv, UnpickledInv
  <2>5. UncollectedInv'
    BY <1>1, <1>3, <2>1 DEF HeardInv, UncollectedInv
  <2> QED BY <2>2, <2>3, <2>4, <2>5 DEF HeardInv
<1>8. CASE client[r] = "listening"
  <2> DEFINE h == heard[r] \o NewTensors(m)
  <2>1. /\ heard' = [heard EXCEPT ![r] = h]
        /\ chunks_yielded' = [chunks_yielded EXCEPT ![r] = m.len]
    BY <1>8 DEF StreamProgressiveAudio
  <2>2. Len(h) = m.len /\ \A i \in 1..m.len : h[i] = i
    <3>1. heard[r] \in Seq(Nat \ {0})
      BY <1>2, <1>4
    <3>2. chunks_yielded[m.request] = Len(heard[r]) /\ \A i \in 1..Len(heard[r]) : heard[r][i] = i
      BY <1>4 DEF HeardInv, CursorInv
    <3> QED BY <1>3, <1>5, <3>1, <3>2, SendsNext
  <2> HIDE DEF h
  <2>3. /\ heard'[r] = h /\ chunks_yielded'[r] = m.len
        /\ \A q \in Requests : q # r => heard'[q] = heard[q] /\ chunks_yielded'[q] = chunks_yielded[q]
    BY <1>2, <1>4, <2>1
  <2> HIDE DEF m
  <2>4. CursorInv'
    BY <1>1, <1>4, <1>5, <2>2, <2>3 DEF HeardInv, CursorInv
  <2>5. ResultsInv'
    <3>1. ASSUME NEW j \in 1..l - 1
          PROVE  /\ Len(heard'[out_q'[j].request]) <= out_q'[j].len
                 /\ out_q'[j].len <= Len(decoded'[out_q'[j].request])
                 /\ ~out_q'[j].list => out_q'[j].len = 1 /\ heard'[out_q'[j].request] = <<>>
      <4>1. j + 1 \in 1..l /\ 1 < j + 1 /\ out_q'[j] = out_q[j + 1] /\ out_q[j + 1].request \in Requests
        BY <1>2, <1>3, Elements, ResultFields
      <4>2. CASE out_q[j + 1].request = r
        BY <1>1, <1>3, <1>5, <2>2, <2>3, <4>1, <4>2, SMTT(30) DEF HeardInv, ResultsInv
      <4>3. CASE out_q[j + 1].request # r
        BY <1>1, <1>3, <2>3, <4>1, <4>3, SMTT(30) DEF HeardInv, ResultsInv
      <4> QED BY <4>2, <4>3
    <3>2. ASSUME NEW j \in 1..l - 1, NEW k \in 1..l - 1, j < k,
                 out_q'[j].request = out_q'[k].request
          PROVE  out_q'[k].list /\ out_q'[j].len <= out_q'[k].len
      <4>1. j + 1 < k + 1
        BY <1>3, <3>2
      <4> QED BY <1>3, <3>2, <4>1 DEF HeardInv, ResultsInv
    <3> QED BY <1>3, <3>1, <3>2 DEF ResultsInv
  <2>6. UnpickledInv'
    <3>1. ASSUME NEW k \in DOMAIN generation_out_q
          PROVE  ~generation_out_q[k].list => heard'[generation_out_q[k].request] = <<>>
      <4>1. generation_out_q[k].request \in Requests
        BY <1>2, Elements, OutputFields
      <4> QED BY <1>5, <2>3, <4>1 DEF HeardInv, UnpickledInv
    <3>2. ASSUME NEW j \in DOMAIN out_q', NEW k \in DOMAIN generation_out_q,
                 out_q'[j].request = generation_out_q[k].request
          PROVE  generation_out_q[k].list
      BY <1>3, <3>2 DEF HeardInv, UnpickledInv
    <3> QED BY <1>1, <3>1, <3>2 DEF HeardInv, UnpickledInv
  <2>7. UncollectedInv'
    <3> SUFFICES ASSUME NEW q \in Requests, collector[q] # NoOutput
                 PROVE  /\ ~collector[q].list => heard'[q] = <<>>
                        /\ \A j \in DOMAIN generation_out_q :
                             generation_out_q[j].request = q => collector[q].list
                        /\ \A j \in DOMAIN out_q' : out_q'[j].request = q => collector[q].list
      BY <1>1 DEF UncollectedInv
    <3>1. ~collector[q].list => heard'[q] = <<>>
      BY <1>6, <2>3 DEF HeardInv, UncollectedInv
    <3>2. ASSUME NEW j \in DOMAIN out_q', out_q'[j].request = q PROVE collector[q].list
      BY <1>3, <3>2 DEF HeardInv, UncollectedInv
    <3> QED BY <3>1, <3>2 DEF HeardInv, UncollectedInv
  <2> QED BY <2>4, <2>5, <2>6, <2>7 DEF HeardInv
<1> QED BY <1>7, <1>8

(* Every step.                                                             *)
LEMMA NextHeard == HeardInv /\ [Next]_vars => HeardInv'
<1> SUFFICES ASSUME HeardInv, [Next]_vars PROVE HeardInv'
  OBVIOUS
<1>0. TypeInv /\ TypeInv'
  BY NextTypes DEF HeardInv
<1>1. ASSUME NEW r \in Requests, NEW n \in 0..ChunkSize, AdvanceStreaming(r, n)
      PROVE  HeardInv'
  <2>1. frames[r] \in Nat /\ n \in Nat /\ IsFinal(n) \in BOOLEAN
    BY <1>0, AudioAssumption DEF TypeInv, TypeOK, IsFinal
  <2>2. OverlapDecoded(frames[r], n) \in Intervals
    BY <2>1, OverlapIsNew
  <2>3. /\ ProcessOutputs(r, OverlapDecoded(frames[r], n), IsFinal(n))
        /\ UNCHANGED <<generation_out_q, out_q, chunks_yielded, heard>>
    BY <1>1 DEF AdvanceStreaming, queueVars, clientVars
  <2> QED BY <1>0, <2>1, <2>2, <2>3, DecodingHeard
<1>2. ASSUME NEW r \in Requests, Code2Wav(r) PROVE HeardInv'
  <2>1. /\ ProcessOutputs(r, StreamingDecoded(Head(chunks[r])), FALSE) /\ chunks[r] # <<>>
        /\ UNCHANGED <<generation_out_q, out_q, chunks_yielded, heard>>
    BY <1>2 DEF Code2Wav, queueVars, clientVars
  <2>2. Head(chunks[r]) \in Intervals
    BY <1>0, <2>1 DEF TypeInv, TypeOK
  <2>3. StreamingDecoded(Head(chunks[r])) \in Intervals
    BY <2>2, AudioAssumption DEF StreamingDecoded, Intervals
  <2> QED BY <1>0, <2>1, <2>3, DecodingHeard
<1>3. CASE Pickle
  BY <1>0, <1>3, PickleHeard
<1>4. CASE StreamProgressiveAudio
  BY <1>0, <1>4, StreamHeard
<1>5. ASSUME NEW r \in Requests, GenerationSingleRequest(r) PROVE HeardInv'
  BY <1>0, <1>5, CollectHeard
<1>6. ASSUME NEW r \in Requests,
             \/ CreateSpeech(r) \/ Schedule(r) \/ FinishAtPrefill(r) \/ Abort(r) \/ Disconnect(r)
             \/ \E finished \in BOOLEAN : Talk(r, finished)
      PROVE  HeardInv'
  <2>1. UNCHANGED <<decoded, collector, generation_out_q, out_q, chunks_yielded, heard>>
    BY <1>6 DEF CreateSpeech, Schedule, FinishAtPrefill, Abort, Disconnect, Talk,
                stageVars, queueVars, clientVars
  <2> QED BY <1>0, <2>1, HeardSame
<1>7. CASE UNCHANGED vars
  BY <1>0, <1>7, HeardSame DEF vars, stageVars, queueVars, clientVars
<1> QED BY <1>1, <1>2, <1>3, <1>4, <1>5, <1>6, <1>7 DEF Next, Produce

(* Whoever else is served, and however outputs are replaced unread or grow *)
(* before they are pickled, a client of the speech endpoint hears the      *)
(* decoded chunks one after the other and none twice.                      *)
THEOREM HeardOnce == Spec => []HeardInOrder
<1>1. HeardInv => HeardInOrder
  <2> SUFFICES ASSUME HeardInv, NEW r \in Requests
               PROVE  heard[r] = [i \in 1..Len(heard[r]) |-> i] /\ Len(heard[r]) <= Len(decoded[r])
    BY DEF HeardInOrder
  <2>1. heard[r] \in Seq(Nat \ {0})
    BY DEF HeardInv, TypeInv, TypeOK
  <2>2. heard[r] = [i \in 1..Len(heard[r]) |-> heard[r][i]]
    BY <2>1, SMTT(30)
  <2>3. \A i \in 1..Len(heard[r]) : heard[r][i] = i
    BY DEF HeardInv, CursorInv
  <2> QED BY <2>2, <2>3 DEF HeardInv, CursorInv
<1>2. Init => HeardInv
  BY InitHeard
<1>3. HeardInv /\ [Next]_vars => HeardInv'
  BY NextHeard
<1> QED BY <1>1, <1>2, <1>3, PTL DEF Spec, Safety
=============================================================================
