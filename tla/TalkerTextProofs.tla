-------------------------- MODULE TalkerTextProofs --------------------------
(***************************************************************************)
(* Proofs about TalkerText: types, and that the talker is given the text   *)
(* of the thinker once and in order, for any lengths and in both modes,    *)
(* and that no embedding is lost or repeated on its way to the talker.     *)
(***************************************************************************)
EXTENDS TalkerText, SequenceLemmas

(* The types, and a queue that always has a next element.                  *)
TypeInv == TypeOK /\ (info.prefilled => info.trailing # <<>>)

InfoType ==
  [prefilled : BOOLEAN, embeddings : EmbeddingSeq, trailing : Seq(Inputs),
   decode_flag : BOOLEAN, num_processed : Nat, finished_flag : BOOLEAN]
ChunkType == [embeddings : EmbeddingSeq, sequences : Nat, finished : BOOLEAN]

(* Sequences of embeddings, of inputs and of chunks.                       *)
LEMMA EmbeddingFacts ==
  /\ <<>> \in EmbeddingSeq
  /\ \A e \in EmbeddingSeq :
       /\ Len(e) \in Nat /\ DOMAIN e = 1..Len(e)
       /\ \A i \in 1..Len(e) : e[i] \in 0..PromptLen + MaxOutput
  /\ \A e, s \in EmbeddingSeq :
       /\ e \o s \in EmbeddingSeq /\ Len(e \o s) = Len(e) + Len(s)
       /\ \A i \in 1..Len(e) + Len(s) : (e \o s)[i] = IF i <= Len(e) THEN e[i] ELSE s[i - Len(e)]
  /\ \A e \in EmbeddingSeq : e # <<>> =>
       /\ Tail(e) \in EmbeddingSeq /\ Len(Tail(e)) = Len(e) - 1 /\ Len(e) >= 1
       /\ \A i \in 1..Len(Tail(e)) : Tail(e)[i] = e[i + 1]
<1> DEFINE S == 0..PromptLen + MaxOutput
<1> HIDE DEF S
<1>1. EmbeddingSeq = Seq(S)
  BY DEF EmbeddingSeq, S
<1>2. \A e \in Seq(S) :
        Len(e) \in Nat /\ DOMAIN e = 1..Len(e) /\ \A i \in 1..Len(e) : e[i] \in S
  BY LenProperties, ElementOfSeq
<1>3. \A e, s \in Seq(S) :
       /\ e \o s \in Seq(S) /\ Len(e \o s) = Len(e) + Len(s)
       /\ \A i \in 1..Len(e) + Len(s) : (e \o s)[i] = IF i <= Len(e) THEN e[i] ELSE s[i - Len(e)]
  BY ConcatProperties
<1>4. \A e \in Seq(S) : e # <<>> =>
       /\ Tail(e) \in Seq(S) /\ Len(Tail(e)) = Len(e) - 1 /\ Len(e) >= 1
       /\ \A i \in 1..Len(Tail(e)) : Tail(e)[i] = e[i + 1]
  BY HeadTailProperties, EmptySeq
<1>5. <<>> \in Seq(S)
  OBVIOUS
<1> QED BY <1>1, <1>2, <1>3, <1>4, <1>5 DEF S

(* What the talker was given, and its queue, are sequences of inputs.      *)
LEMMA InputFacts ==
  /\ <<>> \in Seq(Inputs)
  /\ \A x \in Inputs : <<x>> \in Seq(Inputs) /\ <<x>> # <<>> /\ Len(<<x>>) = 1 /\ <<x>>[1] = x
  /\ \A q \in Seq(Inputs) :
       Len(q) \in Nat /\ DOMAIN q = 1..Len(q) /\ \A i \in 1..Len(q) : q[i] \in Inputs
  /\ \A q \in Seq(Inputs), x \in Inputs :
       /\ Append(q, x) \in Seq(Inputs) /\ Append(q, x) # <<>>
       /\ Len(Append(q, x)) = Len(q) + 1 /\ Append(q, x)[Len(q) + 1] = x
       /\ \A i \in 1..Len(q) : Append(q, x)[i] = q[i]
  /\ \A q \in Seq(Inputs) : q # <<>> =>
       /\ Head(q) \in Inputs /\ Head(q) = q[1] /\ Len(q) >= 1
       /\ Tail(q) \in Seq(Inputs) /\ Len(Tail(q)) = Len(q) - 1
       /\ \A i \in 1..Len(Tail(q)) : Tail(q)[i] = q[i + 1]
       /\ Len(q) > 1 => Tail(q) # <<>>
<1>1. \A q \in Seq(Inputs) :
        Len(q) \in Nat /\ DOMAIN q = 1..Len(q) /\ \A i \in 1..Len(q) : q[i] \in Inputs
  BY LenProperties, ElementOfSeq
<1>2. \A q \in Seq(Inputs), x \in Inputs :
       /\ Append(q, x) \in Seq(Inputs) /\ Append(q, x) # <<>>
       /\ Len(Append(q, x)) = Len(q) + 1 /\ Append(q, x)[Len(q) + 1] = x
       /\ \A i \in 1..Len(q) : Append(q, x)[i] = q[i]
  BY AppendProperties
<1>3. \A q \in Seq(Inputs) : q # <<>> =>
       /\ Head(q) \in Inputs /\ Head(q) = q[1] /\ Len(q) >= 1
       /\ Tail(q) \in Seq(Inputs) /\ Len(Tail(q)) = Len(q) - 1
       /\ \A i \in 1..Len(Tail(q)) : Tail(q)[i] = q[i + 1]
  BY HeadTailProperties, EmptySeq
<1>4. ASSUME NEW q \in Seq(Inputs), q # <<>>, Len(q) > 1 PROVE Tail(q) # <<>>
  <2>1. Len(Tail(q)) = Len(q) - 1 /\ Len(q) \in Nat
    BY <1>1, <1>3, <1>4
  <2>2. Tail(q) = <<>> => Len(Tail(q)) = 0
    BY EmptySeq
  <2> QED BY <1>4, <2>1, <2>2
<1> QED BY <1>1, <1>2, <1>3, <1>4

(* The chunks on their way.                                                *)
LEMMA ChunkFacts ==
  /\ \A q \in Seq(ChunkType) :
       Len(q) \in Nat /\ DOMAIN q = 1..Len(q) /\ \A i \in 1..Len(q) : q[i] \in ChunkType
  /\ \A q \in Seq(ChunkType), x \in ChunkType :
       /\ Append(q, x) \in Seq(ChunkType) /\ Len(Append(q, x)) = Len(q) + 1
       /\ Append(q, x)[Len(q) + 1] = x
       /\ \A i \in 1..Len(q) : Append(q, x)[i] = q[i]
  /\ \A q \in Seq(ChunkType) : q # <<>> =>
       /\ Head(q) \in ChunkType /\ Head(q) = q[1] /\ Len(q) >= 1
       /\ Tail(q) \in Seq(ChunkType) /\ Len(Tail(q)) = Len(q) - 1
       /\ \A i \in 1..Len(Tail(q)) : Tail(q)[i] = q[i + 1]
<1>1. \A q \in Seq(ChunkType) :
        Len(q) \in Nat /\ DOMAIN q = 1..Len(q) /\ \A i \in 1..Len(q) : q[i] \in ChunkType
  BY LenProperties, ElementOfSeq
<1>2. \A q \in Seq(ChunkType), x \in ChunkType :
       /\ Append(q, x) \in Seq(ChunkType) /\ Len(Append(q, x)) = Len(q) + 1
       /\ Append(q, x)[Len(q) + 1] = x
       /\ \A i \in 1..Len(q) : Append(q, x)[i] = q[i]
  BY AppendProperties
<1>3. \A q \in Seq(ChunkType) : q # <<>> =>
       /\ Head(q) \in ChunkType /\ Head(q) = q[1] /\ Len(q) >= 1
       /\ Tail(q) \in Seq(ChunkType) /\ Len(Tail(q)) = Len(q) - 1
       /\ \A i \in 1..Len(Tail(q)) : Tail(q)[i] = q[i + 1]
  BY HeadTailProperties, EmptySeq
<1> QED BY <1>1, <1>2, <1>3

(* Initially.                                                              *)
LEMMA InitTypes == Init => TypeInv
<1> SUFFICES ASSUME Init PROVE TypeInv
  OBVIOUS
<1>1. <<>> \in EmbeddingSeq /\ <<>> \in Seq(Inputs) /\ <<>> \in Seq(ChunkType)
  BY EmbeddingFacts, InputFacts
<1>2. info \in InfoType /\ ~info.prefilled
  BY <1>1 DEF Init, InfoType
<1>3. payload \in [embeddings : EmbeddingSeq, sequences : Nat]
  BY <1>1 DEF Init
<1>4. 0 \in 0..MaxOutput /\ 0 \in 0..PromptLen + 0 /\ 0 \in 0..MaxSplits /\ 0 \in 0..MaxPreemptions
  BY TalkerAssumption
<1>5. TypeOK
  BY <1>1, <1>2, <1>3, <1>4 DEF Init, TypeOK, InfoType, ChunkType
<1> QED BY <1>2, <1>5 DEF TypeInv

(* What a step of n tokens computes.                                       *)
LEMMA PositionsType ==
  ASSUME TypeOK, NEW n \in Nat, computed + n <= NumTokens
  PROVE  /\ Positions(n) \in EmbeddingSeq /\ Len(Positions(n)) = n
         /\ \A i \in 1..n : Positions(n)[i] = computed + i - 1
<1>1. computed \in Nat /\ output \in 0..MaxOutput /\ NumTokens = PromptLen + output
  BY TalkerAssumption DEF TypeOK, NumTokens
<1>2. \A i \in 1..n : computed + i - 1 \in 0..PromptLen + MaxOutput
  BY <1>1, TalkerAssumption
<1> QED BY <1>2 DEF Positions, EmbeddingSeq

(* What is sent or kept back.                                              *)
LEMMA EmitTypes ==
  ASSUME TypeOK, NEW pool \in EmbeddingSeq, NEW tokens \in Nat, tokens >= PromptLen,
         NEW last \in BOOLEAN, Emit(pool, tokens, last)
  PROVE  /\ saved' \in EmbeddingSeq /\ put_req_chunk' \in Nat /\ chunks' \in Seq(ChunkType)
<1>1. saved \in EmbeddingSeq /\ put_req_chunk \in Nat /\ chunks \in Seq(ChunkType)
  BY DEF TypeOK, ChunkType
<1>2. saved \o pool \in EmbeddingSeq /\ <<>> \in EmbeddingSeq
  BY <1>1, EmbeddingFacts
<1>3. ASSUME NEW l \in BOOLEAN PROVE Chunk(saved \o pool, tokens, l) \in ChunkType
  BY <1>1, <1>2, TalkerAssumption DEF Chunk, ChunkType
<1>4. ASSUME NEW c \in ChunkType, Send(c)
      PROVE  /\ saved' \in EmbeddingSeq /\ put_req_chunk' \in Nat /\ chunks' \in Seq(ChunkType)
  BY <1>1, <1>2, <1>4, ChunkFacts DEF Send
<1>5. \/ saved' = pool /\ UNCHANGED <<put_req_chunk, chunks>>
      \/ saved' = saved \o pool /\ UNCHANGED <<put_req_chunk, chunks>>
      \/ \E l \in BOOLEAN : Send(Chunk(saved \o pool, tokens, l))
  BY DEF Emit, AsyncChunk, Gather
<1> QED BY <1>1, <1>2, <1>3, <1>4, <1>5

(* The thinker's steps.                                                    *)
LEMMA ComputeTypes ==
  ASSUME TypeInv, NEW n \in 1..PromptLen + MaxOutput, ComputePart(n)
  PROVE  TypeInv'
<1> USE TalkerAssumption DEF TypeInv, TypeOK
<1>1. n \in Nat /\ computed + n <= NumTokens /\ NumTokens \in Nat /\ NumTokens >= PromptLen
      /\ computed + n \in 0..PromptLen + output
  BY DEF ComputePart, NumTokens
<1>2. Positions(n) \in EmbeddingSeq
  BY <1>1, PositionsType
<1>3. saved' \in EmbeddingSeq /\ put_req_chunk' \in Nat /\ chunks' \in Seq(ChunkType)
  BY <1>1, <1>2, EmitTypes DEF ComputePart
<1>4. pooled' \in EmbeddingSeq
  BY <1>2, EmbeddingFacts DEF ComputePart
<1>5. splits' \in 0..MaxSplits /\ computed' \in 0..PromptLen + output'
  BY <1>1 DEF ComputePart
<1> QED BY <1>3, <1>4, <1>5 DEF ComputePart, talkerVars, ChunkType

(* A step of the thinker over its last token.                              *)
LEMMA SampleTypes ==
  ASSUME TypeInv, NEW last \in BOOLEAN, Sample(last)
  PROVE  TypeInv'
<1> USE TalkerAssumption DEF TypeInv, TypeOK
<1> DEFINE n == NumTokens - computed
<1>1. n \in Nat /\ computed + n <= NumTokens /\ NumTokens + 1 \in Nat /\ NumTokens + 1 >= PromptLen
  BY DEF NumTokens
<1>2. Positions(n) \in EmbeddingSeq
  BY <1>1, PositionsType
<1>3. saved' \in EmbeddingSeq /\ put_req_chunk' \in Nat /\ chunks' \in Seq(ChunkType)
  <2>1. Emit(Positions(n), NumTokens + 1, last)
    BY DEF Sample
  <2> QED BY <1>1, <1>2, <2>1, EmitTypes
<1>4. pooled' \in EmbeddingSeq
  <2>1. pooled' = pooled \o Positions(n)
    BY DEF Sample
  <2> QED BY <1>2, <2>1, EmbeddingFacts
<1>5. output' \in 0..MaxOutput /\ computed' \in 0..PromptLen + output'
  BY DEF Sample, NumTokens
<1> QED BY <1>3, <1>4, <1>5 DEF Sample, talkerVars, ChunkType

(* What the talker reads in a prompt.                                      *)
LEMMA TextType ==
  ASSUME TypeOK, NEW e \in EmbeddingSeq
  PROVE  /\ TextEmbeddings(e) \in EmbeddingSeq
         /\ payload.sequences >= Len(e) /\ Len(e) >= PromptLen =>
              /\ Len(TextEmbeddings(e)) = Len(e) - PromptLen
              /\ \A i \in 1..Len(e) - PromptLen : TextEmbeddings(e)[i] = e[PromptLen + i]
<1> DEFINE m == IF payload.sequences < Len(e) THEN payload.sequences ELSE Len(e)
<1>1. payload.sequences \in Nat /\ Len(e) \in Nat /\ m \in Nat /\ m <= Len(e) /\ PromptLen \in Nat
  BY TalkerAssumption, EmbeddingFacts DEF TypeOK
<1>2. TextEmbeddings(e) = SubSeq(e, PromptLen + 1, m)
  BY DEF TextEmbeddings
<1> HIDE DEF m
<1>3. /\ SubSeq(e, PromptLen + 1, m) \in Seq(0..PromptLen + MaxOutput)
      /\ Len(SubSeq(e, PromptLen + 1, m)) = IF PromptLen + 1 <= m THEN m - PromptLen ELSE 0
      /\ \A i \in 1..m - PromptLen : SubSeq(e, PromptLen + 1, m)[i] = e[PromptLen + i]
  <2> DEFINE S == 0..PromptLen + MaxOutput
             a == PromptLen + 1
  <2>1. a \in Int /\ m \in Int /\ \A i \in a..m : e[i] \in S
    <3>1. \A i \in a..m : i \in 1..Len(e)
      BY <1>1
    <3>2. \A i \in 1..Len(e) : e[i] \in S
      BY EmbeddingFacts
    <3> QED BY <1>1, <3>1, <3>2
  <2> HIDE DEF S, a
  <2>2. /\ SubSeq(e, a, m) \in Seq(S)
        /\ Len(SubSeq(e, a, m)) = IF a <= m THEN m - a + 1 ELSE 0
        /\ \A i \in 1..m - a + 1 : SubSeq(e, a, m)[i] = e[a + i - 1]
    BY <2>1, SubSeqProperties
  <2> QED BY <1>1, <2>2 DEF S, a
<1>4. ASSUME payload.sequences >= Len(e), Len(e) >= PromptLen
      PROVE  /\ Len(TextEmbeddings(e)) = Len(e) - PromptLen
             /\ \A i \in 1..Len(e) - PromptLen : TextEmbeddings(e)[i] = e[PromptLen + i]
  <2>1. m = Len(e)
    BY <1>1, <1>4 DEF m
  <2> QED BY <1>1, <1>2, <1>3, <1>4, <2>1
<1> QED BY <1>2, <1>3, <1>4 DEF EmbeddingSeq

(* What is spoken and queued of it.                                        *)
LEMMA SpokenType ==
  ASSUME NEW t \in EmbeddingSeq
  PROVE  /\ Spoken(t) \in Seq(Inputs) /\ Len(Spoken(t)) = Len(t)
         /\ \A i \in 1..Len(t) : Spoken(t)[i] = Text(t[i])
<1> HIDE DEF Text, Inputs
<1>1. DOMAIN t = 1..Len(t) /\ Len(t) \in Nat
  BY EmbeddingFacts
<1>2. \A i \in 1..Len(t) : Text(t[i]) \in Inputs
  <2>1. \A i \in 1..Len(t) : t[i] \in 0..PromptLen + MaxOutput
    BY EmbeddingFacts
  <2> QED BY <2>1 DEF Inputs
<1> DEFINE m == Len(t)
<1>3. Spoken(t) = [i \in 1..m |-> Text(t[i])]
  BY <1>1 DEF Spoken
<1> HIDE DEF m
<1>4. m \in Nat /\ \A i \in 1..m : Text(t[i]) \in Inputs
  BY <1>1, <1>2 DEF m
<1>5. Spoken(t) \in Seq(Inputs)
  BY <1>3, <1>4
<1>6. Len(Spoken(t)) = m /\ \A i \in 1..m : Spoken(t)[i] = Text(t[i])
  BY <1>3, <1>4
<1> QED BY <1>5, <1>6 DEF m

(* The first input, and the queue of the others, which is never empty.     *)
LEMMA QueueTypes ==
  ASSUME NEW text \in EmbeddingSeq
  PROVE  /\ FirstText(text) \in Inputs
         /\ Trailing(text) \in Seq(Inputs) /\ Trailing(text) # <<>>
<1>1. \A i \in 0..PromptLen + MaxOutput : Text(i) \in Inputs
  BY DEF Inputs
<1>2. Zeros \in Inputs /\ Eos \in Inputs
  BY DEF Inputs
<1>3. text # <<>> => text[1] \in 0..PromptLen + MaxOutput
  BY EmbeddingFacts
<1>4. FirstText(text) \in Inputs
  BY <1>1, <1>2, <1>3 DEF FirstText
<1>5. CASE Len(text) > 1
  <2>1. Tail(text) \in EmbeddingSeq
    BY <1>5, EmbeddingFacts
  <2>3. Spoken(Tail(text)) \in Seq(Inputs)
    BY <2>1, SpokenType
  <2>4. Trailing(text) = Append(Spoken(Tail(text)), Eos)
    BY <1>5 DEF Trailing
  <2> QED BY <1>2, <1>4, <2>3, <2>4, InputFacts
<1>6. CASE ~(Len(text) > 1)
  <2>1. Trailing(text) = <<Zeros>>
    BY <1>6 DEF Trailing
  <2> QED BY <1>2, <1>4, <2>1, InputFacts
<1> QED BY <1>5, <1>6

(* What a step of the talker is given.                                     *)
LEMMA TextAtType ==
  ASSUME TypeOK
  PROVE  TextAt(StartIndex) \in Inputs /\ StartIndex \in Nat /\ Embeddings \in EmbeddingSeq
<1>1. Embeddings \in EmbeddingSeq /\ StartIndex \in Nat
  BY TalkerAssumption DEF TypeOK, Embeddings, StartIndex
<1>2. \A i \in 0..PromptLen + MaxOutput : Text(i) \in Inputs
  BY DEF Inputs
<1>3. StartIndex < Len(Embeddings) => Embeddings[StartIndex + 1] \in 0..PromptLen + MaxOutput
  <2>1. Len(Embeddings) \in Nat
        /\ \A i \in 1..Len(Embeddings) : Embeddings[i] \in 0..PromptLen + MaxOutput
    BY <1>1, EmbeddingFacts
  <2>2. StartIndex < Len(Embeddings) => StartIndex + 1 \in 1..Len(Embeddings)
    BY <1>1, <2>1
  <2> QED BY <2>1, <2>2
<1>4. Eos \in Inputs /\ Pad \in Inputs
  BY DEF Inputs
<1> QED BY <1>1, <1>2, <1>3, <1>4 DEF TextAt

(* The first step of the talker.                                           *)
LEMMA PrefillTypes ==
  ASSUME TypeInv, Prefill
  PROVE  spoken' \in Seq(Inputs) /\ info' \in InfoType /\ info'.trailing # <<>>
<1> DEFINE text == TextEmbeddings(Embeddings)
<1>1. Embeddings \in EmbeddingSeq /\ text \in EmbeddingSeq
  BY TextAtType, TextType DEF TypeInv
<1>2. /\ FirstText(text) \in Inputs
      /\ Trailing(text) \in Seq(Inputs) /\ Trailing(text) # <<>>
  BY <1>1, QueueTypes
<1>3. /\ spoken' = <<FirstText(text)>>
      /\ info' = [info EXCEPT !.prefilled = TRUE, !.embeddings = Embeddings, !.trailing = Trailing(text)]
  BY DEF Prefill
<1>4. info \in InfoType
  BY DEF TypeInv, TypeOK, InfoType
<1> HIDE DEF text
<1>5. spoken' \in Seq(Inputs)
  BY <1>2, <1>3, InputFacts
<1>6. info' \in InfoType /\ info'.trailing = Trailing(text)
  <2> DEFINE t == Trailing(text)
             e == Embeddings
  <2> HIDE DEF t, e
  <2>1. info' = [info EXCEPT !.prefilled = TRUE, !.embeddings = e, !.trailing = t]
        /\ e \in EmbeddingSeq /\ t \in Seq(Inputs)
    BY <1>1, <1>2, <1>3 DEF t, e
  <2>2. info' \in InfoType /\ info'.trailing = t
    BY <1>4, <2>1 DEF InfoType
  <2> QED BY <2>2 DEF t
<1> QED BY <1>2, <1>5, <1>6

(* A later one, with chunks: it takes what was received.                   *)
LEMMA DecodeChunkTypes ==
  ASSUME TypeInv, DecodeChunk
  PROVE  /\ spoken' \in Seq(Inputs) /\ info' \in InfoType
         /\ info'.prefilled => info'.trailing # <<>>
<1>1. /\ TextAt(StartIndex) \in Inputs /\ StartIndex \in Nat /\ Embeddings \in EmbeddingSeq
  BY TextAtType DEF TypeInv
<1>2. info \in InfoType /\ spoken \in Seq(Inputs) /\ (info.prefilled => info.trailing # <<>>)
  BY DEF TypeInv, TypeOK, InfoType
<1>3. Len(Embeddings) \in Nat /\ (info.finished_flag \/ StartIndex >= Len(Embeddings)) \in BOOLEAN
  BY <1>1, <1>2, EmbeddingFacts DEF InfoType
<1>4. spoken' \in Seq(Inputs)
  BY <1>1, <1>2, InputFacts DEF DecodeChunk
<1>5. info' \in InfoType /\ info'.trailing = info.trailing /\ info'.prefilled = info.prefilled
  <2> DEFINE e == Embeddings
             n == StartIndex + 1
             f == info.finished_flag \/ StartIndex >= Len(Embeddings)
  <2>1. e \in EmbeddingSeq /\ n \in Nat /\ f \in BOOLEAN
    BY <1>1, <1>3
  <2>2. info' = [info EXCEPT !.decode_flag = TRUE, !.num_processed = n, !.finished_flag = f, !.embeddings = e]
    BY DEF DecodeChunk
  <2> HIDE DEF e, n, f
  <2> QED BY <1>2, <2>1, <2>2 DEF InfoType
<1> QED BY <1>2, <1>4, <1>5

(* A later one, without: it takes the head of the queue.                   *)
LEMMA DecodeTrailingTypes ==
  ASSUME TypeInv, DecodeTrailing
  PROVE  /\ spoken' \in Seq(Inputs) /\ info' \in InfoType /\ info'.trailing # <<>>
<1>1. info \in InfoType /\ spoken \in Seq(Inputs) /\ info.trailing # <<>>
      /\ info.trailing \in Seq(Inputs)
  BY DEF TypeInv, TypeOK, InfoType, DecodeTrailing
<1>2. Head(info.trailing) \in Inputs /\ Pad \in Inputs
  <2>1. Pad \in Inputs
    BY DEF Inputs
  <2> QED BY <1>1, <2>1, InputFacts
<1> DEFINE t == IF Len(info.trailing) > 1 THEN Tail(info.trailing) ELSE <<Pad>>
<1>3. t \in Seq(Inputs) /\ t # <<>>
  BY <1>1, <1>2, InputFacts
<1>4. info' = [info EXCEPT !.trailing = t] /\ spoken' = Append(spoken, Head(info.trailing))
  BY DEF DecodeTrailing
<1> HIDE DEF t
<1>5. spoken' \in Seq(Inputs)
  BY <1>1, <1>2, <1>4, InputFacts
<1>6. info' \in InfoType /\ info'.trailing = t
  BY <1>1, <1>3, <1>4 DEF InfoType
<1> QED BY <1>3, <1>5, <1>6

(* What is received is added.                                              *)
LEMMA ReceiveTypes ==
  ASSUME TypeInv, Receive
  PROVE  TypeInv'
<1>1. chunks \in Seq(ChunkType) /\ chunks # <<>> /\ payload \in [embeddings : EmbeddingSeq, sequences : Nat]
  BY DEF TypeInv, TypeOK, ChunkType, Receive
<1>2. Head(chunks) \in ChunkType /\ Tail(chunks) \in Seq(ChunkType)
  BY <1>1, ChunkFacts
<1>3. payload.embeddings \o Head(chunks).embeddings \in EmbeddingSeq
  BY <1>1, <1>2, EmbeddingFacts DEF ChunkType
<1>4. /\ payload' \in [embeddings : EmbeddingSeq, sequences : Nat]
      /\ finished' \in BOOLEAN /\ chunks' \in Seq(ChunkType)
  BY <1>1, <1>2, <1>3 DEF Receive, Concatenated, ChunkType
<1> QED BY <1>4 DEF TypeInv, TypeOK, Receive, ChunkType, thinkerVars

(* Every step.                                                             *)
LEMMA NextTypes == TypeInv /\ [Next]_vars => TypeInv'
<1> SUFFICES ASSUME TypeInv, [Next]_vars PROVE TypeInv'
  OBVIOUS
<1>1. ASSUME NEW n \in 1..PromptLen + MaxOutput, ComputePart(n) PROVE TypeInv'
  BY <1>1, ComputeTypes
<1>2. ASSUME NEW last \in BOOLEAN, Sample(last) PROVE TypeInv'
  BY <1>2, SampleTypes
<1>3. CASE Preempt
  BY <1>3, TalkerAssumption DEF Preempt, TypeInv, TypeOK, linkVars, talkerVars
<1>4. CASE Ask
  BY <1>4 DEF Ask, TypeInv, TypeOK, thinkerVars, linkVars
<1>5. CASE Receive
  BY <1>5, ReceiveTypes
<1>6. CASE TalkerStep
  <2>1. /\ spoken' \in Seq(Inputs) /\ info' \in InfoType
        /\ info'.prefilled => info'.trailing # <<>>
    BY <1>6, PrefillTypes, DecodeChunkTypes, DecodeTrailingTypes DEF TalkerStep
  <2> QED BY <1>6, <2>1 DEF TalkerStep, TypeInv, TypeOK, InfoType, thinkerVars, linkVars
<1>7. CASE UNCHANGED vars
  BY <1>7 DEF vars, thinkerVars, linkVars, talkerVars, TypeInv, TypeOK
<1> QED BY <1>1, <1>2, <1>3, <1>4, <1>5, <1>6, <1>7 DEF Next, Thinker

(* The variables of the text path keep their types, and the talker's queue *)
(* of text always has a next element.                                      *)
LEMMA TypesHold == Safety => []TypeInv
BY InitTypes, NextTypes, PTL DEF Safety

(* The type invariant of the text path.                                    *)
THEOREM TypeCorrect == Spec => []TypeOK
<1>1. TypeInv => TypeOK
  BY DEF TypeInv
<1> QED BY <1>1, TypesHold, PTL DEF Spec

-----------------------------------------------------------------------------
(* The inductive invariant.  Its parts are operators of the values, so     *)
(* that what is true of the values before a step and after it is a lemma   *)
(* without primes.  o is the number of tokens sampled, th the state of the *)
(* thinker, len the number of steps of the talker.                         *)

(* A sequence of the first k positions.                                    *)
Upto(e, k) == Len(e) = k /\ \A i \in 1..k : e[i] = i - 1

(* The length of the text, of the embeddings of the first chunk, and the   *)
(* first step of the talker that is given tts_eos (or its zeros).          *)
TextLen(o) == IF o = 0 THEN 0 ELSE o - 1
FirstLen(o) == IF o = 1 THEN PromptLen ELSE PromptLen + 1
EndAt(o) == IF o > 2 THEN o ELSE 2

(* The i-th input of the talker; short is what ends a short text.          *)
Said(short, o, i) ==
  IF i <= TextLen(o) THEN Text(PromptLen + i - 1)
  ELSE IF i = 1 THEN Zeros
  ELSE IF i > EndAt(o) THEN Pad
  ELSE IF o > 2 THEN Eos ELSE short

Speaks(short, o, th, spk) ==
  \A i \in 1..Len(spk) : spk[i] = Said(short, o, i) /\ (i > TextLen(o) => th = "finished")

(* With chunks: what the thinker has computed and sent.                    *)
ThinkerAsync(o, th, comp, put, sav) ==
  /\ o = 0 => comp = 0 /\ put = 0 /\ sav = <<>> /\ th = "running"
  /\ o > 0 => comp = PromptLen + o - 1
  /\ o > 0 /\ put = 0 => o = 1 /\ th = "running" /\ Upto(sav, PromptLen)
  /\ put > 0 => sav = <<>> /\ put = (IF o = 1 THEN 1 ELSE o - 1) /\ (o = 1 => th = "finished")

(* The chunk with number n.                                                *)
IsChunk(c, n, o) ==
  /\ n = 0 => Upto(c.embeddings, FirstLen(o)) /\ c.sequences >= FirstLen(o)
  /\ n > 0 => c.embeddings = <<PromptLen + n>>

(* The chunks on their way and what was received of them.                  *)
LinkAsync(o, th, put, chs, pay, fin) ==
  /\ Len(chs) <= put
  /\ \A i \in 1..Len(chs) : IsChunk(chs[i], put - Len(chs) + i - 1, o)
  /\ \A i \in 1..Len(chs) : chs[i].finished = (th = "finished" /\ i = Len(chs))
  /\ put = Len(chs) => pay.embeddings = <<>> /\ pay.sequences = 0
  /\ put > Len(chs) => Upto(pay.embeddings, FirstLen(o) + put - Len(chs) - 1)
  /\ put = Len(chs) + 1 => pay.sequences >= FirstLen(o)
  /\ fin = (th = "finished" /\ Len(chs) = 0)

(* The talker's steps against the number of chunks received.               *)
TalkerAsync(o, th, got, emb, fin, tk, inf, len) ==
  /\ tk = "unready" => IF fin THEN len >= got ELSE len = got
  /\ tk = "waiting" => len = got /\ ~fin
  /\ tk = "ready" => got = len + 1
  /\ inf.prefilled = (len > 0)
  /\ inf.decode_flag = (len > 1)
  /\ len > 1 => inf.num_processed = PromptLen + len
  /\ tk = "unready" /\ len > 0 => inf.embeddings = emb
  /\ inf.finished_flag = (th = "finished" /\ len >= EndAt(o))

(* Without chunks: one thing is sent, when the thinker has finished.       *)
IsWhole(e, sequences, o) == Upto(e, PromptLen + TextLen(o)) /\ sequences = PromptLen + o

LinkFull(o, th, comp, put, sav, chs, pay, fin) ==
  /\ put = 0 => th = "running" /\ comp < PromptLen + o /\ Upto(sav, comp) /\ Len(chs) = 0
  /\ put > 0 => put = 1 /\ th = "finished" /\ o > 0 /\ Len(chs) <= 1
  /\ Len(chs) = 1 => IsWhole(chs[1].embeddings, chs[1].sequences, o) /\ chs[1].finished = TRUE
  /\ put = Len(chs) => pay.embeddings = <<>> /\ pay.sequences = 0
  /\ put # Len(chs) => IsWhole(pay.embeddings, pay.sequences, o)
  /\ fin = (put # Len(chs))

(* The queue holds what is to be spoken, at least up to the end.           *)
TalkerFull(o, got, fin, tk, inf, len) ==
  /\ len > 0 => got = 1
  /\ inf.prefilled = (len > 0)
  /\ tk = "waiting" => ~fin
  /\ tk = "ready" => got = 1 /\ len = 0
  /\ tk = "unready" /\ fin => len > 0
  /\ len > 0 =>
       /\ len + Len(inf.trailing) >= EndAt(o)
       /\ \A j \in 1..Len(inf.trailing) : inf.trailing[j] = Said(Zeros, o, len + j)

AsyncInv ==
  /\ ThinkerAsync(output, thinker, computed, put_req_chunk, saved)
  /\ LinkAsync(output, thinker, put_req_chunk, chunks, payload, finished)
  /\ TalkerAsync(output, thinker, put_req_chunk - Len(chunks), payload.embeddings, finished, talker, info,
                 Len(spoken))

FullInv ==
  /\ LinkFull(output, thinker, computed, put_req_chunk, saved, chunks, payload, finished)
  /\ TalkerFull(output, put_req_chunk - Len(chunks), finished, talker, info, Len(spoken))

Short == IF async_chunk THEN Eos ELSE Zeros

SpeechInv ==
  /\ Speaks(Short, output, thinker, spoken)
  /\ async_chunk => AsyncInv
  /\ ~async_chunk => FullInv

TalkerInv == TypeInv /\ (Regular => SpeechInv)

(* Numbers.                                                                *)
LEMMA Lengths ==
  ASSUME NEW o \in Nat
  PROVE  /\ PromptLen \in Nat /\ PromptLen >= 1
         /\ TextLen(o) \in Nat /\ (o > 0 => TextLen(o) = o - 1) /\ (o = 0 => TextLen(o) = 0)
         /\ TextLen(o) <= o /\ TextLen(o + 1) = o
         /\ FirstLen(o) \in Nat /\ FirstLen(o) >= PromptLen /\ FirstLen(o) <= PromptLen + 1
         /\ (o # 1 => FirstLen(o) = PromptLen + 1) /\ (o = 1 => FirstLen(o) = PromptLen)
         /\ EndAt(o) \in Nat /\ EndAt(o) >= TextLen(o) + 1 /\ EndAt(o) >= 2
         /\ (o > 2 => EndAt(o) = o) /\ (o <= 2 => EndAt(o) = 2)
BY TalkerAssumption DEF TextLen, FirstLen, EndAt

(* The cases of Said, one at a time.                                       *)
LEMMA SaidIs ==
  ASSUME NEW o \in Nat, NEW short, NEW i \in Nat \ {0}
  PROVE  /\ i <= TextLen(o) => Said(short, o, i) = Text(PromptLen + i - 1)
         /\ i = 1 /\ TextLen(o) = 0 => Said(short, o, i) = Zeros
         /\ i = EndAt(o) => Said(short, o, i) = IF o > 2 THEN Eos ELSE short
         /\ i > EndAt(o) => Said(short, o, i) = Pad
<1> HIDE DEF Text, Eos, Zeros, Pad
<1>1. TextLen(o) \in Nat /\ EndAt(o) \in Nat /\ EndAt(o) >= 2 /\ EndAt(o) >= TextLen(o) + 1
  BY Lengths
<1>2. CASE i <= TextLen(o)
  <2>1. ~(i = 1 /\ TextLen(o) = 0) /\ i # EndAt(o) /\ ~(i > EndAt(o))
    BY <1>1, <1>2
  <2> QED BY <1>2, <2>1 DEF Said
<1>3. CASE ~(i <= TextLen(o)) /\ i = 1
  <2>1. i # EndAt(o) /\ ~(i > EndAt(o))
    BY <1>1, <1>3
  <2> QED BY <1>3, <2>1 DEF Said
<1>4. CASE ~(i <= TextLen(o)) /\ i # 1
  <2>1. i = EndAt(o) => ~(i > EndAt(o))
    BY <1>1
  <2> QED BY <1>4, <2>1 DEF Said
<1> QED BY <1>2, <1>3, <1>4

(* It is what the model expects.                                           *)
LEMMA SaidExpected ==
  ASSUME TypeOK, NEW i \in Nat \ {0}
  PROVE  Expected(i) = Said(Short, output, i)
<1>1. output \in Nat /\ async_chunk \in BOOLEAN /\ NumText = TextLen(output) /\ TextLen(output) \in Nat
  BY Lengths DEF TypeOK, NumText, TextLen
<1>2. CASE i <= TextLen(output)
  BY <1>1, <1>2, SaidIs DEF Expected, Short
<1>3. CASE ~(i <= TextLen(output)) /\ i = 1
  <2>1. TextLen(output) = 0
    BY <1>1, <1>3
  <2> QED BY <1>1, <1>3, <2>1, SaidIs DEF Expected, Short
<1>4. CASE ~(i <= TextLen(output)) /\ i = 2
  <2>1. EndAt(output) = 2 /\ (output > 2 <=> FALSE) /\ TextLen(output) <= 1
    BY <1>1, <1>4 DEF TextLen, EndAt
  <2> QED BY <1>1, <1>4, <2>1, SaidIs DEF Expected, Short
<1>5. CASE ~(i <= TextLen(output)) /\ i > 2 /\ i = TextLen(output) + 1
  <2>1. EndAt(output) = i /\ output > 2 /\ TextLen(output) > 1
    BY <1>1, <1>5 DEF TextLen, EndAt
  <2> QED BY <1>1, <1>5, <2>1, SaidIs DEF Expected, Short
<1>6. CASE ~(i <= TextLen(output)) /\ i > 2 /\ i # TextLen(output) + 1
  <2>1. i > EndAt(output)
    BY <1>1, <1>6 DEF TextLen, EndAt
  <2> QED BY <1>1, <1>6, <2>1, SaidIs DEF Expected, Short
<1> QED BY <1>2, <1>3, <1>4, <1>5, <1>6

(* Positions put together.                                                 *)
LEMMA ConcatUpto ==
  ASSUME NEW e \in EmbeddingSeq, NEW s \in EmbeddingSeq, NEW k \in Nat, Upto(e, k),
         \A i \in 1..Len(s) : s[i] = k + i - 1
  PROVE  e \o s \in EmbeddingSeq /\ Upto(e \o s, k + Len(s))
<1>1. Len(e) = k /\ Len(s) \in Nat /\ Len(e \o s) = k + Len(s) /\ e \o s \in EmbeddingSeq
  BY EmbeddingFacts DEF Upto
<1>2. ASSUME NEW i \in 1..k + Len(s) PROVE (e \o s)[i] = i - 1
  <2>1. (e \o s)[i] = IF i <= k THEN e[i] ELSE s[i - k]
    BY <1>1, EmbeddingFacts, ZenonT(40)
  <2>2. CASE i <= k
    BY <2>1, <2>2 DEF Upto
  <2>3. CASE ~(i <= k)
    <3>1. i - k \in 1..Len(s) /\ k + (i - k) - 1 = i - 1
      BY <1>1, <2>3
    <3> QED BY <2>1, <2>3, <3>1
  <2> QED BY <2>2, <2>3
<1> QED BY <1>1, <1>2 DEF Upto

(* No positions.                                                           *)
LEMMA EmptyUpto == \A e : e = <<>> => Upto(e, 0)
BY DEF Upto

(* What is kept back together with what a step computes.                   *)
LEMMA SavedUpto ==
  ASSUME TypeOK, NEW n \in Nat, computed + n <= NumTokens, Upto(saved, computed)
  PROVE  /\ saved \o Positions(n) \in EmbeddingSeq
         /\ Upto(saved \o Positions(n), computed + n)
<1>1. Positions(n) \in EmbeddingSeq /\ Len(Positions(n)) = n
      /\ \A i \in 1..n : Positions(n)[i] = computed + i - 1
  BY PositionsType
<1>2. saved \in EmbeddingSeq /\ computed \in Nat
  BY TalkerAssumption DEF TypeOK
<1> QED BY <1>1, <1>2, ConcatUpto

-----------------------------------------------------------------------------
(* What is spoken.                                                         *)

(* While the thinker runs only text has been spoken, and what it samples   *)
(* only adds to the text.                                                  *)
LEMMA SpeaksMore ==
  ASSUME NEW o \in Nat, NEW short, NEW spk \in Seq(Inputs),
         Speaks(short, o, "running", spk), NEW th
  PROVE  /\ Speaks(short, o, th, spk) /\ Speaks(short, o + 1, th, spk)
         /\ Len(spk) \in Nat /\ Len(spk) <= TextLen(o)
<1> HIDE DEF Text
<1>1. Len(spk) \in Nat /\ TextLen(o) \in Nat /\ TextLen(o + 1) = o /\ TextLen(o) <= o
  BY InputFacts, Lengths
<1>2. \A i \in 1..Len(spk) : i <= TextLen(o)
  BY <1>1 DEF Speaks
<1>3. Len(spk) <= TextLen(o)
  BY <1>1, <1>2
<1>4. ASSUME NEW i \in 1..Len(spk)
      PROVE  i <= TextLen(o + 1) /\ Said(short, o + 1, i) = Said(short, o, i)
  <2>1. i <= TextLen(o) /\ i <= TextLen(o + 1)
    BY <1>1, <1>3
  <2> QED BY <2>1 DEF Said
<1> QED BY <1>1, <1>2, <1>3, <1>4 DEF Speaks

(* One more input, if it is the one to be said.                            *)
LEMMA SpeaksNext ==
  ASSUME NEW o \in Nat, NEW short, NEW spk \in Seq(Inputs), NEW th,
         Speaks(short, o, th, spk), NEW x \in Inputs, x = Said(short, o, Len(spk) + 1),
         Len(spk) + 1 > TextLen(o) => th = "finished"
  PROVE  /\ Speaks(short, o, th, Append(spk, x))
         /\ Len(spk) = 0 => Speaks(short, o, th, <<x>>)
<1>1. Len(spk) \in Nat /\ Len(Append(spk, x)) = Len(spk) + 1 /\ Append(spk, x)[Len(spk) + 1] = x
      /\ \A i \in 1..Len(spk) : Append(spk, x)[i] = spk[i]
  BY InputFacts
<1>2. Speaks(short, o, th, Append(spk, x))
  <2> SUFFICES ASSUME NEW i \in 1..Len(spk) + 1
               PROVE  /\ Append(spk, x)[i] = Said(short, o, i)
                      /\ i > TextLen(o) => th = "finished"
    BY <1>1 DEF Speaks
  <2>1. CASE i \in 1..Len(spk)
    BY <1>1, <2>1 DEF Speaks
  <2>2. CASE i = Len(spk) + 1
    BY <1>1, <2>2
  <2> QED BY <1>1, <2>1, <2>2
<1>3. ASSUME Len(spk) = 0 PROVE Speaks(short, o, th, <<x>>)
  <2>1. Len(<<x>>) = 1 /\ <<x>>[1] = x
    OBVIOUS
  <2>2. \A i \in 1..1 : i = Len(spk) + 1
    BY <1>3
  <2> QED BY <2>1, <2>2 DEF Speaks
<1> QED BY <1>2, <1>3

-----------------------------------------------------------------------------
(* Without chunks.                                                         *)

(* While the thinker runs nothing was sent, and the talker waits.          *)
LEMMA FullStart ==
  ASSUME NEW o \in Nat, NEW comp \in Nat, NEW put \in Nat, NEW sav, NEW chs \in Seq(ChunkType),
         NEW pay, NEW fin \in BOOLEAN, LinkFull(o, "running", comp, put, sav, chs, pay, fin)
  PROVE  put = 0 /\ Len(chs) = 0 /\ Upto(sav, comp)
BY DEF LinkFull

(* The talker does not notice that the thinker samples another token.      *)
LEMMA FullQuiet ==
  ASSUME NEW o \in Nat, NEW comp \in Nat, NEW put \in Nat, NEW sav, NEW chs \in Seq(ChunkType),
         NEW pay, NEW fin \in BOOLEAN, LinkFull(o, "running", comp, put, sav, chs, pay, fin),
         NEW tk, NEW inf \in InfoType, NEW len \in Nat, NEW got, got = put - Len(chs),
         TalkerFull(o, got, fin, tk, inf, len)
  PROVE  TalkerFull(o + 1, got, fin, tk, inf, len)
<1>1. put = 0 /\ Len(chs) = 0
  BY DEF LinkFull
<1>2. got = 0
  BY <1>1
<1>3. len = 0
  BY <1>2 DEF TalkerFull
<1> QED BY <1>2, <1>3 DEF TalkerFull

(* The embeddings of a step are added to those kept back.                  *)
LEMMA FullKeep ==
  ASSUME NEW o \in Nat, NEW comp, NEW put \in Nat, NEW sav, NEW chs \in Seq(ChunkType),
         NEW pay, NEW fin \in BOOLEAN, LinkFull(o, "running", comp, put, sav, chs, pay, fin),
         NEW q \in Nat, NEW comp2 \in Nat, NEW sav2, comp2 < PromptLen + q, Upto(sav2, comp2)
  PROVE  LinkFull(q, "running", comp2, put, sav2, chs, pay, fin)
BY DEF LinkFull

(* The last step sends them all.                                           *)
LEMMA FullSend ==
  ASSUME NEW o \in Nat, NEW comp, NEW put \in Nat, NEW sav, NEW chs \in Seq(ChunkType),
         NEW pay, NEW fin \in BOOLEAN, LinkFull(o, "running", comp, put, sav, chs, pay, fin),
         NEW k, k = PromptLen + o, NEW c \in ChunkType, Upto(c.embeddings, k), c.sequences = k + 1,
         c.finished = TRUE, NEW q, q = o + 1, NEW p, p = put + 1
  PROVE  LinkFull(q, "finished", k, p, <<>>, Append(chs, c), pay, fin)
<1>1. put = 0 /\ Len(chs) = 0 /\ put = Len(chs)
  BY DEF LinkFull
<1>2. Len(Append(chs, c)) = 1 /\ Append(chs, c)[1] = c
  BY <1>1, ChunkFacts
<1>3. TextLen(q) = o /\ PromptLen \in Nat /\ q > 0 /\ p = 1
  BY <1>1, Lengths
<1>4. IsWhole(c.embeddings, c.sequences, q)
  BY <1>3 DEF IsWhole
<1>5. fin = FALSE /\ pay.embeddings = <<>> /\ pay.sequences = 0
  BY <1>1 DEF LinkFull
<1> QED BY <1>1, <1>2, <1>3, <1>4, <1>5 DEF LinkFull

(* The talker receives the one thing sent.                                 *)
LEMMA FullReceive ==
  ASSUME NEW o \in Nat, NEW th, NEW comp, NEW put \in Nat, NEW sav, NEW chs \in Seq(ChunkType),
         NEW pay \in [embeddings : EmbeddingSeq, sequences : Nat],
         NEW fin \in BOOLEAN, LinkFull(o, th, comp, put, sav, chs, pay, fin), chs # <<>>,
         NEW inf \in InfoType, NEW len \in Nat, TalkerFull(o, put - Len(chs), fin, "waiting", inf, len),
         NEW pay2, pay2.embeddings = pay.embeddings \o Head(chs).embeddings,
         pay2.sequences = pay.sequences + Head(chs).sequences
  PROVE  /\ LinkFull(o, th, comp, put, sav, Tail(chs), pay2, Head(chs).finished)
         /\ TalkerFull(o, put - Len(Tail(chs)), Head(chs).finished, "ready", inf, len)
<1>1. Len(chs) \in Nat /\ Len(chs) >= 1 /\ Head(chs) = chs[1] /\ Len(Tail(chs)) = Len(chs) - 1
      /\ Head(chs) \in ChunkType
  BY ChunkFacts
<1>2. put = 1 /\ Len(chs) = 1 /\ th = "finished" /\ o > 0 /\ Len(Tail(chs)) = 0
  <2>1. /\ put = 0 => Len(chs) = 0
        /\ put > 0 => put = 1 /\ th = "finished" /\ o > 0 /\ Len(chs) <= 1
    BY DEF LinkFull
  <2> QED BY <1>1, <2>1
<1>3. pay.embeddings = <<>> /\ pay.sequences = 0 /\ fin = FALSE
      /\ IsWhole(chs[1].embeddings, chs[1].sequences, o) /\ chs[1].finished = TRUE
  BY <1>2 DEF LinkFull
<1>4. pay2.embeddings = chs[1].embeddings /\ pay2.sequences = chs[1].sequences
  <2>1. chs[1].embeddings \in EmbeddingSeq /\ chs[1].sequences \in Nat
    BY <1>1 DEF ChunkType
  <2>2. <<>> \o chs[1].embeddings = chs[1].embeddings
    BY <2>1, ConcatEmptySeq DEF EmbeddingSeq
  <2> QED BY <1>1, <1>3, <2>1, <2>2
<1>5. len = 0
  BY <1>2 DEF TalkerFull
<1>6. LinkFull(o, th, comp, put, sav, Tail(chs), pay2, Head(chs).finished)
  <2>1. put # 0 /\ put # Len(Tail(chs)) /\ Len(Tail(chs)) # 1 /\ Len(Tail(chs)) <= 1
    <3>1. 1 # 0 /\ 0 # 1 /\ 0 <= 1
      BY ONLY TRUE
    <3> QED BY <1>2, <3>1
  <2>2. IsWhole(pay2.embeddings, pay2.sequences, o) /\ Head(chs).finished = TRUE
    BY <1>1, <1>3, <1>4
  <2> QED BY <1>2, <2>1, <2>2 DEF LinkFull
<1>7. TalkerFull(o, put - Len(Tail(chs)), Head(chs).finished, "ready", inf, len)
  BY <1>2, <1>5 DEF TalkerFull
<1> QED BY <1>6, <1>7

(* The text the talker takes from it: the first for its prompt, the others *)
(* for its queue.                                                          *)
LEMMA FullPrefill ==
  ASSUME NEW o \in Nat \ {0}, NEW text \in EmbeddingSeq, Len(text) = TextLen(o),
         \A i \in 1..Len(text) : text[i] = PromptLen + i - 1
  PROVE  /\ FirstText(text) = Said(Zeros, o, 1)
         /\ 1 + Len(Trailing(text)) >= EndAt(o)
         /\ \A j \in 1..Len(Trailing(text)) : Trailing(text)[j] = Said(Zeros, o, 1 + j)
<1> HIDE DEF Text, Eos, Zeros, Pad
<1>1. TextLen(o) = o - 1 /\ PromptLen \in Nat
  BY Lengths
<1>2. FirstText(text) = Said(Zeros, o, 1)
  <2>1. CASE o = 1
    <3>1. text = <<>>
      BY <1>1, <2>1, EmbeddingFacts, EmptySeq DEF EmbeddingSeq
    <3> QED BY <1>1, <2>1, <3>1, SaidIs DEF FirstText
  <2>2. CASE o # 1
    <3>1. text # <<>> /\ text[1] = PromptLen + 1 - 1 /\ 1 <= TextLen(o)
      BY <1>1, <2>2
    <3>2. Said(Zeros, o, 1) = Text(PromptLen + 1 - 1)
      BY <3>1, SaidIs
    <3> QED BY <3>1, <3>2 DEF FirstText
  <2> QED BY <2>1, <2>2
<1>3. CASE o <= 2
  <2>1. Trailing(text) = <<Zeros>> /\ EndAt(o) = 2
    BY <1>1, <1>3 DEF Trailing, EndAt
  <2>2. Said(Zeros, o, 2) = Zeros
    BY <1>3, <2>1, SaidIs
  <2>3. Len(Trailing(text)) = 1 /\ Trailing(text)[1] = Zeros
    BY <2>1
  <2> QED BY <1>2, <2>1, <2>2, <2>3
<1>4. CASE o > 2
  <2> DEFINE rest == Spoken(Tail(text))
  <2>1. Trailing(text) = Append(rest, Eos) /\ EndAt(o) = o /\ text # <<>>
    BY <1>1, <1>4 DEF Trailing, EndAt
  <2>2. Tail(text) \in EmbeddingSeq /\ Len(Tail(text)) = o - 2 /\ DOMAIN Tail(text) = 1..o - 2
        /\ \A i \in 1..o - 2 : Tail(text)[i] = text[i + 1]
    BY <1>1, <2>1, EmbeddingFacts
  <2>3. rest \in Seq(Inputs) /\ Len(rest) = o - 2
        /\ \A i \in 1..o - 2 : rest[i] = Text(PromptLen + i)
    <3>1. \A i \in 1..o - 2 : Text(Tail(text)[i]) = Text(PromptLen + i)
      <4>1. \A i \in 1..o - 2 : i + 1 \in 1..Len(text) /\ PromptLen + (i + 1) - 1 = PromptLen + i
        BY <1>1, <1>4
      <4>2. \A i \in 1..o - 2 : text[i + 1] = PromptLen + i
        BY <4>1
      <4> QED BY <2>2, <4>2
    <3> QED BY <2>2, <3>1, SpokenType
  <2> HIDE DEF rest
  <2>4. Eos \in Inputs
    BY DEF Inputs
  <2>5. Len(Trailing(text)) = o - 1 /\ Trailing(text)[o - 1] = Eos
        /\ \A i \in 1..o - 2 : Trailing(text)[i] = Text(PromptLen + i)
    <3>1. o - 2 + 1 = o - 1
      BY <1>4
    <3> QED BY <2>1, <2>3, <2>4, <3>1, InputFacts
  <2>6. \A j \in 1..o - 2 : Said(Zeros, o, 1 + j) = Text(PromptLen + j)
    <3> SUFFICES ASSUME NEW j \in 1..o - 2 PROVE Said(Zeros, o, 1 + j) = Text(PromptLen + j)
      OBVIOUS
    <3>1. 1 + j \in Nat \ {0} /\ 1 + j <= TextLen(o) /\ PromptLen + (1 + j) - 1 = PromptLen + j
      BY <1>1, <1>4
    <3>2. Said(Zeros, o, 1 + j) = Text(PromptLen + (1 + j) - 1)
      BY <3>1, SaidIs
    <3> QED BY <3>1, <3>2
  <2>7. Said(Zeros, o, 1 + (o - 1)) = Eos
    <3>1. 1 + (o - 1) = o /\ o \in Nat \ {0}
      BY <1>4
    <3> QED BY <1>4, <2>1, <3>1, SaidIs
  <2>8. \A j \in 1..Len(Trailing(text)) : j \in 1..o - 2 \/ j = o - 1
    BY <1>4, <2>5
  <2>9. 1 + Len(Trailing(text)) >= EndAt(o)
    BY <1>4, <2>1, <2>5
  <2> QED BY <1>2, <2>5, <2>6, <2>7, <2>8, <2>9
<1> QED BY <1>3, <1>4

(* After the first step the queue holds the rest of the text.              *)
LEMMA FullPrefilled ==
  ASSUME NEW o \in Nat, NEW tk \in {"unready", "stopped"}, NEW inf, inf.prefilled = TRUE,
         1 + Len(inf.trailing) >= EndAt(o),
         \A j \in 1..Len(inf.trailing) : inf.trailing[j] = Said(Zeros, o, 1 + j)
  PROVE  TalkerFull(o, 1, TRUE, tk, inf, 1)
<1>1. 1 > 0 /\ tk # "waiting" /\ tk # "ready"
  OBVIOUS
<1> QED BY <1>1 DEF TalkerFull

(* The queue moves on; behind its end there is tts_pad.                    *)
LEMMA FullDecode ==
  ASSUME NEW o \in Nat, NEW tk0, NEW tk \in {"unready", "stopped"}, NEW inf \in InfoType, NEW len \in Nat,
         len > 0, TalkerFull(o, 1, TRUE, tk0, inf, len), inf.trailing # <<>>,
         NEW inf2, inf2.prefilled = TRUE,
         inf2.trailing = IF Len(inf.trailing) > 1 THEN Tail(inf.trailing) ELSE <<Pad>>
  PROVE  /\ Head(inf.trailing) = Said(Zeros, o, len + 1)
         /\ TalkerFull(o, 1, TRUE, tk, inf2, len + 1)
<1> HIDE DEF Text, Eos, Zeros, Pad
<1> DEFINE q == inf.trailing
<1>1. q \in Seq(Inputs) /\ len + Len(q) >= EndAt(o) /\ EndAt(o) \in Nat
      /\ \A j \in 1..Len(q) : q[j] = Said(Zeros, o, len + j)
  BY Lengths DEF TalkerFull, InfoType
<1> HIDE DEF q
<1>2. q # <<>>
  BY DEF q
<1>3. Head(q) = q[1] /\ Len(q) >= 1 /\ Len(q) \in Nat /\ Len(Tail(q)) = Len(q) - 1
      /\ \A i \in 1..Len(Tail(q)) : Tail(q)[i] = q[i + 1]
  BY <1>1, <1>2, InputFacts
<1>4. Head(q) = Said(Zeros, o, len + 1)
  BY <1>1, <1>3
<1>5. CASE Len(q) > 1
  <2>1. inf2.trailing = Tail(q)
    BY <1>5 DEF q
  <2>2. (len + 1) + Len(Tail(q)) >= EndAt(o)
    <3>1. len + Len(q) >= EndAt(o) /\ Len(Tail(q)) = Len(q) - 1 /\ Len(q) \in Nat /\ EndAt(o) \in Nat
      BY <1>1, <1>3
    <3>2. \A m, e \in Nat : len + m >= e => (len + 1) + (m - 1) >= e
      BY ONLY len \in Nat
    <3> QED BY <3>1, <3>2
  <2>3. \A j \in 1..Len(Tail(q)) : j + 1 \in 1..Len(q) /\ len + (j + 1) = (len + 1) + j
    BY <1>3
  <2>4. \A j \in 1..Len(Tail(q)) : Tail(q)[j] = Said(Zeros, o, (len + 1) + j)
    BY <1>1, <1>3, <2>3
  <2>5. TalkerFull(o, 1, TRUE, tk, inf2, len + 1)
    <3>1. len + 1 > 0 /\ tk # "waiting" /\ tk # "ready"
      OBVIOUS
    <3> QED BY <2>1, <2>2, <2>4, <3>1 DEF TalkerFull
  <2> QED BY <1>4, <2>5 DEF q
<1>6. CASE ~(Len(q) > 1)
  <2>1. inf2.trailing = <<Pad>>
    BY <1>6 DEF q
  <2>2. (len + 1) + 1 > EndAt(o) /\ (len + 1) + 1 \in Nat \ {0}
    BY <1>1, <1>3, <1>6
  <2>3. Said(Zeros, o, (len + 1) + 1) = Pad
    BY <2>2, SaidIs
  <2>4. Len(inf2.trailing) = 1 /\ inf2.trailing[1] = Pad
    <3>1. Len(<<Pad>>) = 1 /\ <<Pad>>[1] = Pad
      OBVIOUS
    <3> QED BY <2>1, <3>1
  <2>5. TalkerFull(o, 1, TRUE, tk, inf2, len + 1)
    <3>1. len + 1 > 0 /\ tk # "waiting" /\ tk # "ready" /\ (len + 1) + 1 >= EndAt(o)
      BY <1>1, <2>2
    <3>2. \A j \in 1..1 : j = 1
      OBVIOUS
    <3> QED BY <2>3, <2>4, <3>1, <3>2 DEF TalkerFull
  <2> QED BY <1>4, <2>5 DEF q
<1> QED BY <1>5, <1>6

-----------------------------------------------------------------------------
(* With chunks.                                                            *)

(* The talker does not notice that the thinker goes on.                    *)
LEMMA AsyncQuiet ==
  ASSUME NEW o \in Nat, NEW got, NEW emb, NEW fin, NEW tk, NEW inf \in InfoType, NEW len \in Nat,
         TalkerAsync(o, "running", got, emb, fin, tk, inf, len), len <= TextLen(o),
         NEW th
  PROVE  TalkerAsync(o + 1, th, got, emb, fin, tk, inf, len)
<1>1. TextLen(o) <= o /\ TextLen(o) \in Nat /\ o < EndAt(o + 1) /\ EndAt(o + 1) \in Nat
  BY DEF TextLen, EndAt
<1>2. ~(len >= EndAt(o + 1))
  BY <1>1
<1>3. inf.finished_flag = FALSE
  BY DEF TalkerAsync
<1> QED BY <1>2, <1>3 DEF TalkerAsync

(* The first step is kept back.                                            *)
LEMMA AsyncKeep ==
  ASSUME NEW comp \in Nat, NEW put \in Nat, NEW sav, ThinkerAsync(0, "running", comp, put, sav),
         NEW chs \in Seq(ChunkType), NEW pay, NEW fin \in BOOLEAN,
         LinkAsync(0, "running", put, chs, pay, fin),
         NEW sav2, Upto(sav2, PromptLen)
  PROVE  /\ ThinkerAsync(1, "running", PromptLen, put, sav2)
         /\ LinkAsync(1, "running", put, chs, pay, fin)
<1>1. put = 0 /\ Len(chs) = 0
  <2>1. put = 0
    BY DEF ThinkerAsync
  <2>2. Len(chs) <= put
    BY DEF LinkAsync
  <2>3. Len(chs) \in Nat
    BY ChunkFacts
  <2> QED BY <2>1, <2>2, <2>3
<1>2. PromptLen \in Nat /\ PromptLen + 1 - 1 = PromptLen
  BY TalkerAssumption
<1>3. 1 # 0 /\ ~(0 > 0) /\ 0 <= 0 /\ ~(0 = 0 + 1)
  OBVIOUS
<1>4. ThinkerAsync(1, "running", PromptLen, put, sav2)
  BY <1>1, <1>2, <1>3 DEF ThinkerAsync
<1>5. \A i \in 1..Len(chs) : FALSE
  BY <1>1
<1>6. LinkAsync(1, "running", put, chs, pay, fin)
  BY <1>1, <1>3, <1>5 DEF LinkAsync
<1> QED BY <1>4, <1>6

(* A step of the thinker that sends a chunk: the thinker.                  *)
LEMMA AsyncSendThinker ==
  ASSUME NEW o \in Nat, NEW put \in Nat, put = TextLen(o), NEW th, o = 0 => th = "finished"
  PROVE  ThinkerAsync(o + 1, th, PromptLen + o, put + 1, <<>>)
<1>1. PromptLen \in Nat /\ PromptLen + o = PromptLen + (o + 1) - 1
  BY TalkerAssumption
<1>2. o + 1 # 0 /\ put + 1 # 0 /\ (o + 1 = 1 <=> o = 0)
  OBVIOUS
<1>3. put + 1 = IF o + 1 = 1 THEN 1 ELSE (o + 1) - 1
  BY DEF TextLen
<1> QED BY <1>1, <1>2, <1>3 DEF ThinkerAsync

(* The chunk itself, behind those on their way.                            *)
LEMMA AsyncSendLink ==
  ASSUME NEW o \in Nat, NEW put \in Nat, put = TextLen(o), NEW chs \in Seq(ChunkType),
         NEW pay, NEW fin \in BOOLEAN, LinkAsync(o, "running", put, chs, pay, fin),
         NEW th \in {"running", "finished"},
         NEW c \in ChunkType, c.finished = (th = "finished"), IsChunk(c, put, o + 1)
  PROVE  /\ put + 1 - Len(Append(chs, c)) = put - Len(chs)
         /\ LinkAsync(o + 1, th, put + 1, Append(chs, c), pay, fin)
<1> DEFINE new == Append(chs, c)
<1>1. Len(chs) \in Nat /\ Len(new) = Len(chs) + 1 /\ new[Len(chs) + 1] = c
      /\ \A i \in 1..Len(chs) : new[i] = chs[i]
  BY ChunkFacts
<1> HIDE DEF new
<1>2. Len(chs) <= put /\ fin = FALSE /\ \A i \in 1..Len(chs) : chs[i].finished = FALSE
  BY DEF LinkAsync
<1>3. \A k \in Nat : k <= put => /\ k + 1 <= put + 1 /\ (put + 1) - (k + 1) = put - k
                                 /\ (put + 1 = k + 1 <=> put = k)
                                 /\ (put + 1 = (k + 1) + 1 <=> put = k + 1)
                                 /\ (put + 1 > k + 1 <=> put > k)
                                 /\ k + 1 # 0
  OBVIOUS
<1>4. (put + 1) - Len(new) = put - Len(chs) /\ Len(new) <= put + 1
  BY <1>1, <1>2, <1>3
<1>5. put > 0 => FirstLen(o + 1) = FirstLen(o)
  BY DEF TextLen, FirstLen
<1>6. ASSUME NEW i \in 1..Len(new)
      PROVE  /\ IsChunk(new[i], (put - Len(chs)) + i - 1, o + 1)
             /\ new[i].finished = (th = "finished" /\ i = Len(new))
  <2>1. CASE i = Len(chs) + 1
    <3>1. (put - Len(chs)) + i - 1 = put
      BY ONLY <1>1, <2>1, put \in Nat
    <3> QED BY <1>1, <2>1, <3>1
  <2>2. CASE i # Len(chs) + 1
    <3>1. i \in 1..Len(chs) /\ i # Len(new)
      BY <1>1, <2>2
    <3>2. put > 0
      BY ONLY <1>1, <1>2, <3>1, put \in Nat
    <3>3. new[i] = chs[i] /\ IsChunk(chs[i], put - Len(chs) + i - 1, o)
      BY <1>1, <3>1 DEF LinkAsync
    <3>4. IsChunk(chs[i], put - Len(chs) + i - 1, o + 1)
      BY <1>5, <3>2, <3>3 DEF IsChunk
    <3>5. chs[i].finished = FALSE
      BY <1>2, <3>1
    <3> QED BY <3>1, <3>3, <3>4, <3>5
  <2> QED BY <2>1, <2>2
<1>7. /\ put + 1 = Len(new) => pay.embeddings = <<>> /\ pay.sequences = 0
      /\ put + 1 > Len(new) => Upto(pay.embeddings, FirstLen(o + 1) + put - Len(chs) - 1)
      /\ put + 1 = Len(new) + 1 => pay.sequences >= FirstLen(o + 1)
  <2>1. /\ put = Len(chs) => pay.embeddings = <<>> /\ pay.sequences = 0
        /\ put > Len(chs) => Upto(pay.embeddings, FirstLen(o) + put - Len(chs) - 1)
        /\ put = Len(chs) + 1 => pay.sequences >= FirstLen(o)
    BY DEF LinkAsync
  <2>2. /\ (put + 1 = Len(new) <=> put = Len(chs))
        /\ (put + 1 = Len(new) + 1 <=> put = Len(chs) + 1)
        /\ (put + 1 > Len(new) <=> put > Len(chs))
    BY <1>1, <1>2, <1>3
  <2>3. (put > Len(chs) \/ put = Len(chs) + 1) => put > 0
    BY ONLY <1>1, put \in Nat
  <2> QED BY <1>5, <2>1, <2>2, <2>3
<1>8. FirstLen(o + 1) + (put + 1) - Len(new) - 1 = FirstLen(o + 1) + put - Len(chs) - 1
  <2>1. FirstLen(o + 1) \in Nat
    BY Lengths
  <2>2. \A f, k \in Nat : f + (put + 1) - (k + 1) - 1 = f + put - k - 1
    OBVIOUS
  <2> QED BY <1>1, <2>1, <2>2
<1>9. fin = (th = "finished" /\ Len(new) = 0)
  BY <1>1, <1>2, <1>3
<1>10. LinkAsync(o + 1, th, put + 1, new, pay, fin)
  BY <1>4, <1>6, <1>7, <1>8, <1>9 DEF LinkAsync
<1> QED BY <1>4, <1>10 DEF new

(* A chunk is received: the next of the embeddings.                        *)
LEMMA AsyncReceive ==
  ASSUME NEW o \in Nat, NEW th, NEW comp, NEW put \in Nat, NEW sav, ThinkerAsync(o, th, comp, put, sav),
         NEW chs \in Seq(ChunkType), chs # <<>>, NEW fin \in BOOLEAN,
         NEW pay \in [embeddings : EmbeddingSeq, sequences : Nat],
         LinkAsync(o, th, put, chs, pay, fin), NEW inf \in InfoType, NEW len \in Nat,
         TalkerAsync(o, th, put - Len(chs), pay.embeddings, fin, "waiting", inf, len),
         NEW pay2, pay2.embeddings = pay.embeddings \o Head(chs).embeddings,
         pay2.sequences = pay.sequences + Head(chs).sequences
  PROVE  /\ LinkAsync(o, th, put, Tail(chs), pay2, Head(chs).finished)
         /\ TalkerAsync(o, th, put - Len(Tail(chs)), pay2.embeddings, Head(chs).finished, "ready", inf, len)
<1> DEFINE rest == Tail(chs)
           c == Head(chs)
           got == put - Len(chs)
<1>1. /\ Len(chs) \in Nat /\ Len(chs) >= 1 /\ c = chs[1] /\ Len(rest) = Len(chs) - 1 /\ c \in ChunkType
      /\ \A i \in 1..Len(rest) : rest[i] = chs[i + 1]
  BY ChunkFacts
<1>2. Len(chs) <= put
  BY DEF LinkAsync
<1>3. c.embeddings \in EmbeddingSeq /\ c.sequences \in Nat /\ pay.embeddings \in EmbeddingSeq
      /\ pay.sequences \in Nat
  BY <1>1 DEF ChunkType
<1>4. got \in Nat /\ Len(rest) \in Nat /\ got + 1 = put - Len(rest) /\ Len(rest) <= put
      /\ got < put /\ put > 0
  <2>1. Len(chs) \in Nat /\ Len(chs) >= 1 /\ Len(rest) = Len(chs) - 1
    BY <1>1
  <2>2. \A k \in Nat : k >= 1 /\ k <= put =>
          /\ put - k \in Nat /\ k - 1 \in Nat /\ (put - k) + 1 = put - (k - 1) /\ k - 1 <= put
          /\ put - k < put /\ put > 0
    BY ONLY put \in Nat
  <2> QED BY <1>2, <2>1, <2>2 DEF got
<1>5. /\ put > 0 => put = (IF o = 1 THEN 1 ELSE o - 1)
  BY DEF ThinkerAsync
<1>6. got > 0 => FirstLen(o) = PromptLen + 1
  <2>1. got > 0 => o # 1
    BY ONLY <1>4, <1>5, put \in Nat
  <2> QED BY <2>1 DEF FirstLen
<1>7. IsChunk(c, got, o)
  <2>1. IsChunk(chs[1], put - Len(chs) + 1 - 1, o)
    <3>1. 1 \in 1..Len(chs)
      BY ONLY <1>1
    <3> QED BY <3>1 DEF LinkAsync
  <2>2. put - Len(chs) + 1 - 1 = got
    BY ONLY <1>1, put \in Nat DEF got
  <2> QED BY <1>1, <2>1, <2>2
<1>8. /\ put = Len(chs) => pay.embeddings = <<>> /\ pay.sequences = 0
      /\ put > Len(chs) => Upto(pay.embeddings, FirstLen(o) + put - Len(chs) - 1)
  BY DEF LinkAsync
<1>9. got > 0 => Upto(pay.embeddings, PromptLen + got)
  <2>1. got > 0 => put > Len(chs)
    BY ONLY <1>1, put \in Nat DEF got
  <2>2. got > 0 => FirstLen(o) + put - Len(chs) - 1 = PromptLen + got
    BY ONLY <1>1, <1>6, put \in Nat, TalkerAssumption DEF got
  <2> QED BY <1>8, <2>1, <2>2
<1>10. got = 0 => put = Len(chs)
  BY ONLY <1>1, put \in Nat DEF got
<1> HIDE DEF rest, c, got
<1>11. Upto(pay2.embeddings, FirstLen(o) + got)
  <2>1. CASE got = 0
    <3>1. pay2.embeddings = c.embeddings
      <4>1. pay.embeddings = <<>>
        BY <1>8, <1>10, <2>1
      <4>2. <<>> \o c.embeddings = c.embeddings
        BY <1>3, ConcatEmptySeq DEF EmbeddingSeq
      <4> QED BY <4>1, <4>2 DEF c
    <3>2. Upto(c.embeddings, FirstLen(o))
      BY <1>7, <2>1 DEF IsChunk
    <3>3. FirstLen(o) + got = FirstLen(o)
      BY <2>1, Lengths
    <3> QED BY <3>1, <3>2, <3>3
  <2>2. CASE got > 0
    <3>1. c.embeddings = <<PromptLen + got>>
      BY <1>7, <2>2 DEF IsChunk
    <3>2. Len(c.embeddings) = 1 /\ \A i \in 1..1 : c.embeddings[i] = PromptLen + got + i - 1
      <4>1. Len(<<PromptLen + got>>) = 1 /\ <<PromptLen + got>>[1] = PromptLen + got
        OBVIOUS
      <4>2. PromptLen + got + 1 - 1 = PromptLen + got
        BY ONLY <1>4, TalkerAssumption
      <4> QED BY <3>1, <4>1, <4>2
    <3>3. PromptLen + got \in Nat /\ PromptLen + got + 1 = FirstLen(o) + got
      BY ONLY <1>4, <1>6, <2>2, TalkerAssumption
    <3>4. Upto(pay.embeddings \o c.embeddings, PromptLen + got + Len(c.embeddings))
      BY <1>3, <1>9, <2>2, <3>2, <3>3, ConcatUpto
    <3>5. pay2.embeddings = pay.embeddings \o c.embeddings
      BY DEF c
    <3> QED BY <3>2, <3>3, <3>4, <3>5
  <2> QED BY <1>4, <2>1, <2>2
<1>12. got = 0 => pay2.sequences >= FirstLen(o)
  <2>1. got = 0 => pay.sequences = 0 /\ c.sequences >= FirstLen(o)
    BY <1>7, <1>8, <1>10 DEF IsChunk
  <2>2. pay2.sequences = pay.sequences + c.sequences
    BY DEF c
  <2>3. 0 + c.sequences = c.sequences
    BY <1>3
  <2> QED BY <2>1, <2>2, <2>3
<1>13. ASSUME NEW i \in 1..Len(rest)
       PROVE  /\ IsChunk(rest[i], put - Len(rest) + i - 1, o)
              /\ rest[i].finished = (th = "finished" /\ i = Len(rest))
  <2>1. i + 1 \in 1..Len(chs) /\ (i + 1 = Len(chs) <=> i = Len(rest))
        /\ put - Len(chs) + (i + 1) - 1 = put - Len(rest) + i - 1
    BY ONLY <1>1, i \in 1..Len(rest), put \in Nat
  <2>2. IsChunk(chs[i + 1], put - Len(chs) + (i + 1) - 1, o)
        /\ chs[i + 1].finished = (th = "finished" /\ i + 1 = Len(chs))
    BY <2>1 DEF LinkAsync
  <2> QED BY <1>1, <2>1, <2>2
<1>14. c.finished = (th = "finished" /\ Len(rest) = 0)
  <2>1. (1 = Len(chs) <=> Len(rest) = 0) /\ 1 \in 1..Len(chs)
    BY ONLY <1>1
  <2>2. chs[1].finished = (th = "finished" /\ 1 = Len(chs))
    BY <2>1 DEF LinkAsync
  <2> QED BY <1>1, <2>1, <2>2
<1>15. LinkAsync(o, th, put, rest, pay2, c.finished)
  <2>1. put # Len(rest) /\ (put = Len(rest) + 1 <=> got = 0)
    BY ONLY <1>4, put \in Nat
  <2>2. FirstLen(o) + put - Len(rest) - 1 = FirstLen(o) + got
    <3>1. FirstLen(o) \in Nat
      BY Lengths
    <3> QED BY ONLY <1>4, <3>1, put \in Nat
  <2> QED BY <1>4, <1>11, <1>12, <1>13, <1>14, <2>1, <2>2 DEF LinkAsync
<1>16. TalkerAsync(o, th, put - Len(rest), pay2.embeddings, c.finished, "ready", inf, len)
  <2>1. len = got
    BY DEF TalkerAsync, got
  <2>2. put - Len(rest) = len + 1
    BY <1>4, <2>1
  <2> QED BY <2>2 DEF TalkerAsync
<1> QED BY <1>15, <1>16 DEF rest, c

(* The first step takes the first token of the text, if there is one.      *)
LEMMA AsyncPrefill ==
  ASSUME NEW o \in Nat, o >= 1, NEW th, o = 1 => th = "finished", NEW short,
         NEW text \in EmbeddingSeq, Len(text) = FirstLen(o) - PromptLen,
         \A i \in 1..Len(text) : text[i] = PromptLen + i - 1
  PROVE  FirstText(text) = Said(short, o, 1) /\ (1 > TextLen(o) => th = "finished")
<1> HIDE DEF Text, Eos, Zeros, Pad
<1>1. CASE o = 1
  <2>1. TextLen(1) = 0 /\ FirstLen(1) - PromptLen = 0
    BY TalkerAssumption DEF TextLen, FirstLen
  <2>2. text = <<>>
    BY <1>1, <2>1, EmptySeq DEF EmbeddingSeq
  <2>3. Said(short, 1, 1) = Zeros
    BY <2>1, SaidIs
  <2> QED BY <1>1, <2>2, <2>3 DEF FirstText
<1>2. CASE o # 1
  <2>1. TextLen(o) = o - 1 /\ 1 <= TextLen(o) /\ ~(1 > TextLen(o)) /\ FirstLen(o) - PromptLen = 1
    BY <1>2, TalkerAssumption DEF TextLen, FirstLen
  <2>2. Len(text) = 1
    BY <2>1
  <2>3. text # <<>> /\ text[1] = PromptLen + 1 - 1
    <3>1. 1 \in 1..1 /\ 0 # 1 /\ Len(<<>>) = 0
      OBVIOUS
    <3> QED BY <2>2, <3>1
  <2>4. Said(short, o, 1) = Text(PromptLen + 1 - 1)
    BY <2>1, SaidIs
  <2> QED BY <2>1, <2>3, <2>4 DEF FirstText
<1> QED BY <1>1, <1>2

(* What is known when a decode step, after len others, takes its input     *)
(* from the embeddings e of got chunks.                                    *)
Decodes(o, th, got, len, e, flag) ==
  /\ o \in Nat /\ o >= 1 /\ (o = 1 => th = "finished")
  /\ got \in Nat /\ got >= 1 /\ len \in Nat /\ len >= 1
  /\ Len(e) = FirstLen(o) + got - 1 /\ \A i \in 1..FirstLen(o) + got - 1 : e[i] = i - 1
  /\ got <= (IF o = 1 THEN 1 ELSE o - 1)
  /\ got = len + 1 \/ (len >= got /\ got = (IF o = 1 THEN 1 ELSE o - 1) /\ th = "finished")
  /\ flag = (th = "finished" /\ len >= EndAt(o))

(* It takes the embedding of its own text token, or what comes behind the  *)
(* text.                                                                   *)
LEMMA AsyncDecode ==
  ASSUME NEW o, NEW th, NEW got, NEW len, NEW e, NEW flag, Decodes(o, th, got, len, e, flag)
  PROVE  /\ (IF PromptLen + len < Len(e) THEN Text(e[PromptLen + len + 1]) ELSE IF flag THEN Pad ELSE Eos)
              = Said(Eos, o, len + 1)
         /\ len + 1 > TextLen(o) => th = "finished"
         /\ (flag \/ PromptLen + len >= Len(e)) = (th = "finished" /\ len + 1 >= EndAt(o))
<1> HIDE DEF Text, Eos, Zeros, Pad
<1>0. PromptLen \in Nat
  BY TalkerAssumption
<1>a. /\ o \in Nat /\ o >= 1 /\ (o = 1 => th = "finished")
      /\ got \in Nat /\ got >= 1 /\ len \in Nat /\ len >= 1
      /\ Len(e) = FirstLen(o) + got - 1 /\ \A i \in 1..FirstLen(o) + got - 1 : e[i] = i - 1
      /\ got <= (IF o = 1 THEN 1 ELSE o - 1)
      /\ got = len + 1 \/ (len >= got /\ got = (IF o = 1 THEN 1 ELSE o - 1) /\ th = "finished")
      /\ flag = (th = "finished" /\ len >= EndAt(o))
  BY DEF Decodes
<1> USE <1>a
<1>1. CASE o # 1 /\ len < got
  <2>1. got = len + 1 /\ got <= o - 1
    BY ONLY <1>1, got \in Nat, len \in Nat, got <= (IF o = 1 THEN 1 ELSE o - 1),
       got = len + 1 \/ (len >= got /\ got = (IF o = 1 THEN 1 ELSE o - 1) /\ th = "finished")
  <2>2. FirstLen(o) + got - 1 = PromptLen + got
    BY ONLY <1>0, <1>1, got \in Nat DEF FirstLen
  <2>3. /\ PromptLen + len < PromptLen + got /\ ~(PromptLen + len >= PromptLen + got)
        /\ PromptLen + len + 1 \in 1..PromptLen + got
        /\ (PromptLen + len + 1) - 1 = PromptLen + (len + 1) - 1
        /\ len + 1 <= TextLen(o) /\ ~(len + 1 > TextLen(o))
        /\ ~(len >= EndAt(o)) /\ ~(len + 1 >= EndAt(o)) /\ len + 1 \in Nat \ {0}
    BY ONLY <1>0, <2>1, o \in Nat, got \in Nat, len \in Nat DEF TextLen, EndAt
  <2>4. e[PromptLen + len + 1] = PromptLen + (len + 1) - 1 /\ Len(e) = PromptLen + got
    BY <2>2, <2>3
  <2>5. Said(Eos, o, len + 1) = Text(PromptLen + (len + 1) - 1)
    BY <2>3, SaidIs
  <2> QED BY <2>3, <2>4, <2>5
<1>2. CASE ~(o # 1 /\ len < got)
  <2>1. th = "finished"
    <3>1. CASE o = 1
      BY <3>1
    <3>2. CASE o # 1
      <4>1. got # len + 1
        BY ONLY <1>2, <3>2, got \in Nat, len \in Nat
      <4> QED BY <4>1
    <3> QED BY <3>1, <3>2
  <2>2. len >= o - 1 /\ FirstLen(o) + got - 1 <= PromptLen + len
    <3>1. CASE o = 1
      BY ONLY <1>0, <3>1, o \in Nat, got \in Nat, len \in Nat, len >= 1,
              got <= (IF o = 1 THEN 1 ELSE o - 1) DEF FirstLen
    <3>2. CASE o # 1
      <4>1. len >= got /\ got # len + 1
        BY ONLY <1>2, <3>2, got \in Nat, len \in Nat
      <4>2. got = o - 1
        BY <3>2, <4>1
      <4> QED BY ONLY <1>0, <3>2, <4>1, <4>2, o \in Nat, got \in Nat, len \in Nat DEF FirstLen
    <3> QED BY <3>1, <3>2
  <2>3. FirstLen(o) + got - 1 \in Int
    BY ONLY <1>0, got \in Nat DEF FirstLen
  <2>4. ~(PromptLen + len < Len(e)) /\ PromptLen + len >= Len(e)
    <3>1. ~(PromptLen + len < FirstLen(o) + got - 1) /\ PromptLen + len >= FirstLen(o) + got - 1
      BY ONLY <1>0, <2>2, <2>3, len \in Nat
    <3> QED BY <3>1
  <2>5. len + 1 >= EndAt(o) /\ len + 1 \in Nat \ {0}
    BY ONLY <2>2, o \in Nat, len \in Nat, len >= 1 DEF EndAt
  <2>6. CASE len >= EndAt(o)
    <3>1. len + 1 > EndAt(o)
      BY ONLY <2>6, o \in Nat, len \in Nat DEF EndAt
    <3>2. Said(Eos, o, len + 1) = Pad
      BY <2>5, <3>1, SaidIs
    <3> QED BY <2>1, <2>4, <2>5, <2>6, <3>2
  <2>7. CASE ~(len >= EndAt(o))
    <3>1. len + 1 = EndAt(o)
      BY ONLY <2>5, <2>7, o \in Nat, len \in Nat DEF EndAt
    <3>2. Said(Eos, o, len + 1) = Eos
      BY <2>5, <3>1, SaidIs
    <3> QED BY <2>1, <2>4, <2>5, <2>7, <3>2
  <2> QED BY <2>6, <2>7
<1> QED BY <1>1, <1>2

(* The talker after a step.                                                *)
LEMMA AsyncStepped ==
  ASSUME NEW o, NEW th, NEW got \in Nat, NEW e, NEW fin, NEW tk \in {"unready", "stopped"}, NEW len \in Nat,
         got = len + 1 \/ (fin /\ len >= got),
         NEW inf, inf.prefilled = TRUE, inf.decode_flag = (len > 0), inf.embeddings = e,
         len > 0 => inf.num_processed = PromptLen + len + 1,
         inf.finished_flag = (th = "finished" /\ len + 1 >= EndAt(o))
  PROVE  TalkerAsync(o, th, got, e, fin, tk, inf, len + 1)
<1>1. /\ len + 1 > 0 /\ (len + 1 > 1 <=> len > 0) /\ PromptLen + (len + 1) = PromptLen + len + 1
      /\ (got = len + 1 => len + 1 >= got) /\ (len >= got => len + 1 >= got)
  BY ONLY got \in Nat, len \in Nat, TalkerAssumption
<1>2. IF fin THEN len + 1 >= got ELSE len + 1 = got
  BY <1>1
<1>3. tk # "waiting" /\ tk # "ready"
  OBVIOUS
<1>4. inf.prefilled = (len + 1 > 0)
  BY <1>1
<1>5. inf.decode_flag = (len + 1 > 1)
  BY <1>1
<1>6. len + 1 > 1 => inf.num_processed = PromptLen + (len + 1)
  BY <1>1
<1> QED BY <1>2, <1>3, <1>4, <1>5, <1>6 DEF TalkerAsync

-----------------------------------------------------------------------------
(* The actions.                                                            *)

(* The types of the values, one by one.                                    *)
LEMMA Values ==
  ASSUME TypeInv
  PROVE  /\ output \in Nat /\ computed \in Nat /\ put_req_chunk \in Nat /\ splits \in Nat
         /\ preemptions \in Nat /\ PromptLen \in Nat /\ NumTokens = PromptLen + output
         /\ async_chunk \in BOOLEAN /\ finished \in BOOLEAN
         /\ thinker \in {"running", "finished"} /\ talker \in {"unready", "waiting", "ready", "stopped"}
         /\ chunks \in Seq(ChunkType) /\ saved \in EmbeddingSeq /\ spoken \in Seq(Inputs)
         /\ payload \in [embeddings : EmbeddingSeq, sequences : Nat] /\ info \in InfoType
         /\ Len(chunks) \in Nat /\ Len(spoken) \in Nat
         /\ (info.prefilled => info.trailing # <<>>)
<1>1. chunks \in Seq(ChunkType) /\ spoken \in Seq(Inputs)
  BY DEF TypeInv, TypeOK, ChunkType
<1>2. Len(chunks) \in Nat /\ Len(spoken) \in Nat
  BY <1>1, ChunkFacts, InputFacts
<1>3. output \in Nat /\ computed \in Nat /\ splits \in Nat /\ preemptions \in Nat /\ PromptLen \in Nat
  BY TalkerAssumption DEF TypeInv, TypeOK
<1> QED BY <1>1, <1>2, <1>3 DEF TypeInv, TypeOK, InfoType, NumTokens

(* Initially.                                                              *)
LEMMA InitInv == Init => TalkerInv
<1> SUFFICES ASSUME Init PROVE TalkerInv
  OBVIOUS
<1>1. TypeInv
  BY InitTypes
<1>2. /\ output = 0 /\ computed = 0 /\ put_req_chunk = 0 /\ saved = <<>> /\ chunks = <<>> /\ spoken = <<>>
      /\ thinker = "running" /\ finished = FALSE /\ talker = "unready"
      /\ payload.embeddings = <<>> /\ payload.sequences = 0
      /\ info.prefilled = FALSE /\ info.decode_flag = FALSE /\ info.finished_flag = FALSE
  BY DEF Init
<1>3. Len(chunks) = 0 /\ Len(spoken) = 0 /\ 0 - 0 = 0 /\ ~(0 > 0) /\ ~(0 > 1) /\ ~(0 = 0 + 1) /\ 0 <= 0
      /\ 0 < PromptLen + 0 /\ ~(0 >= EndAt(0)) /\ Upto(saved, 0)
  BY <1>2, EmptyUpto, TalkerAssumption DEF EndAt
<1>4. \A i \in 1..0 : FALSE
  OBVIOUS
<1>5. Speaks(Short, output, thinker, spoken)
  BY <1>3, <1>4 DEF Speaks
<1>6. ThinkerAsync(output, thinker, computed, put_req_chunk, saved)
  BY <1>2, <1>3 DEF ThinkerAsync
<1>7. LinkAsync(output, thinker, put_req_chunk, chunks, payload, finished)
  BY <1>2, <1>3, <1>4 DEF LinkAsync
<1>8. TalkerAsync(output, thinker, put_req_chunk - Len(chunks), payload.embeddings, finished, talker, info,
                  Len(spoken))
  <2>1. /\ info.prefilled = (0 > 0) /\ info.decode_flag = (0 > 1)
        /\ info.finished_flag = ("running" = "finished" /\ 0 >= EndAt(0))
    <3>1. (0 > 0) = FALSE /\ (0 > 1) = FALSE /\ ("running" = "finished" /\ 0 >= EndAt(0)) = FALSE
      BY <1>3
    <3> QED BY <1>2, <3>1
  <2>2. TalkerAsync(0, "running", 0, <<>>, FALSE, "unready", info, 0)
    BY <1>3, <2>1 DEF TalkerAsync
  <2> QED BY <1>2, <1>3, <2>2
<1>9. LinkFull(output, thinker, computed, put_req_chunk, saved, chunks, payload, finished)
  <2>1. finished = (put_req_chunk # Len(chunks))
    BY <1>2, <1>3
  <2>2. computed < PromptLen + output /\ Upto(saved, computed) /\ ~(put_req_chunk > 0) /\ Len(chunks) # 1
    BY <1>2, <1>3
  <2> QED BY <1>2, <1>3, <2>1, <2>2 DEF LinkFull
<1>10. TalkerFull(output, put_req_chunk - Len(chunks), finished, talker, info, Len(spoken))
  <2>1. info.prefilled = (0 > 0)
    <3>1. (0 > 0) = FALSE
      BY <1>3
    <3> QED BY <1>2, <3>1
  <2>2. TalkerFull(0, 0, FALSE, "unready", info, 0)
    BY <1>3, <2>1 DEF TalkerFull
  <2> QED BY <1>2, <1>3, <2>2
<1> QED BY <1>1, <1>5, <1>6, <1>7, <1>8, <1>9, <1>10 DEF TalkerInv, SpeechInv, AsyncInv, FullInv

(* A part of the prompt is computed, without chunks.                       *)
LEMMA ComputeInv ==
  ASSUME TypeInv, SpeechInv, NEW n \in 1..PromptLen + MaxOutput, ComputePart(n), Regular'
  PROVE  SpeechInv'
<1>1. /\ computed + n < NumTokens /\ thinker = "running" /\ splits' = splits + 1
      /\ computed' = computed + n /\ Emit(Positions(n), NumTokens, FALSE)
      /\ UNCHANGED <<async_chunk, output, thinker, preemptions, talkerVars>>
  BY DEF ComputePart
<1>2. ~async_chunk
  <2>1. splits + 1 # 0
    BY ONLY Values, TypeInv
  <2> QED BY <1>1, <2>1 DEF Regular
<1>3. saved' = saved \o Positions(n) /\ put_req_chunk' = put_req_chunk /\ chunks' = chunks
  BY <1>1, <1>2 DEF Emit, Gather
<1>4. /\ Speaks(Short, output, "running", spoken)
      /\ LinkFull(output, "running", computed, put_req_chunk, saved, chunks, payload, finished)
      /\ TalkerFull(output, put_req_chunk - Len(chunks), finished, talker, info, Len(spoken))
  BY <1>1, <1>2 DEF SpeechInv, FullInv
<1>5. Upto(saved, computed) /\ n \in Nat /\ computed + n <= NumTokens /\ computed + n < PromptLen + output
      /\ computed + n \in Nat
  <2>1. Upto(saved, computed)
    BY ONLY <1>4, Values, TypeInv, FullStart
  <2>2. n \in Nat
    BY ONLY n \in 1..PromptLen + MaxOutput, TalkerAssumption
  <2>3. computed + n <= NumTokens /\ computed + n < PromptLen + output /\ computed + n \in Nat
    BY ONLY SMTT(30), <1>1, <2>2, Values, TypeInv, computed + n < NumTokens
  <2> QED BY <2>1, <2>2, <2>3
<1>6. Upto(saved \o Positions(n), computed + n)
  BY ONLY <1>5, SavedUpto, TypeInv DEF TypeInv
<1>7. LinkFull(output, "running", computed + n, put_req_chunk, saved \o Positions(n), chunks, payload, finished)
  BY ONLY <1>4, <1>5, <1>6, Values, TypeInv, FullKeep
<1>8. Short' = Short
  BY <1>1 DEF Short
<1> QED BY <1>1, <1>2, <1>3, <1>4, <1>7, <1>8 DEF SpeechInv, FullInv, talkerVars

(* A token is sampled.                                                     *)
LEMMA SampleValues ==
  ASSUME TypeInv, NEW last \in BOOLEAN, Sample(last)
  PROVE  /\ NumTokens - computed \in Nat /\ computed + (NumTokens - computed) = PromptLen + output
         /\ thinker = "running" /\ output' = output + 1 /\ computed' = PromptLen + output
         /\ thinker' = (IF last THEN "finished" ELSE "running")
         /\ Emit(Positions(NumTokens - computed), PromptLen + output + 1, last)
         /\ UNCHANGED <<async_chunk, talkerVars>> /\ Short' = Short
<1>1. NumTokens - computed \in Nat /\ computed + (NumTokens - computed) = PromptLen + output
  <2>1. computed \in 0..PromptLen + output /\ output \in 0..MaxOutput
    BY DEF TypeInv, TypeOK
  <2> QED BY ONLY <2>1, TalkerAssumption DEF NumTokens
<1>2. async_chunk' = async_chunk
  BY DEF Sample
<1> QED BY <1>1, <1>2, Values DEF Sample, Short

(* Without chunks the embeddings are kept until the thinker has finished.  *)
LEMMA SampleFullInv ==
  ASSUME TypeInv, SpeechInv, NEW last \in BOOLEAN, Sample(last), ~async_chunk
  PROVE  SpeechInv'
<1> DEFINE pool == Positions(NumTokens - computed)
<1>1. /\ NumTokens - computed \in Nat /\ computed + (NumTokens - computed) = PromptLen + output
      /\ thinker = "running" /\ output' = output + 1 /\ computed' = PromptLen + output
      /\ thinker' = (IF last THEN "finished" ELSE "running")
      /\ Gather(pool, PromptLen + output + 1, last)
      /\ UNCHANGED <<async_chunk, talkerVars>> /\ Short' = Short
  BY SampleValues DEF Emit
<1> HIDE DEF pool
<1>2. /\ Speaks(Short, output, "running", spoken)
      /\ LinkFull(output, "running", computed, put_req_chunk, saved, chunks, payload, finished)
      /\ TalkerFull(output, put_req_chunk - Len(chunks), finished, talker, info, Len(spoken))
  BY <1>1 DEF SpeechInv, FullInv
<1>3. /\ \A th : Speaks(Short, output + 1, th, spoken)
      /\ TalkerFull(output + 1, put_req_chunk - Len(chunks), finished, talker, info, Len(spoken))
      /\ Upto(saved, computed) /\ put_req_chunk = 0
  <2>1. \A th : Speaks(Short, output + 1, th, spoken)
    BY ONLY <1>2, Values, TypeInv, SpeaksMore
  <2>2. /\ output \in Nat /\ computed \in Nat /\ put_req_chunk \in Nat /\ chunks \in Seq(ChunkType)
        /\ finished \in BOOLEAN /\ info \in InfoType /\ Len(spoken) \in Nat
    BY ONLY Values, TypeInv
  <2>3. TalkerFull(output + 1, put_req_chunk - Len(chunks), finished, talker, info, Len(spoken))
    BY ONLY <1>2, <2>2, FullQuiet
  <2>4. Upto(saved, computed) /\ put_req_chunk = 0
    BY ONLY <1>2, <2>2, FullStart
  <2> QED BY <2>1, <2>3, <2>4
<1>4. saved \o pool \in EmbeddingSeq /\ Upto(saved \o pool, PromptLen + output)
  <2>1. computed + (NumTokens - computed) <= NumTokens
    BY ONLY <1>1, Values, TypeInv
  <2> QED BY ONLY <1>1, <1>3, <2>1, SavedUpto, TypeInv DEF TypeInv, pool
<1>5. CASE ~last
  <2>1. saved' = saved \o pool /\ put_req_chunk' = put_req_chunk /\ chunks' = chunks
    BY <1>1, <1>5 DEF Gather
  <2>2. LinkFull(output + 1, "running", PromptLen + output, put_req_chunk, saved \o pool, chunks, payload,
                 finished)
    <3>1. output + 1 \in Nat /\ PromptLen + output \in Nat /\ PromptLen + output < PromptLen + (output + 1)
      BY ONLY Values, TypeInv
    <3> QED BY ONLY SMTT(30), <1>2, <1>4, <3>1, Values, TypeInv, FullKeep
  <2> QED BY <1>1, <1>3, <1>5, <2>1, <2>2 DEF SpeechInv, FullInv, talkerVars
<1>6. CASE last
  <2> DEFINE c == Chunk(saved \o pool, PromptLen + output + 1, TRUE)
  <2>1. chunks' = Append(chunks, c) /\ put_req_chunk' = put_req_chunk + 1 /\ saved' = <<>>
    BY <1>1, <1>6 DEF Gather, Send
  <2>2. c.embeddings = saved \o pool /\ c.sequences = PromptLen + output + 1 /\ c.finished = TRUE
    BY <1>3 DEF Chunk
  <2>3. c \in ChunkType
    <3>1. PromptLen + output + 1 \in Nat
      BY ONLY Values, TypeInv
    <3> QED BY <1>3, <1>4, <3>1 DEF Chunk, ChunkType
  <2> HIDE DEF c
  <2>4. /\ LinkFull(output + 1, "finished", PromptLen + output, put_req_chunk + 1, <<>>, Append(chunks, c),
                    payload, finished)
        /\ put_req_chunk + 1 - Len(Append(chunks, c)) = put_req_chunk - Len(chunks)
    <3>1. /\ output \in Nat /\ computed \in Nat /\ put_req_chunk \in Nat /\ chunks \in Seq(ChunkType)
          /\ finished \in BOOLEAN
      BY ONLY Values, TypeInv
    <3> DEFINE k == PromptLen + output
    <3>2. Upto(c.embeddings, k) /\ c.sequences = k + 1 /\ c.finished = TRUE /\ k = PromptLen + output
      BY <1>4, <2>2
    <3> DEFINE q == output + 1
               p == put_req_chunk + 1
    <3>3. q = output + 1 /\ p = put_req_chunk + 1
      OBVIOUS
    <3> HIDE DEF k, p, q
    <3>4. LinkFull(q, "finished", k, p, <<>>, Append(chunks, c), payload, finished)
      BY ONLY <1>2, <2>3, <3>1, <3>2, <3>3, FullSend
    <3>6. LinkFull(output + 1, "finished", PromptLen + output, put_req_chunk + 1, <<>>, Append(chunks, c),
                   payload, finished)
      BY ONLY <3>4 DEF k, p, q
    <3>7. put_req_chunk + 1 - Len(Append(chunks, c)) = put_req_chunk - Len(chunks)
      <4>1. Len(Append(chunks, c)) = Len(chunks) + 1 /\ Len(chunks) \in Nat
        BY ONLY <2>3, <3>1, ChunkFacts
      <4>2. \A k0, m \in Nat : k0 + 1 - (m + 1) = k0 - m
        BY ONLY TRUE
      <4> QED BY ONLY <3>1, <4>1, <4>2
    <3> QED BY <3>6, <3>7
  <2> QED BY <1>1, <1>3, <1>6, <2>1, <2>4 DEF SpeechInv, FullInv, talkerVars
<1> QED BY <1>5, <1>6

(* With chunks: what the step makes is the chunk with the next number.     *)
LEMMA SampleChunk ==
  ASSUME TypeInv, NEW pool \in EmbeddingSeq,
         ThinkerAsync(output, "running", computed, put_req_chunk, saved), put_req_chunk = TextLen(output),
         pool = Positions(NumTokens - computed),
         NEW c, c.embeddings = saved \o pool,
         c.sequences = IF put_req_chunk = 0 THEN PromptLen + output + 1 ELSE PromptLen + output + 1 - PromptLen
  PROVE  IsChunk(c, put_req_chunk, output + 1)
<1>1. /\ output \in Nat /\ computed \in Nat /\ put_req_chunk \in Nat /\ PromptLen \in Nat /\ PromptLen >= 1
      /\ NumTokens = PromptLen + output /\ saved \in EmbeddingSeq /\ computed \in 0..PromptLen + output
  BY Values, TalkerAssumption DEF TypeInv, TypeOK
<1> DEFINE n == NumTokens - computed
<1>2. n \in Nat /\ computed + n = PromptLen + output /\ computed + n <= NumTokens
  BY ONLY <1>1
<1>3. CASE output <= 1
  <2>1. Upto(saved, computed)
    <3>1. CASE output = 0
      <4>1. saved = <<>> /\ computed = 0
        BY <3>1 DEF ThinkerAsync
      <4> QED BY <4>1, EmptyUpto
    <3>2. CASE output = 1
      <4>1. output > 0 /\ put_req_chunk = 0 /\ PromptLen + output - 1 = PromptLen
        BY <1>1, <3>2 DEF TextLen
      <4>2. computed = PromptLen /\ Upto(saved, PromptLen)
        BY <4>1 DEF ThinkerAsync
      <4> QED BY <4>2
    <3>3. output = 0 \/ output = 1
      BY ONLY <1>1, <1>3
    <3> QED BY <3>1, <3>2, <3>3
  <2>2. Upto(saved \o pool, computed + n)
    BY <1>2, <2>1, SavedUpto DEF TypeInv
  <2>3. put_req_chunk = 0 /\ ~(put_req_chunk > 0) /\ PromptLen + output = FirstLen(output + 1)
        /\ PromptLen + output + 1 >= FirstLen(output + 1)
    <3>1. TextLen(output) = 0 /\ PromptLen + output = FirstLen(output + 1)
          /\ PromptLen + output + 1 >= FirstLen(output + 1)
      BY ONLY <1>1, <1>3 DEF TextLen, FirstLen
    <3> QED BY <3>1
  <2> HIDE DEF n
  <2> QED BY <1>2, <2>2, <2>3 DEF IsChunk
<1>4. CASE ~(output <= 1)
  <2>1. put_req_chunk > 0 /\ put_req_chunk # 0 /\ output > 0 /\ PromptLen + put_req_chunk = PromptLen + output - 1
    <3>1. TextLen(output) = output - 1
      BY ONLY <1>1, <1>4 DEF TextLen
    <3> QED BY ONLY <1>1, <1>4, <3>1, put_req_chunk = TextLen(output)
  <2>2. saved = <<>> /\ computed = PromptLen + put_req_chunk
    BY <2>1 DEF ThinkerAsync
  <2>3. n = 1
    BY ONLY <1>1, <1>2, <2>1, <2>2
  <2>4. Len(pool) = 1 /\ pool[1] = computed
    <3>1. Len(pool) = n /\ \A i \in 1..n : pool[i] = computed + i - 1
      BY <1>2, PositionsType DEF TypeInv
    <3> QED BY ONLY <1>1, <2>3, <3>1
  <2>5. pool = <<PromptLen + put_req_chunk>>
    <3>1. pool \in Seq(0..PromptLen + MaxOutput)
      BY DEF EmbeddingSeq
    <3> QED BY ONLY <1>1, <2>2, <2>4, <3>1
  <2>6. saved \o pool = pool
    BY ONLY <2>2, pool \in EmbeddingSeq DEF EmbeddingSeq
  <2> QED BY <2>1, <2>5, <2>6 DEF IsChunk
<1> QED BY <1>3, <1>4

(* With chunks, they are sent at once, those of the first step excepted.   *)
LEMMA SampleAsyncInv ==
  ASSUME TypeInv, SpeechInv, NEW last \in BOOLEAN, Sample(last), async_chunk
  PROVE  SpeechInv'
<1> DEFINE pool == Positions(NumTokens - computed)
<1>1. /\ NumTokens - computed \in Nat /\ computed + (NumTokens - computed) = PromptLen + output
      /\ thinker = "running" /\ output' = output + 1 /\ computed' = PromptLen + output
      /\ thinker' = (IF last THEN "finished" ELSE "running")
      /\ AsyncChunk(pool, PromptLen + output + 1, last)
      /\ UNCHANGED <<async_chunk, talkerVars>> /\ Short' = Short
  BY SampleValues DEF Emit
<1>0. pool \in EmbeddingSeq
  <2>1. computed + (NumTokens - computed) <= NumTokens
    BY ONLY <1>1, Values, TypeInv
  <2> QED BY <1>1, <2>1, PositionsType DEF TypeInv
<1>p. pool = Positions(NumTokens - computed)
  OBVIOUS
<1> HIDE DEF pool
<1>v. /\ output \in Nat /\ computed \in Nat /\ put_req_chunk \in Nat /\ chunks \in Seq(ChunkType)
      /\ finished \in BOOLEAN /\ info \in InfoType /\ Len(spoken) \in Nat /\ spoken \in Seq(Inputs)
      /\ saved \in EmbeddingSeq /\ PromptLen \in Nat /\ NumTokens = PromptLen + output
  BY ONLY Values, TypeInv
<1>2. /\ Speaks(Short, output, "running", spoken)
      /\ ThinkerAsync(output, "running", computed, put_req_chunk, saved)
      /\ LinkAsync(output, "running", put_req_chunk, chunks, payload, finished)
      /\ TalkerAsync(output, "running", put_req_chunk - Len(chunks), payload.embeddings, finished, talker, info,
                     Len(spoken))
  BY <1>1 DEF SpeechInv, AsyncInv
<1>3. \A th : Speaks(Short, output + 1, th, spoken)
  BY ONLY <1>2, <1>v, SpeaksMore
<1>4. \A th : TalkerAsync(output + 1, th, put_req_chunk - Len(chunks), payload.embeddings, finished, talker,
                          info, Len(spoken))
  <2>1. Len(spoken) <= TextLen(output)
    BY ONLY <1>2, <1>v, SpeaksMore
  <2> QED BY ONLY <1>2, <1>v, <2>1, AsyncQuiet
<1>5. /\ put_req_chunk = TextLen(output) /\ (output = 0 => saved = <<>> /\ computed = 0)
      /\ (output = 1 => Upto(saved, PromptLen)) /\ (put_req_chunk = 0 <=> output <= 1)
  <2>1. put_req_chunk = TextLen(output)
    BY ONLY <1>2, <1>v DEF ThinkerAsync, TextLen
  <2>2. output = 0 => saved = <<>> /\ computed = 0
    BY ONLY <1>2, <1>v DEF ThinkerAsync
  <2>3. put_req_chunk = 0 <=> output <= 1
    BY ONLY <1>v, <2>1 DEF TextLen
  <2>4. output = 1 => Upto(saved, PromptLen)
    <3>1. output = 1 => output > 0 /\ put_req_chunk = 0
      BY ONLY <1>v, <2>3
    <3> QED BY ONLY <1>2, <3>1 DEF ThinkerAsync
  <2> QED BY <2>1, <2>2, <2>3, <2>4
<1>6. CASE put_req_chunk = 0 /\ saved = <<>> /\ ~last
  <2>1. output = 0
    <3>1. output = 1 => Len(saved) = PromptLen
      BY <1>5 DEF Upto
    <3>2. Len(<<>>) = 0 /\ PromptLen # 0
      BY ONLY TalkerAssumption
    <3>3. output = 0 \/ output = 1
      BY ONLY <1>5, <1>6, <1>v
    <3> QED BY <1>6, <3>1, <3>2, <3>3
  <2>2. saved' = pool /\ put_req_chunk' = put_req_chunk /\ chunks' = chunks
    BY <1>1, <1>6 DEF AsyncChunk
  <2>3. Upto(pool, PromptLen)
    <3>1. Upto(saved, computed)
      BY <1>5, <2>1, EmptyUpto
    <3>2. computed + (NumTokens - computed) <= NumTokens /\ NumTokens - computed \in Nat
      BY ONLY <1>1, <1>v
    <3>3. Upto(saved \o pool, computed + (NumTokens - computed))
      BY <1>p, <3>1, <3>2, SavedUpto DEF TypeInv
    <3>4. saved \o pool = pool
      BY ONLY <1>0, <1>6 DEF EmbeddingSeq
    <3>5. PromptLen + output = PromptLen
      BY ONLY <1>v, <2>1
    <3> QED BY <1>1, <3>3, <3>4, <3>5
  <2>4. ThinkerAsync(1, "running", PromptLen, put_req_chunk, pool)
        /\ LinkAsync(1, "running", put_req_chunk, chunks, payload, finished)
    BY ONLY <1>2, <1>v, <2>1, <2>3, AsyncKeep
  <2>5. output + 1 = 1 /\ PromptLen + output = PromptLen
    BY ONLY <1>v, <2>1
  <2> QED BY <1>1, <1>3, <1>4, <1>6, <2>2, <2>4, <2>5 DEF SpeechInv, AsyncInv, talkerVars
<1>7. CASE ~(put_req_chunk = 0 /\ saved = <<>> /\ ~last)
  <2> DEFINE c == Chunk(saved \o pool, PromptLen + output + 1, last)
             th2 == IF last THEN "finished" ELSE "running"
  <2>1. chunks' = Append(chunks, c) /\ put_req_chunk' = put_req_chunk + 1 /\ saved' = <<>>
    BY <1>1, <1>7 DEF AsyncChunk, Send
  <2>2. /\ c.embeddings = saved \o pool /\ c.finished = last
        /\ c.sequences = IF put_req_chunk = 0 THEN PromptLen + output + 1
                                              ELSE PromptLen + output + 1 - PromptLen
    <3>1. c.embeddings = saved \o pool
      BY ONLY TRUE DEF Chunk
    <3>2. c.finished = last
      BY ONLY TRUE DEF Chunk
    <3>3. c.sequences = IF put_req_chunk = 0 THEN PromptLen + output + 1
                                             ELSE PromptLen + output + 1 - PromptLen
      BY ONLY <1>v DEF Chunk
    <3> QED BY <3>1, <3>2, <3>3
  <2>3. c \in ChunkType
    <3>1. saved \o pool \in EmbeddingSeq
      BY ONLY <1>0, <1>v, EmbeddingFacts
    <3>2. PromptLen + output + 1 \in Nat /\ PromptLen + output + 1 - PromptLen \in Nat
      BY ONLY <1>v
    <3> QED BY ONLY <1>v, <3>1, <3>2, last \in BOOLEAN DEF Chunk, ChunkType
  <2>t. th2 \in {"running", "finished"} /\ c.finished = (th2 = "finished") /\ thinker' = th2
    BY <1>1, <2>2
  <2>o. output = 0 => th2 = "finished"
    BY <1>5, <1>7
  <2> HIDE DEF c, th2
  <2>4. IsChunk(c, put_req_chunk, output + 1)
    BY ONLY <1>0, <1>2, <1>5, <1>p, <2>2, TypeInv, SampleChunk
  <2>5. ThinkerAsync(output + 1, th2, PromptLen + output, put_req_chunk + 1, <<>>)
    BY ONLY <1>v, <1>5, <2>o, AsyncSendThinker
  <2>6. /\ put_req_chunk + 1 - Len(Append(chunks, c)) = put_req_chunk - Len(chunks)
        /\ LinkAsync(output + 1, th2, put_req_chunk + 1, Append(chunks, c), payload, finished)
    BY ONLY <1>2, <1>5, <1>v, <2>3, <2>4, <2>t, AsyncSendLink
  <2>7. AsyncInv'
    <3>1. /\ thinker' = th2 /\ output' = output + 1 /\ computed' = PromptLen + output /\ saved' = <<>>
          /\ put_req_chunk' = put_req_chunk + 1 /\ chunks' = Append(chunks, c)
          /\ payload' = payload /\ finished' = finished /\ talker' = talker /\ info' = info /\ spoken' = spoken
      BY <1>1, <2>1, <2>t DEF talkerVars
    <3>2. TalkerAsync(output + 1, th2, put_req_chunk + 1 - Len(Append(chunks, c)), payload.embeddings, finished,
                      talker, info, Len(spoken))
      BY <1>4, <2>6
    <3>3. ThinkerAsync(output, thinker, computed, put_req_chunk, saved)'
      BY ONLY <2>5, <3>1
    <3>4. LinkAsync(output, thinker, put_req_chunk, chunks, payload, finished)'
      BY ONLY <2>6, <3>1
    <3>5. TalkerAsync(output, thinker, put_req_chunk - Len(chunks), payload.embeddings, finished, talker, info,
                      Len(spoken))'
      <4>1. put_req_chunk' - Len(chunks') = put_req_chunk + 1 - Len(Append(chunks, c))
        <5>1. put_req_chunk + 1 \in Nat /\ Len(Append(chunks, c)) \in Nat
          BY ONLY <1>v, <2>3, ChunkFacts
        <5>2. Len(chunks') = Len(Append(chunks, c))
          BY ONLY <3>1
        <5>3. put_req_chunk' = put_req_chunk + 1
          BY ONLY <3>1
        <5>4. \A m, k \in Nat : m + 1 - k = (m + 1) - k
          BY ONLY TRUE
        <5>5. put_req_chunk' - Len(chunks') = (put_req_chunk + 1) - Len(Append(chunks, c))
          BY ONLY <5>2, <5>3
        <5> QED BY ONLY <1>v, <5>1, <5>4, <5>5
      <4>2. payload.embeddings' = payload.embeddings /\ Len(spoken') = Len(spoken)
        BY <3>1
      <4> QED BY <3>1, <3>2, <4>1, <4>2
    <3> QED BY <3>3, <3>4, <3>5 DEF AsyncInv
  <2>8. Speaks(Short, output, thinker, spoken)' /\ async_chunk'
    BY <1>1, <1>3 DEF talkerVars
  <2> QED BY <2>7, <2>8 DEF SpeechInv
<1> QED BY <1>6, <1>7

(* The talker asks for its next input.                                     *)
LEMMA AskAsync ==
  ASSUME NEW o, NEW th, NEW got, NEW emb, NEW inf, NEW len, NEW fin, ~fin,
         TalkerAsync(o, th, got, emb, fin, "unready", inf, len)
  PROVE  TalkerAsync(o, th, got, emb, fin, "waiting", inf, len)
BY DEF TalkerAsync

(* Without chunks.                                                         *)
LEMMA AskFull ==
  ASSUME NEW o, NEW got, NEW inf, NEW len, NEW fin, ~fin, TalkerFull(o, got, fin, "unready", inf, len)
  PROVE  TalkerFull(o, got, fin, "waiting", inf, len)
BY DEF TalkerFull

(* In both modes.                                                          *)
LEMMA AskInv ==
  ASSUME TypeInv, SpeechInv, Ask
  PROVE  SpeechInv'
<1>1. /\ talker = "unready" /\ ~finished /\ talker' = "waiting" /\ Short' = Short
      /\ UNCHANGED <<async_chunk, output, thinker, computed, put_req_chunk, saved, chunks, payload, finished,
                     info, spoken>>
  BY DEF Ask, thinkerVars, linkVars, Short
<1>2. Speaks(Short, output, thinker, spoken)'
  BY <1>1 DEF SpeechInv
<1>3. async_chunk => AsyncInv'
  <2> SUFFICES ASSUME async_chunk PROVE AsyncInv'
    OBVIOUS
  <2>1. TalkerAsync(output, thinker, put_req_chunk - Len(chunks), payload.embeddings, finished, "waiting", info,
                    Len(spoken))
    BY <1>1, AskAsync DEF SpeechInv, AsyncInv
  <2> QED BY <1>1, <2>1 DEF SpeechInv, AsyncInv
<1>4. ~async_chunk => FullInv'
  <2> SUFFICES ASSUME ~async_chunk PROVE FullInv'
    OBVIOUS
  <2>1. TalkerFull(output, put_req_chunk - Len(chunks), finished, "waiting", info, Len(spoken))
    BY <1>1, AskFull DEF SpeechInv, FullInv
  <2> QED BY <1>1, <2>1 DEF SpeechInv, FullInv
<1> QED BY <1>1, <1>2, <1>3, <1>4 DEF SpeechInv

(* It receives a chunk.                                                    *)
LEMMA ReceiveInv ==
  ASSUME TypeInv, SpeechInv, Receive
  PROVE  SpeechInv'
<1>1. /\ talker = "waiting" /\ chunks # <<>> /\ talker' = "ready" /\ Short' = Short
      /\ payload' = Concatenated(Head(chunks)) /\ finished' = Head(chunks).finished /\ chunks' = Tail(chunks)
      /\ UNCHANGED <<async_chunk, output, thinker, computed, put_req_chunk, saved, info, spoken>>
  BY DEF Receive, thinkerVars, Short
<1>2. Speaks(Short, output, thinker, spoken)'
  BY <1>1 DEF SpeechInv
<1> DEFINE pay2 == Concatenated(Head(chunks))
<1>3. /\ pay2.embeddings = payload.embeddings \o Head(chunks).embeddings
      /\ pay2.sequences = payload.sequences + Head(chunks).sequences
  BY DEF Concatenated
<1> HIDE DEF pay2
<1>v. /\ output \in Nat /\ put_req_chunk \in Nat /\ chunks \in Seq(ChunkType) /\ finished \in BOOLEAN
      /\ payload \in [embeddings : EmbeddingSeq, sequences : Nat] /\ info \in InfoType /\ Len(spoken) \in Nat
  BY ONLY Values, TypeInv
<1>4. async_chunk => AsyncInv'
  <2> SUFFICES ASSUME async_chunk PROVE AsyncInv'
    OBVIOUS
  <2>1. /\ ThinkerAsync(output, thinker, computed, put_req_chunk, saved)
        /\ LinkAsync(output, thinker, put_req_chunk, chunks, payload, finished)
        /\ TalkerAsync(output, thinker, put_req_chunk - Len(chunks), payload.embeddings, finished, "waiting", info,
                       Len(spoken))
    BY <1>1 DEF SpeechInv, AsyncInv
  <2>2. /\ LinkAsync(output, thinker, put_req_chunk, Tail(chunks), pay2, Head(chunks).finished)
        /\ TalkerAsync(output, thinker, put_req_chunk - Len(Tail(chunks)), pay2.embeddings, Head(chunks).finished,
                       "ready", info, Len(spoken))
    BY ONLY <1>1, <1>3, <1>v, <2>1, AsyncReceive
  <2> QED BY <1>1, <2>1, <2>2 DEF AsyncInv, pay2
<1>5. ~async_chunk => FullInv'
  <2> SUFFICES ASSUME ~async_chunk PROVE FullInv'
    OBVIOUS
  <2>1. /\ LinkFull(output, thinker, computed, put_req_chunk, saved, chunks, payload, finished)
        /\ TalkerFull(output, put_req_chunk - Len(chunks), finished, "waiting", info, Len(spoken))
    BY <1>1 DEF SpeechInv, FullInv
  <2>2. /\ LinkFull(output, thinker, computed, put_req_chunk, saved, Tail(chunks), pay2, Head(chunks).finished)
        /\ TalkerFull(output, put_req_chunk - Len(Tail(chunks)), Head(chunks).finished, "ready", info, Len(spoken))
    BY ONLY ZenonT(40), <1>1, <1>3, <1>v, <2>1, FullReceive
  <2> QED BY <1>1, <2>2 DEF FullInv, pay2
<1> QED BY <1>1, <1>2, <1>4, <1>5 DEF SpeechInv

(* What a step of the talker has to do with: the embeddings received, one  *)
(* more than steps, or all of them.                                        *)
LEMMA AsyncStep ==
  ASSUME TypeInv, AsyncInv, MayStep, NEW n, n = put_req_chunk - Len(chunks)
  PROVE  /\ n \in Nat /\ n >= 1 /\ output >= 1 /\ n <= (IF output = 1 THEN 1 ELSE output - 1)
         /\ Len(payload.embeddings) = FirstLen(output) + n - 1
         /\ \A i \in 1..FirstLen(output) + n - 1 : payload.embeddings[i] = i - 1
         /\ n = 1 => payload.sequences >= FirstLen(output)
         /\ \/ talker = "ready" /\ n = Len(spoken) + 1
            \/ talker = "unready" /\ finished /\ Len(spoken) >= n /\ n = (IF output = 1 THEN 1 ELSE output - 1)
               /\ thinker = "finished" /\ info.embeddings = payload.embeddings
         /\ output = 1 => thinker = "finished"
<1>a. /\ ThinkerAsync(output, thinker, computed, put_req_chunk, saved)
      /\ LinkAsync(output, thinker, put_req_chunk, chunks, payload, finished)
      /\ TalkerAsync(output, thinker, put_req_chunk - Len(chunks), payload.embeddings, finished, talker, info,
                     Len(spoken))
  BY DEF AsyncInv
<1>b. talker = "ready" \/ (talker = "unready" /\ finished)
  BY DEF MayStep
<1>v. /\ output \in Nat /\ put_req_chunk \in Nat /\ chunks \in Seq(ChunkType) /\ finished \in BOOLEAN
      /\ Len(spoken) \in Nat /\ thinker \in {"running", "finished"}
  BY ONLY Values, TypeInv
<1> DEFINE got == put_req_chunk - Len(chunks)
<1>1. Len(chunks) \in Nat /\ Len(chunks) <= put_req_chunk
  <2>1. Len(chunks) <= put_req_chunk
    BY <1>a DEF LinkAsync
  <2> QED BY <1>v, <2>1, ChunkFacts
<1>2. got \in Nat /\ (got = 0 <=> put_req_chunk = Len(chunks)) /\ (got > 0 <=> put_req_chunk > Len(chunks)) /\ got <= put_req_chunk
      /\ (got = 1 <=> put_req_chunk = Len(chunks) + 1) /\ (got > 0 => put_req_chunk > 0)
  BY ONLY <1>1, <1>v
<1>3. /\ output = 0 => put_req_chunk = 0 /\ thinker = "running"
      /\ output > 0 /\ put_req_chunk = 0 => thinker = "running"
      /\ put_req_chunk > 0 => put_req_chunk = (IF output = 1 THEN 1 ELSE output - 1) /\ (output = 1 => thinker = "finished")
  BY <1>a DEF ThinkerAsync
<1>4. /\ put_req_chunk > Len(chunks) => Upto(payload.embeddings, FirstLen(output) + put_req_chunk - Len(chunks) - 1)
      /\ put_req_chunk = Len(chunks) + 1 => payload.sequences >= FirstLen(output)
      /\ finished = (thinker = "finished" /\ Len(chunks) = 0)
  BY <1>a DEF LinkAsync
<1>5. /\ talker = "unready" => IF finished THEN Len(spoken) >= got ELSE Len(spoken) = got
      /\ talker = "ready" => got = Len(spoken) + 1
      /\ talker = "unready" /\ Len(spoken) > 0 => info.embeddings = payload.embeddings
  BY <1>a DEF TalkerAsync
<1> HIDE DEF got
<1>6. got > 0
  <2>1. CASE talker = "ready"
    <3>1. got = Len(spoken) + 1
      BY <1>5, <2>1
    <3> QED BY <3>1
  <2>2. CASE talker = "unready" /\ finished
    <3>1. thinker = "finished" /\ Len(chunks) = 0
      BY <1>4, <2>2
    <3>2. output # 0 /\ put_req_chunk # 0
      <4>1. output > 0 <=> output # 0
        BY ONLY <1>v
      <4> QED BY <1>3, <3>1, <4>1
    <3>3. got # 0
      BY <1>2, <3>1, <3>2
    <3> QED BY <1>2, <3>3
  <2> QED BY <1>b, <2>1, <2>2
<1>7. put_req_chunk > 0 /\ output >= 1 /\ put_req_chunk = (IF output = 1 THEN 1 ELSE output - 1) /\ (output = 1 => thinker = "finished")
  <2>1. put_req_chunk > 0
    BY <1>2, <1>6
  <2>2. ~(0 > 0)
    BY ONLY TRUE
  <2>3. output # 0
    BY <1>3, <2>1, <2>2
  <2>4. output >= 1 /\ output > 0
    BY ONLY <1>v, <2>3
  <2> QED BY <1>3, <2>1, <2>4
<1>8. Len(payload.embeddings) = FirstLen(output) + got - 1
      /\ \A i \in 1..FirstLen(output) + got - 1 : payload.embeddings[i] = i - 1
  <2>1. FirstLen(output) + put_req_chunk - Len(chunks) - 1 = FirstLen(output) + got - 1
    <3>1. FirstLen(output) \in Nat
      BY ONLY <1>v, Lengths
    <3> QED BY ONLY <1>v, <1>1, <3>1 DEF got
  <2> QED BY <1>2, <1>4, <1>6, <2>1 DEF Upto
<1>9. \/ talker = "ready" /\ got = Len(spoken) + 1
      \/ talker = "unready" /\ finished /\ Len(spoken) >= got /\ got = (IF output = 1 THEN 1 ELSE output - 1)
         /\ thinker = "finished" /\ info.embeddings = payload.embeddings
  <2>1. CASE talker = "ready"
    BY <1>5, <2>1
  <2>2. CASE talker = "unready" /\ finished
    <3>1. thinker = "finished" /\ Len(chunks) = 0 /\ Len(spoken) >= got
      BY <1>4, <1>5, <2>2
    <3>2. put_req_chunk - 0 = put_req_chunk
      BY ONLY <1>v
    <3>3. got = put_req_chunk
      BY <3>1, <3>2 DEF got
    <3>4. Len(spoken) > 0
      BY ONLY <1>2, <1>6, <3>1, <1>v
    <3> QED BY <1>5, <1>7, <2>2, <3>1, <3>3, <3>4
  <2> QED BY <1>b, <2>1, <2>2
<1>10. got = n /\ got \in Nat /\ got = put_req_chunk - Len(chunks) /\ got >= 1 /\ got <= (IF output = 1 THEN 1 ELSE output - 1)
       /\ (got = 1 => payload.sequences >= FirstLen(output))
  <2>1. got >= 1
    BY ONLY <1>2, <1>6
  <2> QED BY <1>2, <1>4, <1>7, <2>1 DEF got
<1> QED BY <1>7, <1>8, <1>9, <1>10

(* It takes a step: what was received is not changed, and as many inputs   *)
(* as before and one were given.                                           *)
LEMMA StepValues ==
  ASSUME TypeInv, TalkerStep
  PROVE  /\ MayStep /\ talker' \in {"unready", "stopped"} /\ (Prefill \/ DecodeChunk \/ DecodeTrailing)
         /\ Short' = Short
         /\ UNCHANGED <<async_chunk, output, thinker, computed, put_req_chunk, saved, chunks, payload, finished>>
BY DEF TalkerStep, thinkerVars, linkVars, Short

(* The first input given is the first to be said.                          *)
LEMMA GivenFirst ==
  ASSUME TypeInv, SpeechInv, NEW x \in Inputs, Len(spoken) = 0, x = Said(Short, output, 1),
         1 > TextLen(output) => thinker = "finished", spoken' = <<x>>,
         UNCHANGED <<output, thinker>>, Short' = Short
  PROVE  Speaks(Short, output, thinker, spoken)' /\ Len(spoken') = 1
<1>1. output \in Nat /\ spoken \in Seq(Inputs) /\ Speaks(Short, output, thinker, spoken)
  BY Values DEF SpeechInv
<1>2. Len(spoken) + 1 = 1
  BY ONLY Len(spoken) = 0
<1>3. x = Said(Short, output, Len(spoken) + 1) /\ (Len(spoken) + 1 > TextLen(output) => thinker = "finished")
  BY <1>2
<1>4. Speaks(Short, output, thinker, <<x>>)
  BY ONLY <1>1, <1>3, x \in Inputs, Len(spoken) = 0, SpeaksNext
<1> QED BY <1>4

(* The next input given is the next to be said.                            *)
LEMMA GivenNext ==
  ASSUME TypeInv, SpeechInv, NEW x \in Inputs, x = Said(Short, output, Len(spoken) + 1),
         Len(spoken) + 1 > TextLen(output) => thinker = "finished", spoken' = Append(spoken, x),
         UNCHANGED <<output, thinker>>, Short' = Short
  PROVE  Speaks(Short, output, thinker, spoken)' /\ Len(spoken') = Len(spoken) + 1
<1>1. output \in Nat /\ spoken \in Seq(Inputs) /\ Speaks(Short, output, thinker, spoken)
  BY Values DEF SpeechInv
<1>2. Speaks(Short, output, thinker, Append(spoken, x))
  BY ONLY <1>1, x \in Inputs, x = Said(Short, output, Len(spoken) + 1),
          Len(spoken) + 1 > TextLen(output) => thinker = "finished", SpeaksNext
<1>3. Len(Append(spoken, x)) = Len(spoken) + 1
  BY ONLY <1>1, x \in Inputs, InputFacts
<1> QED BY <1>2, <1>3

(* Without chunks.                                                         *)
LEMMA StepFullInv ==
  ASSUME TypeInv, SpeechInv, TalkerStep, ~async_chunk
  PROVE  SpeechInv'
<1>v. /\ output \in Nat /\ put_req_chunk \in Nat /\ chunks \in Seq(ChunkType) /\ finished \in BOOLEAN
      /\ info \in InfoType /\ Len(spoken) \in Nat /\ PromptLen \in Nat
      /\ payload.embeddings \in EmbeddingSeq /\ (info.prefilled => info.trailing # <<>>)
  BY ONLY Values, TypeInv
<1>1. /\ MayStep /\ (Prefill \/ DecodeTrailing)
      /\ Short = Zeros /\ Short' = Short
      /\ UNCHANGED <<async_chunk, output, thinker, computed, put_req_chunk, saved, chunks, payload, finished>>
  BY StepValues DEF DecodeChunk, Short
<1>2. PICK tk \in {"unready", "stopped"} : talker' = tk
  BY StepValues
<1>3. /\ LinkFull(output, thinker, computed, put_req_chunk, saved, chunks, payload, finished)
      /\ TalkerFull(output, put_req_chunk - Len(chunks), finished, talker, info, Len(spoken))
  BY DEF SpeechInv, FullInv
<1>4. /\ IsWhole(payload.embeddings, payload.sequences, output) /\ thinker = "finished" /\ output > 0
      /\ put_req_chunk - Len(chunks) = 1 /\ finished = TRUE /\ (Len(spoken) = 0 => talker = "ready")
  <2>1. talker = "ready" \/ (talker = "unready" /\ finished)
    BY <1>1 DEF MayStep
  <2>2. put_req_chunk - Len(chunks) = 1
    BY ONLY <1>3, <1>v, <2>1 DEF TalkerFull
  <2>3. Len(chunks) \in Nat
    BY ONLY <1>v, ChunkFacts
  <2>4. put_req_chunk > 0 /\ put_req_chunk # Len(chunks)
    BY ONLY <1>v, <2>2, <2>3
  <2>5. Len(spoken) = 0 => talker = "ready"
    BY ONLY <1>3, <1>v, <2>1 DEF TalkerFull
  <2>6. IsWhole(payload.embeddings, payload.sequences, output) /\ finished = TRUE
    BY ONLY <1>3, <1>v, <2>4 DEF LinkFull
  <2>7. thinker = "finished" /\ output > 0
    BY ONLY <1>3, <1>v, <2>4 DEF LinkFull
  <2> QED BY <2>2, <2>5, <2>6, <2>7
<1>5. info.prefilled = (Len(spoken) > 0)
  BY <1>3 DEF TalkerFull
<1>6. \A inf2 : TalkerFull(output, 1, TRUE, tk, inf2, Len(spoken'))
                  /\ info' = inf2 /\ Speaks(Short, output, thinker, spoken)' => SpeechInv'
  <2> SUFFICES ASSUME NEW inf2, TalkerFull(output, 1, TRUE, tk, inf2, Len(spoken')), info' = inf2,
                      Speaks(Short, output, thinker, spoken)'
               PROVE  SpeechInv'
    OBVIOUS
  <2>1. put_req_chunk' - Len(chunks') = 1
    BY <1>1, <1>4
  <2> QED BY <1>1, <1>2, <1>3, <1>4, <2>1 DEF SpeechInv, FullInv
<1>7. CASE Prefill
  <2> DEFINE text == TextEmbeddings(payload.embeddings)
             inf2 == [info EXCEPT !.prefilled = TRUE, !.embeddings = payload.embeddings,
                                  !.trailing = Trailing(text)]
  <2>1. Len(spoken) = 0 /\ talker = "ready"
    <3>1. ~(Len(spoken) > 0)
      BY <1>5, <1>7 DEF Prefill
    <3> QED BY ONLY <1>4, <1>v, <3>1
  <2>2. spoken' = <<FirstText(text)>> /\ info' = inf2
    BY <1>7, <2>1 DEF Prefill, Embeddings
  <2>3. inf2.prefilled = TRUE /\ inf2.trailing = Trailing(text)
    BY ONLY <1>v DEF InfoType
  <2> HIDE DEF inf2
  <2>4. text \in EmbeddingSeq /\ Len(text) = TextLen(output) /\ \A i \in 1..Len(text) : text[i] = PromptLen + i - 1
    <3>1. /\ Len(payload.embeddings) = PromptLen + TextLen(output)
          /\ \A i \in 1..PromptLen + TextLen(output) : payload.embeddings[i] = i - 1
          /\ payload.sequences = PromptLen + output
      BY ONLY <1>4 DEF IsWhole, Upto
    <3>2. TextLen(output) \in Nat /\ TextLen(output) <= output
      BY ONLY <1>v, Lengths
    <3>3. /\ PromptLen + TextLen(output) >= PromptLen /\ PromptLen + output >= PromptLen + TextLen(output)
          /\ (PromptLen + TextLen(output)) - PromptLen = TextLen(output)
      BY ONLY <1>v, <3>2
    <3>4. /\ text \in EmbeddingSeq
          /\ Len(text) = Len(payload.embeddings) - PromptLen
          /\ \A i \in 1..Len(payload.embeddings) - PromptLen : text[i] = payload.embeddings[PromptLen + i]
      BY <1>v, <3>1, <3>2, <3>3, TextType DEF TypeInv
    <3>5. \A i \in 1..TextLen(output) : PromptLen + i \in 1..PromptLen + TextLen(output)
      BY ONLY <1>v, <3>2
    <3> HIDE DEF text
    <3>6. Len(text) = TextLen(output)
      BY ONLY <3>1, <3>3, <3>4
    <3>7. \A i \in 1..TextLen(output) : text[i] = payload.embeddings[PromptLen + i]
      BY ONLY <3>1, <3>3, <3>4
    <3>8. \A i \in 1..TextLen(output) : payload.embeddings[PromptLen + i] = PromptLen + i - 1
      <4>1. \A i \in 1..TextLen(output) : PromptLen + i - 1 = (PromptLen + i) - 1
        BY ONLY <1>v, <3>2
      <4> QED BY ONLY <3>1, <3>5, <4>1
    <3>9. \A i \in 1..TextLen(output) : text[i] = PromptLen + i - 1
      BY ONLY <3>7, <3>8
    <3> QED BY ONLY <3>4, <3>6, <3>9
  <2> HIDE DEF text
  <2>5. /\ FirstText(text) = Said(Zeros, output, 1)
        /\ 1 + Len(Trailing(text)) >= EndAt(output)
        /\ \A j \in 1..Len(Trailing(text)) : Trailing(text)[j] = Said(Zeros, output, 1 + j)
    <3>1. output \in Nat \ {0}
      BY ONLY <1>4, <1>v
    <3> QED BY ONLY <2>4, <3>1, FullPrefill
  <2>6. FirstText(text) \in Inputs
    BY ONLY <2>4, QueueTypes
  <2>7. Speaks(Short, output, thinker, spoken)' /\ Len(spoken') = 1
    BY <1>1, <1>4, <2>1, <2>2, <2>5, <2>6, GivenFirst
  <2>8. TalkerFull(output, 1, TRUE, tk, inf2, 1)
    BY ONLY <1>2, <1>v, <2>3, <2>5, FullPrefilled
  <2> QED BY <1>6, <2>2, <2>7, <2>8
<1>8. CASE DecodeTrailing
  <2> DEFINE inf2 == [info EXCEPT !.trailing = IF Len(info.trailing) > 1 THEN Tail(info.trailing) ELSE <<Pad>>]
  <2>1. info.prefilled /\ spoken' = Append(spoken, Head(info.trailing)) /\ info' = inf2
    BY <1>8 DEF DecodeTrailing
  <2>2. /\ inf2.prefilled = TRUE
        /\ inf2.trailing = IF Len(info.trailing) > 1 THEN Tail(info.trailing) ELSE <<Pad>>
    BY ONLY <1>v, <2>1 DEF InfoType
  <2> HIDE DEF inf2
  <2>3. Len(spoken) > 0 /\ info.trailing # <<>> /\ TalkerFull(output, 1, TRUE, talker, info, Len(spoken))
    BY <1>3, <1>4, <1>5, <1>v, <2>1
  <2>4. /\ Head(info.trailing) = Said(Zeros, output, Len(spoken) + 1)
        /\ TalkerFull(output, 1, TRUE, tk, inf2, Len(spoken) + 1)
    BY ONLY <1>2, <1>v, <2>2, <2>3, FullDecode
  <2>5. Head(info.trailing) \in Inputs
    BY ONLY <1>v, <2>3, InputFacts DEF InfoType
  <2>6. Speaks(Short, output, thinker, spoken)' /\ Len(spoken') = Len(spoken) + 1
    BY <1>1, <1>4, <2>1, <2>4, <2>5, GivenNext
  <2> QED BY <1>6, <2>1, <2>4, <2>6
<1> QED BY <1>1, <1>7, <1>8

(* With chunks.                                                            *)
LEMMA StepAsyncInv ==
  ASSUME TypeInv, SpeechInv, TalkerStep, async_chunk
  PROVE  SpeechInv'
<1>v. /\ output \in Nat /\ put_req_chunk \in Nat /\ chunks \in Seq(ChunkType) /\ finished \in BOOLEAN
      /\ info \in InfoType /\ Len(spoken) \in Nat /\ PromptLen \in Nat /\ thinker \in {"running", "finished"}
      /\ payload.embeddings \in EmbeddingSeq /\ Len(chunks) \in Nat
  BY ONLY Values, TypeInv
<1>1. /\ MayStep /\ (Prefill \/ DecodeChunk)
      /\ Short = Eos /\ Short' = Short
      /\ UNCHANGED <<async_chunk, output, thinker, computed, put_req_chunk, saved, chunks, payload, finished>>
  BY StepValues DEF DecodeTrailing, Short
<1>2. PICK tk \in {"unready", "stopped"} : talker' = tk
  BY StepValues
<1>3. /\ ThinkerAsync(output, thinker, computed, put_req_chunk, saved)
      /\ LinkAsync(output, thinker, put_req_chunk, chunks, payload, finished)
      /\ TalkerAsync(output, thinker, put_req_chunk - Len(chunks), payload.embeddings, finished, talker, info,
                     Len(spoken))
  BY DEF SpeechInv, AsyncInv
<1> DEFINE got == put_req_chunk - Len(chunks)
           e == payload.embeddings
<1>4. talker = "ready" \/ (talker = "unready" /\ finished)
  BY <1>1 DEF MayStep
<1>5. /\ got \in Nat /\ got >= 1 /\ output >= 1 /\ got <= (IF output = 1 THEN 1 ELSE output - 1)
      /\ Len(e) = FirstLen(output) + got - 1
      /\ \A i \in 1..FirstLen(output) + got - 1 : e[i] = i - 1
      /\ got = 1 => payload.sequences >= FirstLen(output)
      /\ \/ talker = "ready" /\ got = Len(spoken) + 1
         \/ talker = "unready" /\ finished /\ Len(spoken) >= got /\ got = (IF output = 1 THEN 1 ELSE output - 1)
            /\ thinker = "finished" /\ info.embeddings = e
      /\ output = 1 => thinker = "finished"
  <2>1. AsyncInv /\ MayStep /\ got = put_req_chunk - Len(chunks)
    BY <1>1 DEF SpeechInv
  <2> HIDE DEF got
  <2> QED BY ONLY TypeInv, <2>1, AsyncStep
<1>6. /\ info.prefilled = (Len(spoken) > 0) /\ info.decode_flag = (Len(spoken) > 1)
      /\ Len(spoken) > 1 => info.num_processed = PromptLen + Len(spoken)
      /\ info.finished_flag = (thinker = "finished" /\ Len(spoken) >= EndAt(output))
  BY <1>3 DEF TalkerAsync
<1>7. \A inf2 : TalkerAsync(output, thinker, got, e, finished, tk, inf2, Len(spoken'))
                  /\ info' = inf2 /\ Speaks(Short, output, thinker, spoken)' => SpeechInv'
  BY <1>1, <1>2, <1>3 DEF SpeechInv, AsyncInv
<1> HIDE DEF got, e
<1>8. CASE Prefill
  <2> DEFINE text == TextEmbeddings(e)
             inf2 == [info EXCEPT !.prefilled = TRUE, !.embeddings = e, !.trailing = Trailing(text)]
  <2>1. Len(spoken) = 0 /\ ~(Len(spoken) > 0) /\ talker = "ready" /\ got = Len(spoken) + 1 /\ got = 1
    <3>1. ~(Len(spoken) > 0)
      BY <1>6, <1>8 DEF Prefill
    <3>2. Len(spoken) = 0 /\ ~(Len(spoken) >= got)
      BY ONLY <1>5, <1>v, <3>1
    <3>3. talker = "ready" /\ got = Len(spoken) + 1
      BY ONLY <1>5, <3>2
    <3>4. got = 1
      BY ONLY <3>2, <3>3
    <3> QED BY <3>1, <3>2, <3>3, <3>4
  <2>2. spoken' = <<FirstText(text)>> /\ info' = inf2
    BY <1>8, <2>1 DEF Prefill, Embeddings, e
  <2>3. /\ inf2.prefilled = TRUE /\ inf2.embeddings = e /\ inf2.decode_flag = info.decode_flag
        /\ inf2.finished_flag = info.finished_flag
    BY ONLY <1>v DEF InfoType
  <2> HIDE DEF inf2
  <2>4. /\ text \in EmbeddingSeq /\ Len(text) = FirstLen(output) - PromptLen
        /\ \A i \in 1..Len(text) : text[i] = PromptLen + i - 1
    <3>1. FirstLen(output) \in Nat /\ FirstLen(output) >= PromptLen
      BY ONLY <1>v, Lengths
    <3>2. FirstLen(output) + got - 1 = FirstLen(output)
      BY ONLY <2>1, <3>1
    <3>3. /\ Len(e) = FirstLen(output) /\ payload.sequences >= FirstLen(output)
          /\ \A i \in 1..FirstLen(output) : e[i] = i - 1
      BY <1>5, <2>1, <3>2
    <3>4. /\ text \in EmbeddingSeq
          /\ payload.sequences >= Len(e) /\ Len(e) >= PromptLen =>
               /\ Len(text) = Len(e) - PromptLen
               /\ \A i \in 1..Len(e) - PromptLen : text[i] = e[PromptLen + i]
      <4>1. e \in EmbeddingSeq /\ TypeOK
        BY <1>v DEF e, TypeInv
      <4> QED BY ONLY <4>1, TextType
    <3> HIDE DEF text
    <3>5. payload.sequences >= Len(e) /\ Len(e) >= PromptLen
      BY ONLY <3>1, <3>3
    <3>6. /\ Len(text) = FirstLen(output) - PromptLen
          /\ \A i \in 1..FirstLen(output) - PromptLen : text[i] = e[PromptLen + i]
      BY ONLY <3>3, <3>4, <3>5
    <3>7. \A i \in 1..FirstLen(output) - PromptLen :
             PromptLen + i \in 1..FirstLen(output) /\ PromptLen + i - 1 = (PromptLen + i) - 1
      BY ONLY <1>v, <3>1
    <3>8. \A i \in 1..FirstLen(output) - PromptLen : e[PromptLen + i] = PromptLen + i - 1
      BY ONLY <3>3, <3>7
    <3>9. \A i \in 1..FirstLen(output) - PromptLen : text[i] = PromptLen + i - 1
      BY ONLY <3>6, <3>8
    <3> QED BY ONLY <3>4, <3>6, <3>9
  <2> HIDE DEF text
  <2>5. FirstText(text) = Said(Short, output, 1) /\ (1 > TextLen(output) => thinker = "finished")
    BY ONLY <1>5, <1>v, <2>4, AsyncPrefill
  <2>6. FirstText(text) \in Inputs
    BY ONLY <2>4, QueueTypes
  <2>7. Speaks(Short, output, thinker, spoken)' /\ Len(spoken') = 1
    BY <1>1, <2>1, <2>2, <2>5, <2>6, GivenFirst
  <2>8. TalkerAsync(output, thinker, got, e, finished, tk, inf2, Len(spoken) + 1)
    <3>1. inf2.decode_flag = (Len(spoken) > 0)
      <4>1. (Len(spoken) > 1) = FALSE /\ (Len(spoken) > 0) = FALSE
        BY ONLY <2>1
      <4> QED BY <1>6, <2>3, <4>1
    <3>2. inf2.finished_flag = (thinker = "finished" /\ Len(spoken) + 1 >= EndAt(output))
      <4>1. (Len(spoken) >= EndAt(output)) = FALSE /\ (Len(spoken) + 1 >= EndAt(output)) = FALSE
        <5>1. output \in Nat
          BY ONLY <1>v
        <5>2. EndAt(output) \in Nat /\ EndAt(output) >= 2
          BY ONLY <5>1 DEF EndAt
        <5> QED BY ONLY <2>1, <5>2
      <4> QED BY <1>6, <2>3, <4>1
    <3>3. got = Len(spoken) + 1 \/ (finished /\ Len(spoken) >= got)
      BY <2>1
    <3> QED BY ONLY ZenonT(40), <1>2, <1>5, <1>v, <2>1, <2>3, <3>1, <3>2, <3>3, AsyncStepped
  <2>9. Len(spoken') = Len(spoken) + 1
    <3>1. Len(spoken) + 1 = 1
      BY ONLY <2>1
    <3> QED BY <2>7, <3>1
  <2> QED BY <1>7, <2>2, <2>7, <2>8, <2>9
<1>9. CASE DecodeChunk
  <2> DEFINE x == TextAt(StartIndex)
             inf2 == [info EXCEPT !.decode_flag = TRUE, !.num_processed = StartIndex + 1,
                                  !.finished_flag = info.finished_flag \/ StartIndex >= Len(Embeddings),
                                  !.embeddings = Embeddings]
  <2>1. info.prefilled /\ spoken' = Append(spoken, x) /\ info' = inf2
    BY <1>9 DEF DecodeChunk
  <2>2. Len(spoken) >= 1 /\ Len(spoken) > 0
    <3>1. Len(spoken) > 0
      BY <1>6, <2>1
    <3> QED BY ONLY <1>v, <3>1
  <2>3. Embeddings = e
    BY ONLY <1>5 DEF Embeddings, e
  <2>4. StartIndex = PromptLen + Len(spoken)
    <3>1. CASE Len(spoken) > 1
      BY <1>6, <3>1 DEF StartIndex
    <3>2. CASE ~(Len(spoken) > 1)
      <4>1. PromptLen + 1 = PromptLen + Len(spoken)
        BY ONLY <1>v, <2>2, <3>2
      <4> QED BY <1>6, <3>2, <4>1 DEF StartIndex
    <3> QED BY <3>1, <3>2
  <2>5. /\ inf2.prefilled = TRUE /\ inf2.decode_flag = TRUE /\ inf2.embeddings = e
        /\ inf2.num_processed = PromptLen + Len(spoken) + 1
        /\ inf2.finished_flag = (info.finished_flag \/ PromptLen + Len(spoken) >= Len(e))
    BY ONLY <1>v, <2>1, <2>3, <2>4 DEF InfoType
  <2>6. x \in Inputs
    BY TextAtType DEF TypeInv
  <2> HIDE DEF inf2
  <2>7. /\ x = Said(Short, output, Len(spoken) + 1)
        /\ Len(spoken) + 1 > TextLen(output) => thinker = "finished"
        /\ (info.finished_flag \/ PromptLen + Len(spoken) >= Len(e))
             = (thinker = "finished" /\ Len(spoken) + 1 >= EndAt(output))
    <3> DEFINE len == Len(spoken)
               flag == info.finished_flag
    <3>1. x = IF PromptLen + len < Len(e) THEN Text(e[PromptLen + len + 1]) ELSE IF flag THEN Pad ELSE Eos
      BY <2>3, <2>4 DEF TextAt
    <3>2. got = len + 1 \/ (len >= got /\ got = (IF output = 1 THEN 1 ELSE output - 1) /\ thinker = "finished")
      BY ONLY <1>5
    <3>3. flag = (thinker = "finished" /\ len >= EndAt(output)) /\ len \in Nat /\ len >= 1
      BY ONLY <1>6, <1>v, <2>2
    <3> HIDE DEF x, len, flag
    <3>4. /\ (IF PromptLen + len < Len(e) THEN Text(e[PromptLen + len + 1]) ELSE IF flag THEN Pad ELSE Eos)
               = Said(Eos, output, len + 1)
          /\ len + 1 > TextLen(output) => thinker = "finished"
          /\ (flag \/ PromptLen + len >= Len(e)) = (thinker = "finished" /\ len + 1 >= EndAt(output))
      <4>1. Decodes(output, thinker, got, len, e, flag)
        BY ONLY <1>5, <1>v, <3>2, <3>3 DEF Decodes
      <4> QED BY ONLY <4>1, AsyncDecode
    <3>5. x = Said(Short, output, len + 1)
      BY <1>1, <3>1, <3>4
    <3> QED BY ONLY <3>4, <3>5 DEF len, flag
  <2> HIDE DEF x
  <2>8. Speaks(Short, output, thinker, spoken)' /\ Len(spoken') = Len(spoken) + 1
    BY <1>1, <2>1, <2>6, <2>7, GivenNext
  <2>9. TalkerAsync(output, thinker, got, e, finished, tk, inf2, Len(spoken) + 1)
    <3>1. inf2.decode_flag = (Len(spoken) > 0)
      BY <2>2, <2>5
    <3>2. inf2.finished_flag = (thinker = "finished" /\ Len(spoken) + 1 >= EndAt(output))
      BY <2>5, <2>7
    <3>3. got = Len(spoken) + 1 \/ (finished /\ Len(spoken) >= got)
      BY ONLY <1>5
    <3> QED BY ONLY ZenonT(40), <1>2, <1>5, <1>v, <2>5, <3>1, <3>2, <3>3, AsyncStepped
  <2> QED BY <1>7, <2>1, <2>8, <2>9
<1> QED BY <1>1, <1>8, <1>9

(* Every step of the system: one that begins in a state that is not        *)
(* regular ends in one, too.                                               *)
LEMMA NextSpeech ==
  ASSUME TypeInv, Regular => SpeechInv, [Next]_vars, Regular'
  PROVE  SpeechInv'
<1>1. CASE UNCHANGED vars
  <2>1. Regular
    BY <1>1 DEF Regular, vars, thinkerVars
  <2>2. Short' = Short
    BY <1>1 DEF Short, vars
  <2> QED BY <1>1, <2>1, <2>2
          DEF vars, thinkerVars, linkVars, talkerVars, SpeechInv, AsyncInv, FullInv
<1>2. ASSUME NEW last \in BOOLEAN, Sample(last) PROVE SpeechInv'
  <2>1. SpeechInv
    BY <1>2 DEF Sample, Regular
  <2> QED BY <1>2, <2>1, SampleFullInv, SampleAsyncInv
<1>3. ASSUME NEW n \in 1..PromptLen + MaxOutput, ComputePart(n) PROVE SpeechInv'
  <2>1. /\ splits' = splits + 1 /\ preemptions' = preemptions /\ async_chunk' = async_chunk
    BY <1>3 DEF ComputePart
  <2>2. splits + 1 # 0
    BY ONLY Values, TypeInv
  <2>3. SpeechInv
    BY <2>1, <2>2 DEF Regular
  <2> QED BY <1>3, <2>3, ComputeInv
<1>4. ASSUME Preempt PROVE FALSE
  <2>1. preemptions' = preemptions + 1
    BY <1>4 DEF Preempt
  <2>2. preemptions + 1 # 0
    BY ONLY Values, TypeInv
  <2> QED BY <2>1, <2>2 DEF Regular
<1>5. CASE Ask
  <2>1. SpeechInv
    BY <1>5 DEF Ask, Regular, thinkerVars
  <2> QED BY <1>5, <2>1, AskInv
<1>6. CASE Receive
  <2>1. SpeechInv
    BY <1>6 DEF Receive, Regular, thinkerVars
  <2> QED BY <1>6, <2>1, ReceiveInv
<1>7. CASE TalkerStep
  <2>1. SpeechInv
    BY <1>7 DEF TalkerStep, Regular, thinkerVars
  <2> QED BY <1>7, <2>1, StepFullInv, StepAsyncInv
<1> QED BY <1>1, <1>2, <1>3, <1>4, <1>5, <1>6, <1>7 DEF Next, Thinker

(* The invariant holds, and it says what is spoken.                        *)
LEMMA InvHolds == Safety => []TalkerInv
<1>1. Init => TalkerInv
  BY InitInv
<1>2. TalkerInv /\ [Next]_vars => TalkerInv'
  <2> SUFFICES ASSUME TalkerInv, [Next]_vars PROVE TalkerInv'
    OBVIOUS
  <2>1. TypeInv'
    BY NextTypes DEF TalkerInv
  <2>2. Regular' => SpeechInv'
    BY NextSpeech DEF TalkerInv
  <2> QED BY <2>1, <2>2 DEF TalkerInv
<1> QED BY <1>1, <1>2, PTL DEF Safety

(* What the invariant says of the inputs is what the model expects.        *)
LEMMA InvSpeaks == TalkerInv => SpeaksInOrder
<1> SUFFICES ASSUME TalkerInv, Regular PROVE SpeaksExpected
  BY DEF SpeaksInOrder
<1>1. TypeInv /\ Speaks(Short, output, thinker, spoken) /\ TypeOK
  BY DEF TalkerInv, SpeechInv, TypeInv
<1>2. DOMAIN spoken = 1..Len(spoken) /\ Len(spoken) \in Nat
  BY <1>1, Values, InputFacts
<1>3. NumText = TextLen(output)
  BY DEF NumText, TextLen
<1>4. ASSUME NEW i \in DOMAIN spoken
      PROVE  spoken[i] = Expected(i) /\ (i > NumText => thinker = "finished")
  <2>1. i \in 1..Len(spoken) /\ i \in Nat \ {0}
    BY ONLY <1>2, i \in DOMAIN spoken
  <2>2. spoken[i] = Said(Short, output, i) /\ (i > TextLen(output) => thinker = "finished")
    BY <1>1, <2>1 DEF Speaks
  <2>3. Expected(i) = Said(Short, output, i)
    BY ONLY <1>1, <2>1, SaidExpected
  <2> QED BY <1>3, <2>2, <2>3
<1> QED BY <1>4 DEF SpeaksExpected

(* For all lengths and bounds, in both modes and whatever the order of the *)
(* stages' steps: the talker is given the thinker's text, each token once  *)
(* and in order, and what ends it not before the thinker has finished      *)
(* (talker_preprocess_decode, _thinker_to_talker_prefill, MayStep).        *)
THEOREM SpeaksText == Spec => []SpeaksInOrder
BY InvHolds, InvSpeaks, PTL DEF Spec

-----------------------------------------------------------------------------
(* What the thinker computed is neither lost nor repeated on its way.      *)

(* The embeddings some chunks carry.                                       *)
Carried(q) == FlattenSeq([i \in DOMAIN q |-> q[i].embeddings])

(* Between its steps the runner works on all that was received; it has     *)
(* stepped once the final chunk is there, and asks for no chunk after it.  *)
RunnerInv ==
  /\ IsPrefix(info.embeddings, payload.embeddings)
  /\ talker # "ready" /\ info.prefilled => info.embeddings = payload.embeddings
  /\ talker = "unready" /\ finished => info.prefilled
  /\ talker = "waiting" => ~finished

(* Without chunks the one there is is the final one, and nothing comes     *)
(* after the prefill.                                                      *)
OneChunkInv ==
  ~async_chunk =>
    /\ \A i \in DOMAIN chunks : chunks[i].finished
    /\ talker = "ready" => finished /\ ~info.prefilled
    /\ info.prefilled => finished

IntactInv ==
  /\ (payload.embeddings \o Carried(chunks)) \o saved = pooled
  /\ RunnerInv
  /\ OneChunkInv

(* A chunk more, and one less.                                             *)
LEMMA CarriedFacts ==
  /\ Carried(<<>>) = <<>>
  /\ \A q \in Seq(ChunkType) :
       /\ Carried(q) \in EmbeddingSeq
       /\ \A c \in ChunkType : Carried(Append(q, c)) = Carried(q) \o c.embeddings
       /\ q # <<>> => Carried(q) = Head(q).embeddings \o Carried(Tail(q))
<1> DEFINE S == 0..PromptLen + MaxOutput
           f == [c \in ChunkType |-> c.embeddings]
<1>1. Maps(f, ChunkType, S)
  BY DEF Maps, ChunkType, EmbeddingSeq
<1>2. \A c \in ChunkType : f[c] = c.embeddings
  OBVIOUS
<1>3. EmbeddingSeq = Seq(S)
  BY DEF EmbeddingSeq
<1> HIDE DEF S, f
<1>4. ASSUME NEW q \in Seq(ChunkType) PROVE Carried(q) = Mapped(f, q)
  <2>1. \A i \in DOMAIN q : q[i] \in ChunkType
    BY ChunkFacts
  <2>2. [i \in DOMAIN q |-> q[i].embeddings] = [i \in DOMAIN q |-> f[q[i]]]
    BY <1>2, <2>1
  <2>. QED BY <2>2 DEF Carried, Mapped
<1>5. Carried(<<>>) = <<>>
  <2>1. <<>> \in Seq(ChunkType)
    OBVIOUS
  <2>. QED BY <1>4, <2>1, MappedEmpty
<1>6. ASSUME NEW q \in Seq(ChunkType)
      PROVE  /\ Carried(q) \in EmbeddingSeq
             /\ \A c \in ChunkType : Carried(Append(q, c)) = Carried(q) \o c.embeddings
             /\ q # <<>> => Carried(q) = Head(q).embeddings \o Carried(Tail(q))
  <2>1. Carried(q) \in EmbeddingSeq
    BY <1>1, <1>3, <1>4, MappedType
  <2>2. ASSUME NEW c \in ChunkType PROVE Carried(Append(q, c)) = Carried(q) \o c.embeddings
    <3>1. Append(q, c) \in Seq(ChunkType)
      BY ChunkFacts
    <3>2. Mapped(f, Append(q, c)) = Mapped(f, q) \o f[c]
      BY <1>1, MappedAppend
    <3>. QED BY <1>2, <1>4, <3>1, <3>2
  <2>3. ASSUME q # <<>> PROVE Carried(q) = Head(q).embeddings \o Carried(Tail(q))
    <3>1. Head(q) \in ChunkType /\ Tail(q) \in Seq(ChunkType) /\ Mapped(f, q) = f[Head(q)] \o Mapped(f, Tail(q))
      BY <1>1, <2>3, MappedTail
    <3>. QED BY <1>2, <1>4, <3>1
  <2>. QED BY <2>1, <2>2, <2>3
<1>. QED BY <1>5, <1>6

(* Regrouping.                                                             *)
LEMMA RegroupedThree ==
  ASSUME NEW S, NEW a \in Seq(S), NEW b \in Seq(S), NEW c \in Seq(S)
  PROVE  a \o (b \o c) = (a \o b) \o c /\ a \o b \in Seq(S)
BY ConcatAssociative, ConcatProperties

(* And with what is kept back.                                             *)
Regroups(a, b, c, d) ==
  /\ (a \o (b \o c)) \o d = ((a \o b) \o c) \o d
  /\ ((a \o b) \o c) \o d = (a \o (b \o (c \o d))) \o <<>>
  /\ ((a \o b) \o c) \o d = (a \o b) \o (c \o d)
  /\ <<>> \o d = d

(* For all sequences of embeddings.                                        *)
LEMMA RegroupedEnd ==
  ASSUME NEW a \in EmbeddingSeq, NEW b \in EmbeddingSeq, NEW c \in EmbeddingSeq, NEW d \in EmbeddingSeq
  PROVE  Regroups(a, b, c, d)
<1> DEFINE S == 0..PromptLen + MaxOutput
           ab == a \o b
           bc == b \o c
           cd == c \o d
<1>1. a \in Seq(S) /\ b \in Seq(S) /\ c \in Seq(S) /\ d \in Seq(S)
  BY DEF EmbeddingSeq
<1> HIDE DEF S
<1>2. ab \in Seq(S) /\ bc \in Seq(S) /\ cd \in Seq(S) /\ ab \o c = a \o bc
  BY <1>1, RegroupedThree, SMTT(30)
<1>3. cd \in Seq(S) /\ ab \in Seq(S)
  BY <1>2
<1> DEFINE e == b \o cd
           f == a \o e
<1>4. e \in Seq(S) /\ ab \o cd = f
  <2> HIDE DEF cd
  <2>1. (a \o b) \o cd = a \o (b \o cd) /\ b \o cd \in Seq(S)
    BY <1>1, <1>3, RegroupedThree, SMTT(30)
  <2>. QED BY <2>1
<1>5. (ab \o c) \o d = ab \o cd
  <2> HIDE DEF ab
  <2>. QED BY <1>1, <1>3, RegroupedThree, SMTT(30)
<1>6. f \in Seq(S)
  <2> HIDE DEF e
  <2>. QED BY <1>1, <1>4
<1>7. f \o <<>> = f /\ <<>> \o d = d
  <2> HIDE DEF f
  <2>. QED BY <1>1, <1>6, ConcatEmptySeq
<1>. QED BY <1>2, <1>4, <1>5, <1>7 DEF Regroups

(* Whatever a step of the thinker computes is kept back or sent.           *)
LEMMA EmitIntact ==
  ASSUME TypeInv, NEW pool \in EmbeddingSeq, NEW tokens \in Nat, tokens >= PromptLen, NEW last \in BOOLEAN,
         Emit(pool, tokens, last), (payload.embeddings \o Carried(chunks)) \o saved = pooled
  PROVE  /\ (payload.embeddings \o Carried(chunks')) \o saved' = pooled \o pool
         /\ ~async_chunk /\ (\A i \in DOMAIN chunks : chunks[i].finished)
              => \A i \in DOMAIN chunks' : chunks'[i].finished
<1> DEFINE p == payload.embeddings
           c == Carried(chunks)
<1>1. saved \in EmbeddingSeq /\ chunks \in Seq(ChunkType) /\ p \in EmbeddingSeq
  BY DEF TypeInv, TypeOK, ChunkType
<1>2. c \in EmbeddingSeq
  BY <1>1, CarriedFacts
<1>3. saved \o pool \in EmbeddingSeq /\ (p \o c) \o saved = pooled /\ <<>> \in EmbeddingSeq
  BY <1>1, EmbeddingFacts
<1>4. ((p \o c) \o saved) \o pool = (p \o c) \o (saved \o pool)
      /\ ((p \o c) \o saved) \o pool = (p \o (c \o (saved \o pool))) \o <<>>
      /\ <<>> \o pool = pool
  <2>1. Regroups(p, c, saved, pool)
    BY <1>1, <1>2, RegroupedEnd
  <2>. QED BY <2>1 DEF Regroups
<1>5. \/ saved = <<>> /\ saved' = pool /\ UNCHANGED chunks
      \/ saved' = saved \o pool /\ UNCHANGED chunks
      \/ \E l \in BOOLEAN : Send(Chunk(saved \o pool, tokens, l)) /\ (~async_chunk => l)
  BY DEF Emit, AsyncChunk, Gather
<1>6. CASE saved = <<>> /\ saved' = pool /\ UNCHANGED chunks
  <2>1. saved' = saved \o pool
    BY <1>4, <1>6
  <2>. QED BY <1>3, <1>4, <1>6, <2>1
<1>7. CASE saved' = saved \o pool /\ UNCHANGED chunks
  BY <1>3, <1>4, <1>7
<1>8. ASSUME NEW l \in BOOLEAN, Send(Chunk(saved \o pool, tokens, l)), ~async_chunk => l
      PROVE  /\ (payload.embeddings \o Carried(chunks')) \o saved' = pooled \o pool
             /\ ~async_chunk /\ (\A i \in DOMAIN chunks : chunks[i].finished)
                  => \A i \in DOMAIN chunks' : chunks'[i].finished
  <2> DEFINE x == Chunk(saved \o pool, tokens, l)
  <2>1. x \in ChunkType /\ x.embeddings = saved \o pool /\ x.finished = l
    <3>1. put_req_chunk \in Nat /\ PromptLen \in Nat /\ tokens - PromptLen \in Nat
      BY TalkerAssumption DEF TypeInv, TypeOK
    <3>. QED BY <1>3, <3>1 DEF Chunk, ChunkType
  <2>2. chunks' = Append(chunks, x) /\ saved' = <<>>
    BY <1>8 DEF Send
  <2> HIDE DEF x
  <2>3. Carried(chunks') = c \o (saved \o pool)
    BY <1>1, <2>1, <2>2, CarriedFacts
  <2>4. (p \o Carried(chunks')) \o saved' = pooled \o pool
    BY <1>3, <1>4, <2>2, <2>3
  <2>5. ASSUME ~async_chunk, \A i \in DOMAIN chunks : chunks[i].finished, NEW i \in DOMAIN chunks'
        PROVE  chunks'[i].finished
    <3>1. /\ chunks' \in Seq(ChunkType) /\ Len(chunks) \in Nat /\ DOMAIN chunks = 1..Len(chunks)
          /\ DOMAIN chunks' = 1..Len(chunks) + 1
          /\ chunks'[Len(chunks) + 1] = x /\ \A k \in 1..Len(chunks) : chunks'[k] = chunks[k]
      BY <1>1, <2>1, <2>2, ChunkFacts
    <3>2. CASE i = Len(chunks) + 1
      BY <1>8, <2>1, <2>5, <3>1, <3>2
    <3>3. CASE i \in 1..Len(chunks)
      BY <2>5, <3>1, <3>3
    <3>. QED BY <2>5, <3>1, <3>2, <3>3
  <2>. QED BY <2>4, <2>5
<1>. QED BY <1>5, <1>6, <1>7, <1>8

(* So the thinker's steps keep everything intact.                          *)
LEMMA ThinkerIntact ==
  ASSUME TypeInv, IntactInv, Thinker
  PROVE  IntactInv'
<1>1. ASSUME NEW n \in 1..PromptLen + MaxOutput, ComputePart(n) PROVE IntactInv'
  <2>1. n \in Nat /\ computed + n <= NumTokens /\ NumTokens \in Nat /\ NumTokens >= PromptLen
    BY <1>1, TalkerAssumption DEF ComputePart, NumTokens, TypeInv, TypeOK
  <2>2. Positions(n) \in EmbeddingSeq
    BY <2>1, PositionsType DEF TypeInv
  <2>3. Emit(Positions(n), NumTokens, FALSE) /\ pooled' = pooled \o Positions(n)
        /\ UNCHANGED <<async_chunk, talkerVars>>
    BY <1>1 DEF ComputePart
  <2>4. /\ (payload.embeddings \o Carried(chunks')) \o saved' = pooled \o Positions(n)
        /\ ~async_chunk /\ (\A i \in DOMAIN chunks : chunks[i].finished)
             => \A i \in DOMAIN chunks' : chunks'[i].finished
    BY <2>1, <2>2, <2>3, EmitIntact DEF IntactInv
  <2>. QED BY <2>3, <2>4 DEF IntactInv, RunnerInv, OneChunkInv, talkerVars
<1>2. ASSUME NEW last \in BOOLEAN, Sample(last) PROVE IntactInv'
  <2> DEFINE n == NumTokens - computed
  <2>1. n \in Nat /\ computed + n <= NumTokens /\ NumTokens + 1 \in Nat /\ NumTokens + 1 >= PromptLen
    BY TalkerAssumption DEF NumTokens, TypeInv, TypeOK
  <2>2. Positions(n) \in EmbeddingSeq
    BY <2>1, PositionsType DEF TypeInv
  <2>3. Emit(Positions(n), NumTokens + 1, last) /\ pooled' = pooled \o Positions(n)
        /\ UNCHANGED <<async_chunk, talkerVars>>
    BY <1>2 DEF Sample
  <2> HIDE DEF n
  <2>4. /\ (payload.embeddings \o Carried(chunks')) \o saved' = pooled \o Positions(n)
        /\ ~async_chunk /\ (\A i \in DOMAIN chunks : chunks[i].finished)
             => \A i \in DOMAIN chunks' : chunks'[i].finished
    BY <2>1, <2>2, <2>3, EmitIntact DEF IntactInv
  <2>. QED BY <2>3, <2>4 DEF IntactInv, RunnerInv, OneChunkInv, talkerVars
<1>. QED BY <1>1, <1>2 DEF Thinker

(* A prefix of what was received stays one when more is received.          *)
LEMMA PrefixGrows ==
  ASSUME NEW a \in EmbeddingSeq, NEW b \in EmbeddingSeq, NEW c \in EmbeddingSeq, IsPrefix(a, b)
  PROVE  IsPrefix(a, b \o c)
<1> DEFINE S == 0..PromptLen + MaxOutput
<1>1. a \in Seq(S) /\ b \in Seq(S) /\ c \in Seq(S)
  BY DEF EmbeddingSeq
<1> HIDE DEF S
<1>2. Len(a) \in Nat /\ Len(b) \in Nat /\ Len(c) \in Nat /\ Len(a) <= Len(b) /\ SubSeq(a, 1, Len(a)) = SubSeq(b, 1, Len(a))
  BY <1>1, LenProperties DEF IsPrefix
<1>3. Len(b \o c) = Len(b) + Len(c) /\ \A i \in 1..Len(b) : (b \o c)[i] = b[i]
  BY <1>1, ConcatProperties
<1>4. SubSeq(b \o c, 1, Len(a)) = SubSeq(b, 1, Len(a))
  BY <1>2, <1>3
<1>5. Len(a) <= Len(b \o c)
  BY <1>2, <1>3
<1>. QED BY <1>2, <1>4, <1>5 DEF IsPrefix

(* A chunk is taken off the queue and added to what was received.          *)
LEMMA ReceiveIntact ==
  ASSUME TypeInv, IntactInv, Receive
  PROVE  IntactInv'
<1> DEFINE p == payload.embeddings
           h == Head(chunks).embeddings
           t == Carried(Tail(chunks))
<1>1. /\ chunks \in Seq(ChunkType) /\ chunks # <<>> /\ p \in EmbeddingSeq /\ saved \in EmbeddingSeq
      /\ info.embeddings \in EmbeddingSeq
  BY DEF TypeInv, TypeOK, ChunkType, Receive
<1>2. /\ Head(chunks) \in ChunkType /\ Tail(chunks) \in Seq(ChunkType) /\ Head(chunks) = chunks[1]
      /\ Len(chunks) \in Nat /\ DOMAIN chunks = 1..Len(chunks) /\ Len(chunks) >= 1
      /\ DOMAIN Tail(chunks) = 1..Len(chunks) - 1
      /\ \A i \in 1..Len(chunks) - 1 : Tail(chunks)[i] = chunks[i + 1]
  BY <1>1, ChunkFacts
<1>3. h \in EmbeddingSeq /\ t \in EmbeddingSeq /\ Carried(chunks) = h \o t
  BY <1>1, <1>2, CarriedFacts DEF ChunkType
<1>4. payload'.embeddings = p \o h /\ chunks' = Tail(chunks) /\ talker = "waiting" /\ talker' = "ready"
      /\ finished' = Head(chunks).finished /\ UNCHANGED <<async_chunk, saved, info, pooled>>
  BY DEF Receive, Concatenated, thinkerVars
<1>5. (p \o Carried(chunks)) \o saved = pooled
  BY DEF IntactInv
<1>6. (p \o (h \o t)) \o saved = ((p \o h) \o t) \o saved
  <2>1. Regroups(p, h, t, saved)
    BY <1>1, <1>3, RegroupedEnd
  <2>. QED BY <2>1 DEF Regroups
<1>7. IsPrefix(info.embeddings, p \o h)
  BY <1>1, <1>3, PrefixGrows DEF IntactInv, RunnerInv
<1>8. OneChunkInv'
  <2>1. ASSUME ~async_chunk, NEW i \in DOMAIN Tail(chunks) PROVE Tail(chunks)[i].finished
    <3>1. i + 1 \in 1..Len(chunks) /\ Tail(chunks)[i] = chunks[i + 1]
      BY <1>2, <2>1
    <3>. QED BY <1>2, <2>1, <3>1 DEF IntactInv, OneChunkInv
  <2>2. ~async_chunk => Head(chunks).finished
    BY <1>2 DEF IntactInv, OneChunkInv
  <2>. QED BY <1>4, <2>1, <2>2 DEF IntactInv, OneChunkInv, RunnerInv
<1> HIDE DEF h, t
<1>9. (payload'.embeddings \o Carried(chunks')) \o saved' = pooled'
  BY <1>3, <1>4, <1>5, <1>6 DEF t
<1>. QED BY <1>4, <1>7, <1>8, <1>9 DEF IntactInv, RunnerInv

(* A prefix of itself.                                                     *)
LEMMA PrefixOfItself == ASSUME NEW a \in EmbeddingSeq PROVE IsPrefix(a, a)
BY EmbeddingFacts DEF IsPrefix

(* A step works on what was received.                                      *)
LEMMA StepIntact ==
  ASSUME TypeInv, IntactInv, TalkerStep
  PROVE  IntactInv'
<1>1. /\ talker' \in {"unready", "stopped"} /\ talker \in {"ready", "unready"} /\ (talker = "unready" => finished)
      /\ UNCHANGED <<async_chunk, saved, chunks, pooled, payload, finished>>
  BY DEF TalkerStep, MayStep, thinkerVars, linkVars
<1>2. info \in InfoType /\ payload.embeddings \in EmbeddingSeq
  BY DEF TypeInv, TypeOK, InfoType
<1>3. Embeddings = payload.embeddings
  BY <1>1 DEF Embeddings, IntactInv, RunnerInv
<1>4. \/ Prefill
      \/ DecodeChunk
      \/ DecodeTrailing
  BY DEF TalkerStep
<1>5. /\ info'.prefilled /\ info'.embeddings = payload.embeddings
      /\ ~async_chunk => finished
  <2>1. CASE Prefill
    <3>1. info'.prefilled /\ info'.embeddings = Embeddings
      BY <1>2, <2>1 DEF Prefill, InfoType
    <3>. QED BY <1>1, <1>3, <3>1 DEF IntactInv, OneChunkInv
  <2>2. CASE DecodeChunk
    <3>1. info'.prefilled /\ info'.embeddings = Embeddings /\ async_chunk
      BY <1>2, <2>2 DEF DecodeChunk, InfoType
    <3>. QED BY <1>3, <3>1
  <2>3. CASE DecodeTrailing
    <3>1. info'.prefilled /\ info.prefilled /\ info'.embeddings = info.embeddings /\ ~async_chunk
      BY <1>2, <2>3 DEF DecodeTrailing, InfoType
    <3>. QED BY <1>1, <3>1 DEF IntactInv, OneChunkInv, RunnerInv
  <2>. QED BY <1>4, <2>1, <2>2, <2>3
<1>6. IsPrefix(payload.embeddings, payload.embeddings)
  BY <1>2, PrefixOfItself
<1>. QED BY <1>1, <1>5, <1>6 DEF IntactInv, RunnerInv, OneChunkInv

(* Every step.                                                             *)
LEMMA NextIntact == TypeInv /\ IntactInv /\ [Next]_vars => IntactInv'
<1> SUFFICES ASSUME TypeInv, IntactInv, [Next]_vars PROVE IntactInv'
  OBVIOUS
<1>1. CASE Preempt
  BY <1>1 DEF Preempt, IntactInv, RunnerInv, OneChunkInv, linkVars, talkerVars
<1>2. CASE Ask
  BY <1>2 DEF Ask, IntactInv, RunnerInv, OneChunkInv, thinkerVars, linkVars
<1>3. CASE UNCHANGED vars
  BY <1>3 DEF vars, IntactInv, RunnerInv, OneChunkInv, thinkerVars, linkVars, talkerVars
<1>. QED BY <1>1, <1>2, <1>3, ThinkerIntact, ReceiveIntact, StepIntact DEF Next

(* Initially.                                                              *)
LEMMA InitIntact == Init => IntactInv
<1> SUFFICES ASSUME Init PROVE IntactInv
  OBVIOUS
<1>1. <<>> \in EmbeddingSeq /\ Carried(<<>>) = <<>>
  BY EmbeddingFacts, CarriedFacts
<1>2. (<<>> \o <<>>) \o <<>> = <<>>
  BY <1>1, RegroupedEnd DEF Regroups
<1>3. IsPrefix(<<>>, <<>>)
  BY <1>1, PrefixOfItself
<1>. QED BY <1>1, <1>2, <1>3 DEF Init, IntactInv, RunnerInv, OneChunkInv

(* For any lengths, parts and preemptions, and in both modes: what was     *)
(* received, what the chunks on their way carry and what is kept back are  *)
(* what the thinker computed, in order and once; the runner works on what  *)
(* was received, and on all of it when it steps without a chunk.           *)
THEOREM EmbeddingsStayIntact == Spec => []EmbeddingsIntact
<1>1. IntactInv => EmbeddingsIntact
  BY DEF IntactInv, RunnerInv, Carried, EmbeddingsIntact
<1>2. Safety => []IntactInv
  BY TypesHold, InitIntact, NextIntact, PTL DEF Safety
<1>. QED BY <1>1, <1>2, PTL DEF Spec

=============================================================================
