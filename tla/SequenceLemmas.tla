---------------------------- MODULE SequenceLemmas ----------------------------
(***************************************************************************)
(* Lemmas about sequences that the proofs of several components cite.      *)
(* Induction is by the least counterexample: the least-number principle    *)
(* for a SET of numbers follows from the well-foundedness of the naturals, *)
(* and induction principles that take a set of sequences follow from it.   *)
(***************************************************************************)
EXTENDS Selection, Integers, SequenceTheorems, FiniteSetTheorems,
        WellFoundedInduction, TLAPS

-----------------------------------------------------------------------------
(* Induction.                                                              *)

(* Every non-empty set of numbers has a least element.                     *)
LEMMA LeastNumber ==
  ASSUME NEW S, S \subseteq Nat, S # {}
  PROVE  \E m \in S : \A n \in S : m <= n
<1> DEFINE R == {ij \in Nat \X Nat : ij[1] < ij[2]}
<1>1. IsWellFoundedOn(R, Nat)
  BY NatLessThanWellFounded DEF OpToRel
<1>2. PICK m \in S : \A n \in S : <<n, m>> \notin R
  BY <1>1, WFMin
<1>3. ASSUME NEW n \in S
      PROVE  m <= n
  <2>1. m \in Nat /\ n \in Nat /\ <<n, m>> \notin R
    BY <1>2
  <2>. QED BY <2>1
<1>. QED BY <1>3

(* A set that holds 0 and the successor of each of its elements holds      *)
(* every number.                                                           *)
LEMMA NumberInduction ==
  ASSUME NEW S, 0 \in S, \A n \in Nat : n \in S => n + 1 \in S
  PROVE  Nat \subseteq S
<1> SUFFICES ASSUME Nat \ S # {} PROVE FALSE
  OBVIOUS
<1>1. PICK m \in Nat \ S : \A n \in Nat \ S : m <= n
  BY LeastNumber
<1>2. m # 0 /\ m - 1 \in Nat /\ ~(m <= m - 1) /\ (m - 1) + 1 = m
  BY <1>1
<1>3. m - 1 \in S
  BY <1>1, <1>2
<1>. QED BY <1>1, <1>2, <1>3

(* A set that holds the empty sequence and all that append to one of its   *)
(* elements holds every sequence.                                          *)
LEMMA SequenceInduction ==
  ASSUME NEW T, NEW S, <<>> \in S, \A s \in Seq(T), e \in T : s \in S => Append(s, e) \in S
  PROVE  Seq(T) \subseteq S
<1> DEFINE N == {n \in Nat : \A s \in Seq(T) : Len(s) = n => s \in S}
<1>1. 0 \in N
  BY EmptySeq
<1>2. ASSUME NEW n \in Nat, n \in N
      PROVE  n + 1 \in N
  <2> SUFFICES ASSUME NEW s \in Seq(T), Len(s) = n + 1
               PROVE  s \in S
    OBVIOUS
  <2>1. s # <<>>
    BY EmptySeq
  <2>2. PICK t \in Seq(T), e \in T : s = Append(t, e)
    BY <2>1, SequenceEmptyOrAppend
  <2>3. Len(s) = Len(t) + 1 /\ Len(t) \in Nat
    BY <2>2, AppendProperties, LenProperties
  <2>4. Len(t) = n
    BY <2>3
  <2>. QED BY <1>2, <2>2, <2>4
<1> HIDE DEF N
<1>3. Nat \subseteq N
  BY <1>1, <1>2, NumberInduction
<1>. QED BY <1>3, LenProperties DEF N

-----------------------------------------------------------------------------
(* FlattenSeq.                                                             *)

(* Partial results: f[i] is the concatenation of the first i sequences.    *)
Flattens(f, seqs, n) ==
  /\ DOMAIN f = 1..n
  /\ \A i \in 1..n : f[i] = IF i = 1 THEN seqs[i] ELSE f[i - 1] \o seqs[i]

(* There is such a function for every length.                              *)
LEMMA FlattensExists ==
  ASSUME NEW T, NEW seqs \in Seq(Seq(T))
  PROVE  \A n \in 1..Len(seqs) : \E f \in [1..n -> Seq(T)] : Flattens(f, seqs, n)
<1> DEFINE N == {n \in Nat : n \in 1..Len(seqs) => \E f \in [1..n -> Seq(T)] : Flattens(f, seqs, n)}
<1>1. Len(seqs) \in Nat /\ \A i \in 1..Len(seqs) : seqs[i] \in Seq(T)
  BY LenProperties, ElementOfSeq
<1>2. 0 \in N
  BY <1>1
<1>3. ASSUME NEW n \in Nat, n \in N
      PROVE  n + 1 \in N
  <2> SUFFICES ASSUME n + 1 \in 1..Len(seqs)
               PROVE  \E f \in [1..n + 1 -> Seq(T)] : Flattens(f, seqs, n + 1)
    OBVIOUS
  <2>1. CASE n = 0
    <3> DEFINE f == [i \in 1..1 |-> seqs[1]]
    <3>1. f \in [1..1 -> Seq(T)] /\ Flattens(f, seqs, 1)
      BY <1>1, <2>1 DEF Flattens
    <3>2. n + 1 = 1
      BY <2>1
    <3>. QED BY <3>1, <3>2
  <2>2. CASE n # 0
    <3>1. n \in 1..Len(seqs)
      BY <2>2, <1>1
    <3>2. PICK f \in [1..n -> Seq(T)] : Flattens(f, seqs, n)
      BY <1>3, <3>1
    <3> DEFINE g == [i \in 1..n + 1 |-> IF i = n + 1 THEN f[n] \o seqs[n + 1] ELSE f[i]]
    <3>3. n \in 1..n /\ f[n] \in Seq(T) /\ seqs[n + 1] \in Seq(T)
      BY <3>1, <1>1
    <3>4. f[n] \o seqs[n + 1] \in Seq(T)
      BY <3>3, ConcatProperties
    <3>5. \A i \in 1..n + 1 : i = n + 1 \/ i \in 1..n
      OBVIOUS
    <3>6. g \in [1..n + 1 -> Seq(T)]
      BY <3>4, <3>5
    <3>7. ASSUME NEW i \in 1..n + 1
          PROVE  g[i] = IF i = 1 THEN seqs[i] ELSE g[i - 1] \o seqs[i]
      <4>1. CASE i = n + 1
        <5>1. i # 1 /\ i - 1 = n /\ n # n + 1 /\ n \in 1..n + 1
          BY <4>1, <2>2
        <5>2. g[i - 1] = f[n] /\ g[i] = f[n] \o seqs[n + 1]
          BY <4>1, <5>1
        <5>. QED BY <4>1, <5>1, <5>2
      <4>2. CASE i \in 1..n /\ i # n + 1
        <5>1. g[i] = f[i] /\ (i # 1 => i - 1 \in 1..n + 1 /\ i - 1 # n + 1 /\ g[i - 1] = f[i - 1])
          BY <4>2
        <5>2. f[i] = IF i = 1 THEN seqs[i] ELSE f[i - 1] \o seqs[i]
          BY <4>2, <3>2 DEF Flattens
        <5>. QED BY <5>1, <5>2
      <4>. QED BY <4>1, <4>2, <3>5
    <3>8. Flattens(g, seqs, n + 1)
      BY <3>7 DEF Flattens
    <3> HIDE DEF g
    <3>. QED BY <3>6, <3>8
  <2>. QED BY <2>1, <2>2
<1> HIDE DEF N
<1>4. Nat \subseteq N
  BY <1>2, <1>3, NumberInduction
<1>. QED BY <1>4 DEF N

(* r and s begin with the same m elements.                                 *)
SameUpTo(r, s, m) == \A i \in 1..m : r[i] = s[i]

(* It is the only one, and depends on the first sequences alone.           *)
LEMMA FlattensUnique ==
  ASSUME NEW r, NEW s, NEW f, NEW g, NEW m \in Nat, NEW n \in Nat, m <= n,
         Flattens(f, r, m), Flattens(g, s, n), SameUpTo(r, s, m)
  PROVE  SameUpTo(f, g, m)
<1> USE DEF SameUpTo
<1> DEFINE Bad == {i \in 1..m : f[i] # g[i]}
<1> SUFFICES ASSUME Bad # {} PROVE FALSE
  OBVIOUS
<1>0. Bad \subseteq Nat
  OBVIOUS
<1>1. PICK i \in Bad : \A j \in Bad : i <= j
  <2> HIDE DEF Bad
  <2>. QED BY <1>0, LeastNumber
<1>2. i \in 1..m /\ i \in 1..n /\ f[i] # g[i]
  BY <1>1
<1>3. CASE i = 1
  BY <1>2, <1>3 DEF Flattens
<1>4. CASE i # 1
  <2>1. i - 1 \in 1..m /\ ~(i <= i - 1)
    BY <1>2, <1>4
  <2>2. f[i - 1] = g[i - 1]
    BY <1>1, <2>1
  <2>3. f[i] = f[i - 1] \o r[i]
    BY <1>2, <1>4 DEF Flattens
  <2>4. g[i] = g[i - 1] \o s[i]
    BY <1>2, <1>4 DEF Flattens
  <2>. QED BY <1>2, <2>2, <2>3, <2>4
<1>. QED BY <1>3, <1>4

(* FlattenSeq is the last of the partial results.                          *)
LEMMA FlattenIsLast ==
  ASSUME NEW T, NEW seqs \in Seq(Seq(T)), Len(seqs) # 0
  PROVE  \E f \in [1..Len(seqs) -> Seq(T)] :
           Flattens(f, seqs, Len(seqs)) /\ FlattenSeq(seqs) = f[Len(seqs)]
<1> DEFINE Def(f) == [i \in 1..Len(seqs) |-> IF i = 1 THEN seqs[i] ELSE f[i - 1] \o seqs[i]]
           F == CHOOSE f : f = Def(f)
<1>1. FlattenSeq(seqs) = F[Len(seqs)]
  BY DEF FlattenSeq
<1>2. Len(seqs) \in Nat /\ Len(seqs) \in 1..Len(seqs)
  BY LenProperties
<1>3. PICK f \in [1..Len(seqs) -> Seq(T)] : Flattens(f, seqs, Len(seqs))
  BY <1>2, FlattensExists
<1>4. f = Def(f)
  BY <1>3, Zenon DEF Flattens
<1>5. F = Def(F)
  BY <1>4, ZenonT(40)
<1>6. Flattens(F, seqs, Len(seqs))
  BY <1>5, Zenon DEF Flattens
<1> HIDE DEF F
<1>7. F[Len(seqs)] = f[Len(seqs)]
  <2>1. SameUpTo(seqs, seqs, Len(seqs)) /\ Len(seqs) <= Len(seqs)
    BY <1>2 DEF SameUpTo
  <2>2. SameUpTo(F, f, Len(seqs))
    BY <1>2, <1>3, <1>6, <2>1, FlattensUnique
  <2>. QED BY <1>2, <2>2 DEF SameUpTo
<1>. QED BY <1>1, <1>3, <1>7

(* Flattening what is empty.                                               *)
LEMMA FlattenEmpty == FlattenSeq(<<>>) = <<>>
BY DEF FlattenSeq

(* Flattening is of the elements' type, and appends what is appended.      *)
LEMMA FlattenAppend ==
  ASSUME NEW T, NEW seqs \in Seq(Seq(T)), NEW t \in Seq(T)
  PROVE  /\ FlattenSeq(seqs) \in Seq(T)
         /\ FlattenSeq(Append(seqs, t)) = FlattenSeq(seqs) \o t
<1> DEFINE more == Append(seqs, t)
           n == Len(seqs)
<1>1. /\ n \in Nat /\ more \in Seq(Seq(T)) /\ Len(more) = n + 1
      /\ \A i \in 1..n : more[i] = seqs[i]
      /\ more[n + 1] = t
  BY AppendProperties, LenProperties
<1>2. n + 1 # 0 /\ n + 1 \in 1..n + 1
  BY <1>1
<1> HIDE DEF more
<1>3. PICK g \in [1..n + 1 -> Seq(T)] : Flattens(g, more, n + 1) /\ FlattenSeq(more) = g[n + 1]
  BY <1>1, <1>2, FlattenIsLast
<1>4. g[n + 1] = IF n + 1 = 1 THEN t ELSE g[(n + 1) - 1] \o t
  BY <1>1, <1>2, <1>3 DEF Flattens
<1>5. CASE n = 0
  <2>1. seqs = <<>> /\ FlattenSeq(seqs) = <<>>
    BY <1>5, EmptySeq, FlattenEmpty
  <2>2. g[n + 1] = t
    BY <1>4, <1>5
  <2>3. <<>> \o t = t /\ <<>> \in Seq(T)
    BY ConcatEmptySeq
  <2>. QED BY <1>3, <2>1, <2>2, <2>3 DEF more
<1>6. CASE n # 0
  <2>1. PICK f \in [1..n -> Seq(T)] : Flattens(f, seqs, n) /\ FlattenSeq(seqs) = f[n]
    BY <1>6, FlattenIsLast
  <2>2. n \in 1..n /\ n <= n + 1 /\ n + 1 # 1 /\ (n + 1) - 1 = n
    BY <1>1, <1>6
  <2>3. SameUpTo(seqs, more, n)
    BY <1>1 DEF SameUpTo
  <2>4. f[n] = g[n]
    <3>1. SameUpTo(f, g, n)
      <4>1. n \in Nat /\ n + 1 \in Nat /\ n <= n + 1
        BY <1>1
      <4>2. Flattens(f, seqs, n) /\ Flattens(g, more, n + 1)
        BY <1>3, <2>1
      <4> HIDE DEF n
      <4>. QED BY <4>1, <4>2, <2>3, FlattensUnique
    <3>. QED BY <3>1, <2>2 DEF SameUpTo
  <2>5. FlattenSeq(seqs) \in Seq(T)
    BY <2>1, <2>2
  <2>. QED BY <1>3, <1>4, <2>1, <2>2, <2>4, <2>5 DEF more
<1>. QED BY <1>5, <1>6

(* Flattening is of the elements' type.                                    *)
LEMMA FlattenType ==
  ASSUME NEW T, NEW seqs \in Seq(Seq(T))
  PROVE  FlattenSeq(seqs) \in Seq(T)
<1> <<>> \in Seq(T)
  OBVIOUS
<1>. QED BY FlattenAppend

(* Flattening one sequence.                                                *)
LEMMA FlattenOne ==
  ASSUME NEW T, NEW t \in Seq(T)
  PROVE  FlattenSeq(<<t>>) = t
<1>1. <<>> \in Seq(Seq(T)) /\ Append(<<>>, t) = <<t>>
  OBVIOUS
<1>2. FlattenSeq(Append(<<>>, t)) = FlattenSeq(<<>>) \o t
  BY <1>1, FlattenAppend
<1>. QED BY <1>1, <1>2, FlattenEmpty, ConcatEmptySeq

(* Flattening what is concatenated.                                        *)
LEMMA FlattenConcat ==
  ASSUME NEW T, NEW a \in Seq(Seq(T)), NEW b \in Seq(Seq(T))
  PROVE  FlattenSeq(a \o b) = FlattenSeq(a) \o FlattenSeq(b)
<1> DEFINE S == {c \in Seq(Seq(T)) : FlattenSeq(a \o c) = FlattenSeq(a) \o FlattenSeq(c)}
<1>0. FlattenSeq(a) \in Seq(T)
  BY FlattenType
<1>1. <<>> \in S
  BY <1>0, FlattenEmpty, ConcatEmptySeq
<1>2. ASSUME NEW c \in Seq(Seq(T)), NEW t \in Seq(T), c \in S
      PROVE  Append(c, t) \in S
  <2>1. a \o Append(c, t) = Append(a \o c, t) /\ a \o c \in Seq(Seq(T))
    BY ConcatProperties, AppendProperties
  <2>2. /\ FlattenSeq(Append(a \o c, t)) = FlattenSeq(a \o c) \o t
        /\ FlattenSeq(Append(c, t)) = FlattenSeq(c) \o t
    BY <2>1, FlattenAppend
  <2>3. FlattenSeq(c) \in Seq(T)
    BY FlattenType
  <2>4. (FlattenSeq(a) \o FlattenSeq(c)) \o t = FlattenSeq(a) \o (FlattenSeq(c) \o t)
    BY <1>0, <2>3, ConcatAssociative, SMTT(30)
  <2>5. Append(c, t) \in Seq(Seq(T))
    BY AppendProperties
  <2>. QED BY <1>2, <2>1, <2>2, <2>4, <2>5
<1> HIDE DEF S
<1>3. Seq(Seq(T)) \subseteq S
  BY <1>1, <1>2, SequenceInduction
<1>. QED BY <1>3 DEF S

-----------------------------------------------------------------------------
(* Without.                                                                *)

(* Taking nothing out of the empty sequence.                               *)
LEMMA WithoutEmpty == ASSUME NEW gone PROVE Without(<<>>, gone) = <<>>
<1>1. [i \in DOMAIN <<>> |-> IF <<>>[i] \in gone THEN <<>> ELSE <<(<<>>[i])>>] = <<>>
  OBVIOUS
<1>. QED BY <1>1, FlattenEmpty DEF Without

(* What is appended stays or goes on its own.                              *)
LEMMA WithoutAppend ==
  ASSUME NEW T, NEW s \in Seq(T), NEW e \in T, NEW gone
  PROVE  /\ Without(s, gone) \in Seq(T)
         /\ e \in gone => Without(Append(s, e), gone) = Without(s, gone)
         /\ e \notin gone => Without(Append(s, e), gone) = Append(Without(s, gone), e)
<1> DEFINE Kept(x) == IF x \in gone THEN <<>> ELSE <<x>>
           before == [i \in DOMAIN s |-> IF s[i] \in gone THEN <<>> ELSE <<s[i]>>]
           more == Append(s, e)
           after == [i \in DOMAIN more |-> IF more[i] \in gone THEN <<>> ELSE <<more[i]>>]
<1>1. before \in Seq(Seq(T)) /\ Kept(e) \in Seq(T)
  <2>1. DOMAIN s = 1..Len(s) /\ Len(s) \in Nat /\ \A i \in DOMAIN s : s[i] \in T
    BY LenProperties, ElementOfSeq
  <2>2. \A i \in 1..Len(s) : (IF s[i] \in gone THEN <<>> ELSE <<s[i]>>) \in Seq(T)
    BY <2>1
  <2>3. before \in Seq(Seq(T))
    BY <2>1, <2>2, IsASeq
  <2>. QED BY <2>3
<1>2. after = Append(before, Kept(e))
  <2>1. /\ more \in Seq(T) /\ Len(more) = Len(s) + 1 /\ DOMAIN more = 1..Len(s) + 1
        /\ Len(s) \in Nat /\ DOMAIN s = 1..Len(s)
        /\ \A i \in 1..Len(s) : more[i] = s[i]
        /\ more[Len(s) + 1] = e
    BY AppendProperties, LenProperties
  <2>2. Len(before) = Len(s)
    BY <2>1, <1>1, LenProperties
  <2>3. /\ Append(before, Kept(e)) \in Seq(Seq(T))
        /\ Len(Append(before, Kept(e))) = Len(s) + 1
        /\ \A i \in 1..Len(s) : Append(before, Kept(e))[i] = before[i]
        /\ Append(before, Kept(e))[Len(s) + 1] = Kept(e)
    <3> HIDE DEF before, Kept
    <3>. QED BY <1>1, <2>2, AppendProperties
  <2>4. DOMAIN Append(before, Kept(e)) = 1..Len(s) + 1
    BY <2>3, LenProperties
  <2>5. \A i \in 1..Len(s) + 1 : after[i] = Append(before, Kept(e))[i]
    BY <2>1, <2>3
  <2>. QED BY <2>1, <2>3, <2>4, <2>5
<1>3. FlattenSeq(Append(before, Kept(e))) = FlattenSeq(before) \o Kept(e)
  <2> HIDE DEF before, Kept
  <2>. QED BY <1>1, FlattenAppend
<1>4. Without(s, gone) = FlattenSeq(before) /\ Without(more, gone) = FlattenSeq(after)
  BY DEF Without
<1>5. FlattenSeq(before) \in Seq(T)
  <2> HIDE DEF before
  <2>. QED BY <1>1, FlattenType
<1>6. FlattenSeq(before) \o <<e>> = Append(FlattenSeq(before), e) /\ FlattenSeq(before) \o <<>> = FlattenSeq(before)
  <2> HIDE DEF before
  <2>. QED BY <1>5, AppendIsConcat, ConcatEmptySeq
<1>. QED BY <1>2, <1>3, <1>4, <1>5, <1>6


(* The elements of s, and no two of them the same.                         *)
Elements(s) == {s[i] : i \in 1..Len(s)}
Distinct(s) == \A i, j \in 1..Len(s) : s[i] = s[j] => i = j

(* The elements of the empty sequence, and of what is appended to.         *)
LEMMA ElementsAppend ==
  ASSUME NEW T, NEW s \in Seq(T), NEW e \in T
  PROVE  /\ Elements(<<>>) = {} /\ Distinct(<<>>)
         /\ Elements(Append(s, e)) = Elements(s) \cup {e}
         /\ Distinct(Append(s, e)) <=> Distinct(s) /\ e \notin Elements(s)
<1> DEFINE a == Append(s, e)
           n == Len(s)
<1>1. /\ n \in Nat /\ Len(a) = n + 1
      /\ \A i \in 1..n : a[i] = s[i]
      /\ a[n + 1] = e
  BY AppendProperties, LenProperties
<1>2. \A i : i \in 1..n + 1 <=> i \in 1..n \/ i = n + 1
  BY <1>1
<1>3. ~(n + 1 \in 1..n)
  BY <1>1
<1> HIDE DEF a, n
<1>4. Elements(a) = {s[i] : i \in 1..n} \cup {e}
  BY <1>1, <1>2 DEF Elements
<1>5. Distinct(a) <=> (\A i, j \in 1..n : s[i] = s[j] => i = j) /\ e \notin {s[i] : i \in 1..n}
  BY <1>1, <1>2, <1>3 DEF Distinct
<1>6. Elements(<<>>) = {} /\ Distinct(<<>>)
  BY DEF Elements, Distinct
<1>. QED BY <1>4, <1>5, <1>6 DEF Elements, Distinct, a, n

(* Without keeps exactly the elements that are not gone, and no new        *)
(* duplicates.                                                             *)
LEMMA WithoutElements ==
  ASSUME NEW T, NEW gone, NEW s \in Seq(T)
  PROVE  /\ Without(s, gone) \in Seq(T)
         /\ Elements(Without(s, gone)) = Elements(s) \ gone
         /\ Distinct(s) => Distinct(Without(s, gone))
<1> DEFINE S == {q \in Seq(T) : /\ Without(q, gone) \in Seq(T)
                                /\ Elements(Without(q, gone)) = Elements(q) \ gone
                                /\ Distinct(q) => Distinct(Without(q, gone))}
<1>1. <<>> \in S
  <2>1. Elements(<<>>) = {} /\ Distinct(<<>>)
    BY DEF Elements, Distinct
  <2>2. <<>> \in Seq(T) /\ Without(<<>>, gone) = <<>>
    BY WithoutEmpty
  <2>. QED BY <2>1, <2>2
<1>2. ASSUME NEW q \in Seq(T), NEW e \in T, q \in S
      PROVE  Append(q, e) \in S
  <2> DEFINE w == Without(q, gone)
  <2>1. /\ Append(q, e) \in Seq(T)
        /\ w \in Seq(T)
        /\ e \in gone => Without(Append(q, e), gone) = w
        /\ e \notin gone => Without(Append(q, e), gone) = Append(w, e)
    BY WithoutAppend, AppendProperties
  <2>2. /\ Elements(w) = Elements(q) \ gone
        /\ Distinct(q) => Distinct(w)
    BY <1>2
  <2> HIDE DEF w
  <2>3. /\ Elements(Append(q, e)) = Elements(q) \cup {e}
        /\ Distinct(Append(q, e)) <=> Distinct(q) /\ e \notin Elements(q)
    BY ElementsAppend
  <2>4. /\ Elements(Append(w, e)) = Elements(w) \cup {e}
        /\ Distinct(Append(w, e)) <=> Distinct(w) /\ e \notin Elements(w)
        /\ Append(w, e) \in Seq(T)
    BY <2>1, ElementsAppend, AppendProperties
  <2>. QED BY <2>1, <2>2, <2>3, <2>4
<1> HIDE DEF S
<1>3. Seq(T) \subseteq S
  BY <1>1, <1>2, SequenceInduction
<1>. QED BY <1>3 DEF S

(* Without what is not there, and without one more.                        *)
LEMMA WithoutNothing ==
  ASSUME NEW T, NEW gone, NEW s \in Seq(T), Elements(s) \cap gone = {}
  PROVE  Without(s, gone) = s
<1> DEFINE S == {q \in Seq(T) : Elements(q) \cap gone = {} => Without(q, gone) = q}
<1>1. <<>> \in S
  BY WithoutEmpty
<1>2. ASSUME NEW q \in Seq(T), NEW e \in T, q \in S
      PROVE  Append(q, e) \in S
  <2>0. Append(q, e) \in Seq(T)
    BY AppendProperties
  <2>1. /\ Without(q, gone) \in Seq(T)
        /\ e \in gone => Without(Append(q, e), gone) = Without(q, gone)
        /\ e \notin gone => Without(Append(q, e), gone) = Append(Without(q, gone), e)
    BY WithoutAppend
  <2>2. Elements(Append(q, e)) = Elements(q) \cup {e}
    BY ElementsAppend
  <2>. QED BY <1>2, <2>0, <2>1, <2>2
<1> HIDE DEF S
<1>3. Seq(T) \subseteq S
  BY <1>1, <1>2, SequenceInduction
<1>. QED BY <1>3 DEF S

(* Without takes a concatenation apart.                                    *)
LEMMA WithoutConcat ==
  ASSUME NEW T, NEW gone, NEW a \in Seq(T), NEW b \in Seq(T)
  PROVE  Without(a \o b, gone) = Without(a, gone) \o Without(b, gone)
<1> DEFINE S == {q \in Seq(T) : Without(a \o q, gone) = Without(a, gone) \o Without(q, gone)}
<1>0. Without(a, gone) \in Seq(T)
  BY WithoutElements
<1>1. <<>> \in S
  BY <1>0, WithoutEmpty, ConcatEmptySeq
<1>2. ASSUME NEW q \in Seq(T), NEW e \in T, q \in S
      PROVE  Append(q, e) \in S
  <2>1. a \o Append(q, e) = Append(a \o q, e) /\ a \o q \in Seq(T)
    BY ConcatProperties, AppendProperties
  <2>2. /\ Append(q, e) \in Seq(T) /\ Without(q, gone) \in Seq(T)
        /\ e \in gone => Without(Append(q, e), gone) = Without(q, gone)
        /\ e \notin gone => Without(Append(q, e), gone) = Append(Without(q, gone), e)
    BY WithoutAppend, AppendProperties
  <2>3. /\ e \in gone => Without(Append(a \o q, e), gone) = Without(a \o q, gone)
        /\ e \notin gone => Without(Append(a \o q, e), gone) = Append(Without(a \o q, gone), e)
    <3> DEFINE p == a \o q
    <3>1. p \in Seq(T)
      BY <2>1
    <3> HIDE DEF p
    <3>2. /\ Without(p, gone) \in Seq(T)
          /\ e \in gone => Without(Append(p, e), gone) = Without(p, gone)
          /\ e \notin gone => Without(Append(p, e), gone) = Append(Without(p, gone), e)
      BY <3>1, WithoutAppend
    <3>. QED BY <3>2 DEF p
  <2>4. Without(a, gone) \o Append(Without(q, gone), e) = Append(Without(a, gone) \o Without(q, gone), e)
    BY <1>0, <2>2
  <2>. QED BY <1>2, <2>1, <2>2, <2>3, <2>4
<1> HIDE DEF S
<1>3. Seq(T) \subseteq S
  BY <1>1, <1>2, SequenceInduction
<1>. QED BY <1>3 DEF S


(* The elements that stay keep their order.                                *)
InOrderOf(w, s) ==
  \A k, m \in 1..Len(w), i, j \in 1..Len(s) : w[k] = s[i] /\ w[m] = s[j] /\ k < m => i < j

(* What is left without some elements is in the order it had.              *)
LEMMA WithoutOrder ==
  ASSUME NEW T, NEW gone, NEW s \in Seq(T), Distinct(s)
  PROVE  InOrderOf(Without(s, gone), s)
<1> DEFINE S == {q \in Seq(T) : Distinct(q) => InOrderOf(Without(q, gone), q)}
<1>1. <<>> \in S
  <2>1. \A w : InOrderOf(w, <<>>)
    BY DEF InOrderOf
  <2>. QED BY <2>1
<1>2. ASSUME NEW q \in Seq(T), NEW e \in T, q \in S
      PROVE  Append(q, e) \in S
  <2> SUFFICES ASSUME Distinct(Append(q, e))
               PROVE  InOrderOf(Without(Append(q, e), gone), Append(q, e))
    BY AppendProperties
  <2> DEFINE a == Append(q, e)
             w == Without(q, gone)
             v == Without(a, gone)
             n == Len(q)
             r == Len(w)
  <2>1. /\ w \in Seq(T)
        /\ e \in gone => v = w
        /\ e \notin gone => v = Append(w, e)
    BY WithoutAppend
  <2>2. /\ n \in Nat /\ Len(a) = n + 1 /\ a[n + 1] = e
        /\ \A i \in 1..n : a[i] = q[i]
    BY AppendProperties, LenProperties
  <2>3. Elements(w) = Elements(q) \ gone
    BY WithoutElements
  <2>4. Distinct(q) /\ e \notin Elements(q)
    BY ElementsAppend
  <2>5. InOrderOf(w, q)
    BY <1>2, <2>4
  <2>6. r \in Nat /\ \A k \in 1..r : w[k] \in Elements(q)
    BY <2>1, <2>3, LenProperties DEF Elements
  <2>7. e \notin gone => Len(v) = r + 1 /\ v[r + 1] = e /\ \A k \in 1..r : v[k] = w[k]
    BY <2>1, AppendProperties, LenProperties
  <2>8. \A i : i \in 1..n + 1 <=> i \in 1..n \/ i = n + 1
    BY <2>2
  <2>9. \A k : k \in 1..r + 1 <=> k \in 1..r \/ k = r + 1
    BY <2>6
  <2> HIDE DEF a, w, v, n, r
  <2>10. ASSUME NEW k \in 1..Len(v), NEW m \in 1..Len(v), NEW i \in 1..n + 1, NEW j \in 1..n + 1,
                v[k] = a[i], v[m] = a[j], k < m
         PROVE  i < j
    <3>1. k \in 1..r /\ v[k] = w[k] /\ r \in Nat
      BY <2>1, <2>6, <2>7, <2>9, <2>10 DEF r
    <3>2. i \in 1..n /\ a[i] = q[i]
      BY <3>1, <2>2, <2>4, <2>6, <2>8, <2>10
    <3>3. CASE j \in 1..n
      <4>1. a[j] = q[j] /\ q[j] \in Elements(q)
        BY <3>3, <2>2 DEF Elements, n
      <4>2. m \in 1..r /\ v[m] = w[m]
        BY <4>1, <2>1, <2>4, <2>6, <2>7, <2>9, <2>10 DEF r
      <4>. QED BY <3>1, <3>2, <3>3, <4>1, <4>2, <2>5, <2>10 DEF InOrderOf, n, r
    <3>4. CASE j = n + 1
      BY <3>2, <3>4, <2>2
    <3>. QED BY <3>3, <3>4, <2>8
  <2>. QED BY <2>2, <2>10 DEF InOrderOf, a, v
<1> HIDE DEF S
<1>3. Seq(T) \subseteq S
  BY <1>1, <1>2, SequenceInduction
<1>. QED BY <1>3 DEF S

(* A sequence without duplicates is as long as its elements are many.      *)
LEMMA DistinctLength ==
  ASSUME NEW T, NEW s \in Seq(T)
  PROVE  /\ IsFiniteSet(Elements(s))
         /\ Distinct(s) => Cardinality(Elements(s)) = Len(s)
<1> DEFINE S == {q \in Seq(T) : /\ IsFiniteSet(Elements(q))
                                /\ Distinct(q) => Cardinality(Elements(q)) = Len(q)}
<1>1. <<>> \in S
  <2>1. Elements(<<>>) = {} /\ Len(<<>>) = 0
    BY EmptySeq DEF Elements
  <2>2. <<>> \in Seq(T) /\ IsFiniteSet(Elements(<<>>)) /\ Cardinality(Elements(<<>>)) = 0
    BY <2>1, FS_EmptySet
  <2>. QED BY <2>1, <2>2
<1>2. ASSUME NEW q \in Seq(T), NEW e \in T, q \in S
      PROVE  Append(q, e) \in S
  <2>1. /\ Elements(Append(q, e)) = Elements(q) \cup {e}
        /\ Distinct(Append(q, e)) <=> Distinct(q) /\ e \notin Elements(q)
    BY ElementsAppend
  <2>2. Append(q, e) \in Seq(T) /\ Len(Append(q, e)) = Len(q) + 1
    BY AppendProperties
  <2>3. IsFiniteSet(Elements(q)) /\ (Distinct(q) => Cardinality(Elements(q)) = Len(q))
    BY <1>2
  <2>4. /\ IsFiniteSet(Elements(q) \cup {e})
        /\ e \notin Elements(q) => Cardinality(Elements(q) \cup {e}) = Cardinality(Elements(q)) + 1
    BY <2>3, FS_AddElement
  <2>. QED BY <2>1, <2>2, <2>3, <2>4
<1> HIDE DEF S
<1>3. Seq(T) \subseteq S
  BY <1>1, <1>2, SequenceInduction
<1>. QED BY <1>3 DEF S


-----------------------------------------------------------------------------
(* What a function makes of every element of a sequence, one after the     *)
(* other: a filter, with or without a conversion of what it lets through.  *)
Mapped(f, q) == FlattenSeq([i \in DOMAIN q |-> f[q[i]]])
Maps(f, T, U) == f \in [T -> Seq(U)]

(* The sequence that is flattened.                                         *)
LEMMA MappedArgument ==
  ASSUME NEW T, NEW U, NEW f, Maps(f, T, U), NEW q \in Seq(T)
  PROVE  [i \in DOMAIN q |-> f[q[i]]] \in Seq(Seq(U))
<1>1. DOMAIN q = 1..Len(q) /\ Len(q) \in Nat /\ \A i \in 1..Len(q) : f[q[i]] \in Seq(U)
  BY LenProperties, ElementOfSeq DEF Maps
<1>. QED BY <1>1, IsASeq

(* Nothing of the empty sequence.                                          *)
LEMMA MappedEmpty == ASSUME NEW f PROVE Mapped(f, <<>>) = <<>>
<1>1. [i \in DOMAIN <<>> |-> f[<<>>[i]]] = <<>>
  OBVIOUS
<1>. QED BY <1>1, FlattenEmpty DEF Mapped

(* The type.                                                               *)
LEMMA MappedType ==
  ASSUME NEW T, NEW U, NEW f, Maps(f, T, U), NEW q \in Seq(T)
  PROVE  Mapped(f, q) \in Seq(U)
BY MappedArgument, FlattenType DEF Mapped

(* Appending, and the type.                                                *)
LEMMA MappedAppend ==
  ASSUME NEW T, NEW U, NEW f, Maps(f, T, U), NEW q \in Seq(T), NEW e \in T
  PROVE  /\ Mapped(f, q) \in Seq(U)
         /\ Mapped(f, Append(q, e)) = Mapped(f, q) \o f[e]
<1> DEFINE before == [i \in DOMAIN q |-> f[q[i]]]
           more == Append(q, e)
           after == [i \in DOMAIN more |-> f[more[i]]]
<1>1. /\ more \in Seq(T) /\ DOMAIN more = 1..Len(q) + 1
      /\ Len(q) \in Nat /\ DOMAIN q = 1..Len(q)
      /\ \A i \in 1..Len(q) : more[i] = q[i]
      /\ more[Len(q) + 1] = e
  BY AppendProperties, LenProperties
<1>2. before \in Seq(Seq(U)) /\ Len(before) = Len(q) /\ f[e] \in Seq(U)
  <2>0. f[e] \in Seq(U)
    BY DEF Maps
  <2>1. before \in Seq(Seq(U))
    BY MappedArgument
  <2>2. DOMAIN before = 1..Len(q)
    BY <1>1
  <2> HIDE DEF before
  <2>3. Len(before) = Len(q)
    BY <1>1, <2>1, <2>2, LenProperties
  <2>. QED BY <2>0, <2>1, <2>3
<1>3. after = Append(before, f[e])
  <2>1. /\ Append(before, f[e]) \in Seq(Seq(U))
        /\ Len(Append(before, f[e])) = Len(q) + 1
        /\ \A i \in 1..Len(q) : Append(before, f[e])[i] = before[i]
        /\ Append(before, f[e])[Len(q) + 1] = f[e]
    <3> HIDE DEF before
    <3>. QED BY <1>2, AppendProperties
  <2>2. DOMAIN Append(before, f[e]) = 1..Len(q) + 1
    BY <2>1, LenProperties
  <2>3. \A i \in 1..Len(q) + 1 : after[i] = Append(before, f[e])[i]
    BY <1>1, <2>1
  <2>. QED BY <1>1, <2>1, <2>2, <2>3
<1>4. Mapped(f, q) = FlattenSeq(before) /\ Mapped(f, more) = FlattenSeq(after)
  BY DEF Mapped
<1> HIDE DEF before, after
<1>5. FlattenSeq(Append(before, f[e])) = FlattenSeq(before) \o f[e] /\ FlattenSeq(before) \in Seq(U)
  BY <1>2, FlattenAppend
<1>. QED BY <1>3, <1>4, <1>5

(* The empty sequence, and one element.                                    *)
LEMMA MappedOne ==
  ASSUME NEW T, NEW U, NEW f, Maps(f, T, U), NEW e \in T
  PROVE  Mapped(f, <<>>) = <<>> /\ Mapped(f, <<e>>) = f[e]
<1>2. Mapped(f, <<>>) = <<>>
  BY MappedEmpty
<1>3. <<>> \in Seq(T) /\ Append(<<>>, e) = <<e>> /\ f[e] \in Seq(U)
  BY DEF Maps
<1>4. Mapped(f, Append(<<>>, e)) = Mapped(f, <<>>) \o f[e]
  <2> DEFINE p == <<>>
  <2>1. p \in Seq(T)
    BY <1>3
  <2> HIDE DEF p
  <2>2. Mapped(f, p) \in Seq(U) /\ Mapped(f, Append(p, e)) = Mapped(f, p) \o f[e]
    BY <2>1, MappedAppend
  <2>. QED BY <2>2 DEF p
<1>. QED BY <1>2, <1>3, <1>4, ConcatEmptySeq

(* A concatenation.                                                        *)
LEMMA MappedConcat ==
  ASSUME NEW T, NEW U, NEW f, Maps(f, T, U), NEW a \in Seq(T), NEW b \in Seq(T)
  PROVE  Mapped(f, a \o b) = Mapped(f, a) \o Mapped(f, b)
<1> DEFINE S == {q \in Seq(T) : Mapped(f, a \o q) = Mapped(f, a) \o Mapped(f, q)}
<1>0. Mapped(f, a) \in Seq(U)
  BY MappedType
<1>1. <<>> \in S
  BY <1>0, MappedEmpty, ConcatEmptySeq
<1>2. ASSUME NEW q \in Seq(T), NEW e \in T, q \in S
      PROVE  Append(q, e) \in S
  <2>1. a \o Append(q, e) = Append(a \o q, e) /\ a \o q \in Seq(T) /\ Append(q, e) \in Seq(T)
    BY ConcatProperties, AppendProperties
  <2>2. Mapped(f, q) \in Seq(U) /\ Mapped(f, Append(q, e)) = Mapped(f, q) \o f[e]
    BY MappedAppend
  <2>3. Mapped(f, Append(a \o q, e)) = Mapped(f, a \o q) \o f[e]
    <3> DEFINE p == a \o q
    <3>1. p \in Seq(T)
      BY <2>1
    <3> HIDE DEF p
    <3>2. Mapped(f, p) \in Seq(U) /\ Mapped(f, Append(p, e)) = Mapped(f, p) \o f[e]
      BY <3>1, MappedAppend
    <3>. QED BY <3>2 DEF p
  <2>4. (Mapped(f, a) \o Mapped(f, q)) \o f[e] = Mapped(f, a) \o (Mapped(f, q) \o f[e])
    <3>1. f[e] \in Seq(U)
      BY DEF Maps
    <3> DEFINE x == Mapped(f, a)
               y == Mapped(f, q)
               z == f[e]
    <3>2. x \in Seq(U) /\ y \in Seq(U) /\ z \in Seq(U)
      BY <1>0, <2>2, <3>1
    <3> HIDE DEF x, y, z
    <3>3. (x \o y) \o z = x \o (y \o z)
      BY ONLY <3>2, ConcatAssociative, SMTT(30)
    <3>. QED BY <3>3 DEF x, y, z
  <2>. QED BY <1>2, <2>1, <2>2, <2>3, <2>4
<1> HIDE DEF S
<1>3. Seq(T) \subseteq S
  BY <1>1, <1>2, SequenceInduction
<1>. QED BY <1>3 DEF S

(* Taking the first element.                                               *)
LEMMA MappedTail ==
  ASSUME NEW T, NEW U, NEW f, Maps(f, T, U), NEW q \in Seq(T), q # <<>>
  PROVE  /\ Head(q) \in T /\ Tail(q) \in Seq(T)
         /\ Mapped(f, q) = f[Head(q)] \o Mapped(f, Tail(q))
<1>1. Head(q) \in T /\ Tail(q) \in Seq(T) /\ <<Head(q)>> \in Seq(T)
  BY HeadTailProperties
<1>2. q = <<Head(q)>> \o Tail(q)
  BY HeadTailProperties
<1>3. Mapped(f, <<Head(q)>> \o Tail(q)) = Mapped(f, <<Head(q)>>) \o Mapped(f, Tail(q))
  <2> DEFINE h == <<Head(q)>>
             t == Tail(q)
  <2>1. h \in Seq(T) /\ t \in Seq(T)
    BY <1>1
  <2> HIDE DEF h, t
  <2>2. Mapped(f, h \o t) = Mapped(f, h) \o Mapped(f, t)
    BY <2>1, MappedConcat
  <2>. QED BY <2>2 DEF h, t
<1>4. Mapped(f, <<Head(q)>>) = f[Head(q)]
  BY <1>1, MappedOne
<1>. QED BY <1>1, <1>2, <1>3, <1>4

(* What f makes nothing of.                                                *)
LEMMA MappedNothing ==
  ASSUME NEW T, NEW U, NEW f, Maps(f, T, U), NEW q \in Seq(T)
  PROVE  Mapped(f, q) = <<>> <=> \A x \in Elements(q) : f[x] = <<>>
<1> DEFINE S == {p \in Seq(T) : Mapped(f, p) = <<>> <=> \A x \in Elements(p) : f[x] = <<>>}
<1>1. <<>> \in S
  <2>1. Elements(<<>>) = {} /\ <<>> \in Seq(T)
    BY DEF Elements
  <2>. QED BY <2>1, MappedEmpty
<1>2. ASSUME NEW p \in Seq(T), NEW e \in T, p \in S
      PROVE  Append(p, e) \in S
  <2>1. Append(p, e) \in Seq(T) /\ Elements(Append(p, e)) = Elements(p) \cup {e}
    BY ElementsAppend, AppendProperties
  <2>2. Mapped(f, p) \in Seq(U) /\ Mapped(f, Append(p, e)) = Mapped(f, p) \o f[e]
    BY MappedAppend
  <2>5. f[e] \in Seq(U)
    BY DEF Maps
  <2>3. Mapped(f, p) \o f[e] = <<>> <=> Mapped(f, p) = <<>> /\ f[e] = <<>>
    BY <2>2, <2>5, ConcatEqualIffEmpty
  <2>4. Mapped(f, Append(p, e)) = <<>> <=> (\A x \in Elements(p) : f[x] = <<>>) /\ f[e] = <<>>
    BY <1>2, <2>2, <2>3
  <2>. QED BY <2>1, <2>4
<1> HIDE DEF S
<1>3. Seq(T) \subseteq S
  BY <1>1, <1>2, SequenceInduction
<1>. QED BY <1>3 DEF S

-----------------------------------------------------------------------------
(* What the elements of a sequence are in, and when there are none.        *)
LEMMA ElementsIn ==
  ASSUME NEW T, NEW s \in Seq(T)
  PROVE  Elements(s) \subseteq T /\ (Elements(s) = {} <=> s = <<>>)
<1>1. Elements(s) \subseteq T
  BY ElementOfSeq DEF Elements
<1>2. s = <<>> => Elements(s) = {}
  BY DEF Elements
<1>3. ASSUME s # <<>> PROVE Elements(s) # {}
  <2>1. Len(s) \in Nat \ {0}
    BY <1>3, EmptySeq
  <2>2. 1 \in 1..Len(s)
    BY <2>1
  <2>. QED BY <2>2 DEF Elements
<1>. QED BY <1>1, <1>2, <1>3

(* The elements of two sequences one after the other.                      *)
LEMMA ElementsConcat ==
  ASSUME NEW T, NEW a \in Seq(T), NEW b \in Seq(T)
  PROVE  /\ a \o b \in Seq(T)
         /\ Elements(a \o b) = Elements(a) \cup Elements(b)
         /\ Distinct(a \o b) <=> Distinct(a) /\ Distinct(b) /\ Elements(a) \cap Elements(b) = {}
<1> DEFINE S == {q \in Seq(T) :
      /\ Elements(a \o q) = Elements(a) \cup Elements(q)
      /\ Distinct(a \o q) <=> Distinct(a) /\ Distinct(q) /\ Elements(a) \cap Elements(q) = {}}
<1>1. <<>> \in S
  <2>1. Elements(<<>>) = {} /\ Distinct(<<>>)
    BY DEF Elements, Distinct
  <2>2. <<>> \in Seq(T) /\ a \o <<>> = a
    BY EmptySeq, ConcatEmptySeq
  <2>. QED BY <2>1, <2>2
<1>2. ASSUME NEW q \in Seq(T), NEW e \in T, q \in S
      PROVE  Append(q, e) \in S
  <2> DEFINE c == a \o q
  <2>1. c \in Seq(T) /\ Append(q, e) \in Seq(T) /\ a \o Append(q, e) = Append(c, e)
    BY ConcatProperties, AppendProperties
  <2>2. /\ Elements(c) = Elements(a) \cup Elements(q)
        /\ Distinct(c) <=> Distinct(a) /\ Distinct(q) /\ Elements(a) \cap Elements(q) = {}
    BY <1>2
  <2> HIDE DEF c
  <2>3. /\ Elements(Append(c, e)) = Elements(c) \cup {e}
        /\ Distinct(Append(c, e)) <=> Distinct(c) /\ e \notin Elements(c)
    BY <2>1, ElementsAppend
  <2>4. /\ Elements(Append(q, e)) = Elements(q) \cup {e}
        /\ Distinct(Append(q, e)) <=> Distinct(q) /\ e \notin Elements(q)
    BY ElementsAppend
  <2> DEFINE d == Append(q, e)
  <2>5. /\ Elements(a \o d) = Elements(a) \cup Elements(d)
        /\ Distinct(a \o d) <=> Distinct(a) /\ Distinct(d) /\ Elements(a) \cap Elements(d) = {}
    BY <2>1, <2>2, <2>3, <2>4
  <2>. QED BY <2>1, <2>5
<1> HIDE DEF S
<1>3. Seq(T) \subseteq S
  BY <1>1, <1>2, SequenceInduction
<1>. QED BY <1>3, ConcatProperties DEF S

(* The first element and the others.                                       *)
LEMMA ElementsTail ==
  ASSUME NEW T, NEW s \in Seq(T), s # <<>>
  PROVE  /\ Tail(s) \in Seq(T) /\ Head(s) \in Elements(s)
         /\ Elements(s) = {Head(s)} \cup Elements(Tail(s))
         /\ Distinct(s) => Distinct(Tail(s)) /\ Head(s) \notin Elements(Tail(s))
<1> DEFINE h == Head(s)
           t == Tail(s)
<1>1. h \in T /\ t \in Seq(T) /\ <<h>> \in Seq(T) /\ s = <<h>> \o t
  BY HeadTailProperties
<1>2. Elements(<<h>>) = {h}
  BY DEF Elements
<1> DEFINE o == <<h>>
<1> HIDE DEF h, t, o
<1>3. /\ Elements(o \o t) = Elements(o) \cup Elements(t)
      /\ Distinct(o \o t) <=> Distinct(o) /\ Distinct(t) /\ Elements(o) \cap Elements(t) = {}
  <2>1. o \in Seq(T) /\ t \in Seq(T)
    BY <1>1 DEF o
  <2>. QED BY <2>1, ElementsConcat
<1>4. s = o \o t /\ Elements(o) = {h}
  BY <1>1, <1>2 DEF o
<1>. QED BY <1>1, <1>3, <1>4 DEF h, t

(* The first n elements and the others.                                    *)
LEMMA ElementsSplit ==
  ASSUME NEW T, NEW s \in Seq(T), NEW n \in 0..Len(s)
  PROVE  /\ SubSeq(s, 1, n) \in Seq(T) /\ SubSeq(s, n + 1, Len(s)) \in Seq(T)
         /\ s = SubSeq(s, 1, n) \o SubSeq(s, n + 1, Len(s))
         /\ Len(SubSeq(s, 1, n)) = n
<1>0. Len(s) \in Nat /\ \A i \in 1..Len(s) : s[i] \in T
  BY LenProperties, ElementOfSeq
<1>1. SubSeq(s, 1, n) \in Seq(T) /\ Len(SubSeq(s, 1, n)) = n
  <2>1. \A i \in 1..n : s[i] \in T
    BY <1>0
  <2>2. 1 \in Int /\ n \in Int /\ Len(SubSeq(s, 1, n)) = (IF 1 <= n THEN n - 1 + 1 ELSE 0)
    BY <2>1, SubSeqProperties
  <2>3. SubSeq(s, 1, n) \in Seq(T)
    BY <2>1, <2>2, SubSeqProperties
  <2>. QED BY <2>2, <2>3
<1>2. SubSeq(s, n + 1, Len(s)) \in Seq(T)
  <2>1. \A i \in (n + 1)..Len(s) : s[i] \in T
    BY <1>0
  <2>2. n + 1 \in Int /\ Len(s) \in Int
    BY <1>0
  <2>. QED BY <2>1, <2>2, SubSeqProperties
<1>3. SubSeq(s, 1, n) \o SubSeq(s, n + 1, Len(s)) = SubSeq(s, 1, Len(s))
  <2>1. 1 \in 1..Len(s) + 1 /\ n \in 1 - 1..Len(s) /\ Len(s) \in n..Len(s)
    BY <1>0
  <2>. QED BY <2>1, ConcatAdjacentSubSeq
<1>4. SubSeq(s, 1, Len(s)) = s
  BY SubSeqFull
<1>5. s = SubSeq(s, 1, n) \o SubSeq(s, n + 1, Len(s))
  BY <1>3, <1>4, Zenon
<1>. QED BY <1>1, <1>2, <1>5, Zenon

(* A function defined by recursion on 0..n, from s by the steps g.         *)
RecursesTo(f, s, g, n) ==
  f[0] = s /\ \A i \in 1..n : f[i] = g[<<i, f[i - 1]>>]

(* There is such a function for every n.                                   *)
LEMMA RecursionExists ==
  ASSUME NEW A, NEW s \in A, NEW g \in [Nat \X A -> A], NEW n \in Nat
  PROVE  \E f \in [0..n -> A] : RecursesTo(f, s, g, n)
<1> DEFINE S == {m \in Nat : \E f \in [0..m -> A] : RecursesTo(f, s, g, m)}
<1>1. 0 \in S
  <2> DEFINE f == [i \in 0..0 |-> s]
  <2>1. f \in [0..0 -> A] /\ RecursesTo(f, s, g, 0)
    BY DEF RecursesTo
  <2>. QED BY <2>1
<1>2. ASSUME NEW m \in Nat, m \in S PROVE m + 1 \in S
  <2>1. PICK f \in [0..m -> A] : RecursesTo(f, s, g, m)
    BY <1>2
  <2> DEFINE h == [i \in 0..(m + 1) |-> IF i = m + 1 THEN g[<<m + 1, f[m]>>] ELSE f[i]]
  <2>2. m + 1 \in Nat /\ m \in 0..m /\ f[m] \in A /\ <<m + 1, f[m]>> \in Nat \X A
    OBVIOUS
  <2>3. g[<<m + 1, f[m]>>] \in A
    BY <2>2
  <2>4. \A i \in 0..(m + 1) : i # m + 1 => i \in 0..m
    OBVIOUS
  <2>5. h \in [0..(m + 1) -> A]
    BY <2>3, <2>4
  <2>6. h[0] = s /\ h[m + 1] = g[<<m + 1, f[m]>>] /\ \A i \in 0..m : h[i] = f[i]
    <3>1. 0 # m + 1 /\ 0 \in 0..(m + 1) /\ m + 1 \in 0..(m + 1)
          /\ \A i \in 0..m : i \in 0..(m + 1) /\ i # m + 1
      OBVIOUS
    <3>. QED BY <2>1, <3>1 DEF RecursesTo
  <2> HIDE DEF h
  <2>7. ASSUME NEW i \in 1..(m + 1) PROVE h[i] = g[<<i, h[i - 1]>>]
    <3>1. i - 1 \in 0..m
      OBVIOUS
    <3>2. CASE i = m + 1
      <4>1. i - 1 = m
        BY <3>2
      <4>. QED BY <2>6, <3>1, <3>2, <4>1
    <3>3. CASE i # m + 1
      <4>1. i \in 1..m /\ i \in 0..m
        BY <3>3
      <4>. QED BY <2>1, <2>6, <3>1, <4>1 DEF RecursesTo
    <3>. QED BY <3>2, <3>3
  <2>8. RecursesTo(h, s, g, m + 1)
    BY <2>6, <2>7 DEF RecursesTo
  <2>. QED BY <2>2, <2>5, <2>8
<1> HIDE DEF S
<1>3. Nat \subseteq S
  BY <1>1, <1>2, NumberInduction
<1>. QED BY <1>3 DEF S

(* A sequence with one element that is not mapped to nothing.              *)
LEMMA MappedSingle ==
  ASSUME NEW T, NEW U, NEW f, Maps(f, T, U), NEW q \in Seq(T), NEW i \in 1..Len(q),
         \A j \in 1..Len(q) : j # i => f[q[j]] = <<>>
  PROVE  Mapped(f, q) = f[q[i]]
<1> DEFINE Only(p, k) == \A j \in 1..Len(p) : j # k => f[p[j]] = <<>>
           S == {p \in Seq(T) : \A k \in 1..Len(p) : Only(p, k) => Mapped(f, p) = f[p[k]]}
<1>1. <<>> \in S
  OBVIOUS
<1>2. ASSUME NEW s \in Seq(T), NEW e \in T, s \in S PROVE Append(s, e) \in S
  <2> DEFINE p == Append(s, e)
             n == Len(s)
  <2>1. /\ p \in Seq(T) /\ Len(p) = n + 1 /\ n \in Nat /\ p[n + 1] = e
        /\ \A j \in 1..n : p[j] = s[j] /\ s[j] \in T
    BY AppendProperties, LenProperties, ElementOfSeq
  <2>2. Mapped(f, s) \in Seq(U) /\ Mapped(f, p) = Mapped(f, s) \o f[e]
    BY MappedAppend
  <2>3. \A x \in T : f[x] \in Seq(U)
    BY DEF Maps
  <2> SUFFICES ASSUME NEW k \in 1..Len(p), Only(p, k) PROVE Mapped(f, p) = f[p[k]]
    BY <2>1
  <2> HIDE DEF p, n
  <2>4. CASE k = n + 1
    <3>1. \A j \in 1..n : f[s[j]] = <<>>
      BY <2>1, <2>4
    <3>2. \A x \in Elements(s) : f[x] = <<>>
      BY <3>1 DEF Elements, n
    <3>3. Mapped(f, s) = <<>>
      BY <3>2, MappedNothing
    <3> QED
      BY <2>1, <2>2, <2>3, <2>4, <3>3, ConcatEmptySeq
  <2>5. CASE k # n + 1
    <3>1. k \in 1..n /\ n + 1 \in 1..Len(p) /\ p[k] = s[k] /\ s[k] \in T
      BY <2>1, <2>5
    <3>2. f[e] = <<>>
      BY <2>1, <2>5, <3>1
    <3>3. Only(s, k)
      BY <2>1, <3>1 DEF n
    <3>4. Mapped(f, s) = f[s[k]]
      BY <1>2, <3>1, <3>3 DEF n
    <3> QED
      BY <2>2, <2>3, <3>1, <3>2, <3>4, ConcatEmptySeq
  <2> QED
    BY <2>4, <2>5
<1> HIDE DEF S
<1>3. q \in S
  BY <1>1, <1>2, SequenceInduction
<1> QED
  BY <1>3 DEF S

=============================================================================
