---------------------------- MODULE SequenceLemmas ----------------------------
(***************************************************************************)
(* Facts about numbers, sequences and sums that the proofs of the logging  *)
(* modules need.  They are proved by induction: a set of natural numbers   *)
(* that is not empty has a least element, so a set that contains 0 and,    *)
(* with each number, the next one contains them all.                       *)
(***************************************************************************)
EXTENDS Integers, SequencesExt, FiniteSetTheorems, SequenceTheorems,
        FunctionTheorems, WellFoundedInduction, TLAPS

(* A set of numbers that is not empty has a least element.                 *)
LEMMA LeastElement ==
    ASSUME NEW T, T \subseteq Nat, T # {}
    PROVE  \E n \in T : \A m \in T : n <= m
<1> DEFINE R == OpToRel(<, Nat)
<1>1. IsWellFoundedOn(R, Nat)
  BY Zenon, NatLessThanWellFounded
<1>2. ASSUME NEW m \in Nat, NEW n \in Nat, m < n PROVE <<m, n>> \in R
  BY Zenon, <1>2 DEF OpToRel
<1> HIDE DEF R
<1>3. PICK n \in T : \A m \in T : ~(<<m, n>> \in R)
  BY <1>1, WFMin
<1>4. ASSUME NEW m \in T PROVE n <= m
  <2>1. m \in Nat /\ n \in Nat /\ ~(m < n)
    BY <1>2, <1>3
  <2> QED
    BY <2>1
<1> QED
  BY <1>4

(* Induction over a set S of numbers: 0 is in it, and so is the successor  *)
(* of each of its elements.                                                *)
LEMMA SetInduction ==
    ASSUME NEW S, 0 \in S, \A n \in Nat : n \in S => n + 1 \in S
    PROVE  Nat \subseteq S
<1> SUFFICES ASSUME Nat \ S # {} PROVE FALSE
  OBVIOUS
<1>1. PICK n \in Nat \ S : \A m \in Nat \ S : n <= m
  BY LeastElement
<1>2. n # 0 /\ n - 1 \in Nat
  BY <1>1
<1> QED
  BY <1>1, <1>2

------------------------------------------------------------------------------
(* Two sequences, one after the other.                                     *)

(* The two parts of a concatenation.                                       *)
LEMMA ConcatSplits ==
    ASSUME NEW S, NEW s \in Seq(S), NEW t \in Seq(S)
    PROVE  /\ SubSeq(s \o t, 1, Len(s)) = s
           /\ SubSeq(s \o t, Len(s) + 1, Len(s \o t)) = t
<1> DEFINE u == s \o t
<1>1. /\ u \in Seq(S) /\ Len(u) = Len(s) + Len(t)
      /\ \A i \in 1..Len(u) : u[i] = IF i <= Len(s) THEN s[i] ELSE t[i - Len(s)]
  BY ConcatProperties
<1>2. Len(s) \in Nat /\ Len(t) \in Nat
  BY LenProperties
<1> HIDE DEF u
<1>3. SubSeq(u, 1, Len(s)) = s
  <2> DEFINE v == SubSeq(u, 1, Len(s))
  <2>1. \A i \in 1..Len(s) : u[i] \in S
    BY <1>1, <1>2, ElementOfSeq
  <2>2. v \in Seq(S) /\ Len(v) = Len(s) /\ \A i \in 1..Len(s) : v[i] = u[i]
    BY <1>2, <2>1, SubSeqProperties
  <2> HIDE DEF v
  <2>3. \A i \in 1..Len(v) : v[i] = s[i]
    BY <1>1, <1>2, <2>2
  <2> QED
    BY <2>2, <2>3, SeqEqual DEF v
<1>4. SubSeq(u, Len(s) + 1, Len(u)) = t
  <2> DEFINE v == SubSeq(u, Len(s) + 1, Len(u))
  <2>1. \A i \in Len(s) + 1 .. Len(u) : u[i] \in S
    BY <1>1, <1>2, ElementOfSeq
  <2>2. /\ v \in Seq(S) /\ Len(v) = Len(t)
        /\ \A i \in 1..Len(t) : v[i] = u[Len(s) + i]
    <3>1. Len(s) + 1 \in Int /\ Len(u) \in Int
      BY <1>1, <1>2
    <3>2. /\ v \in Seq(S)
          /\ Len(v) = IF Len(s) + 1 <= Len(u) THEN Len(u) - (Len(s) + 1) + 1 ELSE 0
          /\ \A i \in 1 .. Len(u) - (Len(s) + 1) + 1 : v[i] = u[Len(s) + 1 + i - 1]
      BY <2>1, <3>1, SubSeqProperties
    <3> HIDE DEF v
    <3>3. \A i \in 1..Len(t) : /\ i \in 1 .. Len(u) - (Len(s) + 1) + 1
                              /\ Len(s) + 1 + i - 1 = Len(s) + i
      BY <1>1, <1>2
    <3>4. Len(v) = Len(t)
      BY <1>1, <1>2, <3>2
    <3> QED
      BY <3>2, <3>3, <3>4
  <2> HIDE DEF v
  <2>3. ASSUME NEW i \in 1..Len(t) PROVE v[i] = t[i]
    <3>1. PICK k \in 1..Len(u) : k = Len(s) + i
      BY <1>1, <1>2
    <3>2. ~(k <= Len(s)) /\ k - Len(s) = i
      BY <1>2, <3>1
    <3>3. u[k] = t[k - Len(s)]
      BY <1>1, <3>2
    <3> QED
      BY <2>2, <3>1, <3>2, <3>3
  <2> QED
    BY <2>2, <2>3, SeqEqual DEF v
<1> QED
  BY <1>3, <1>4 DEF u

LEMMA ConcatIsAssociative ==
    \A S : \A s, t, u \in Seq(S) : (s \o t) \o u = s \o (t \o u)
BY ConcatAssociative

(* An opaque name of concatenation, for which the provers do nothing but   *)
(* what they are told.                                                     *)
Cat(s, t) == s \o t

LEMMA CatTwo == \A S : \A a, b \in Seq(S) : Cat(a, b) \in Seq(S)
BY ConcatProperties DEF Cat

LEMMA CatThree ==
    \A S : \A a, b, c \in Seq(S) : Cat(Cat(a, b), c) = Cat(a, Cat(b, c))
BY ConcatIsAssociative, Zenon DEF Cat

LEMMA CatIsAssociative ==
    ASSUME NEW S, NEW a \in Seq(S), NEW b \in Seq(S), NEW c \in Seq(S), NEW d \in Seq(S)
    PROVE  /\ Cat(Cat(Cat(a, b), c), d) = Cat(a, Cat(b, Cat(c, d)))
           /\ Cat(Cat(a, c), d) = Cat(a, Cat(c, d))
<1>1. Cat(a, b) \in Seq(S) /\ Cat(c, d) \in Seq(S)
  BY CatTwo
<1>2. Cat(Cat(Cat(a, b), c), d) = Cat(Cat(a, b), Cat(c, d))
  BY <1>1, CatThree
<1>3. Cat(Cat(a, b), Cat(c, d)) = Cat(a, Cat(b, Cat(c, d)))
  BY <1>1, CatThree
<1>4. Cat(Cat(a, c), d) = Cat(a, Cat(c, d))
  BY CatThree
<1> QED
  BY <1>2, <1>3, <1>4

(* What is left when the middle of three parts is cut out.                 *)
LEMMA MiddleSplits ==
    ASSUME NEW S, NEW a \in Seq(S), NEW b \in Seq(S), NEW c \in Seq(S),
           NEW u, u = a \o (b \o c)
    PROVE  /\ Len(u) = Len(a) + Len(b) + Len(c)
           /\ SubSeq(u, 1, Len(a)) = a
           /\ SubSeq(u, Len(a) + Len(b) + 1, Len(u)) = c
<1>1. PICK d \in Seq(S), e \in Seq(S) : d = a \o b /\ e = b \o c
  BY ConcatProperties
<1>2. /\ Len(d) = Len(a) + Len(b) /\ Len(e) = Len(b) + Len(c) /\ Len(u) = Len(a) + Len(e)
      /\ Len(a) \in Nat /\ Len(b) \in Nat /\ Len(c) \in Nat
  BY <1>1, ConcatProperties, LenProperties
<1>3. u = d \o c
  <2>1. Cat(Cat(a, b), c) = Cat(a, Cat(b, c))
    BY CatThree
  <2> QED
    BY <1>1, <2>1, Zenon DEF Cat
<1>4. SubSeq(u, 1, Len(a)) = a
  BY <1>1, ConcatSplits
<1>5. SubSeq(u, Len(d) + 1, Len(u)) = c
  BY <1>3, ConcatSplits
<1> QED
  BY <1>2, <1>4, <1>5

(* A sequence is its beginning and the rest.                               *)
LEMMA SplitAt ==
    ASSUME NEW S, NEW s \in Seq(S), NEW k \in 1..Len(s)
    PROVE  /\ SubSeq(s, 1, k) \in Seq(S) /\ Len(SubSeq(s, 1, k)) = k
           /\ SubSeq(s, k + 1, Len(s)) \in Seq(S)
           /\ Len(SubSeq(s, k + 1, Len(s))) = Len(s) - k
           /\ \A i \in 1..Len(s) - k : SubSeq(s, k + 1, Len(s))[i] = s[i + k]
           /\ SubSeq(s, 1, k) \o SubSeq(s, k + 1, Len(s)) = s
<1>1. /\ SubSeq(s, 1, k) \in Seq(S) /\ Len(SubSeq(s, 1, k)) = k
  OBVIOUS
<1>2. /\ SubSeq(s, k + 1, Len(s)) \in Seq(S)
      /\ Len(SubSeq(s, k + 1, Len(s))) = Len(s) - k
      /\ \A i \in 1..Len(s) - k : SubSeq(s, k + 1, Len(s))[i] = s[i + k]
  OBVIOUS
<1>3. SubSeq(s, 1, k) \o SubSeq(s, k + 1, Len(s)) = s
  <2>1. 1 \in 1..Len(s) + 1 /\ k \in 1 - 1 .. Len(s) /\ Len(s) \in k..Len(s)
    OBVIOUS
  <2>2. SubSeq(s, 1, k) \o SubSeq(s, k + 1, Len(s)) = SubSeq(s, 1, Len(s))
    BY <2>1, ConcatAdjacentSubSeq
  <2> QED
    BY <2>2, SubSeqFull
<1> QED
  BY <1>1, <1>2, <1>3

LEMMA AppendToConcat ==
    ASSUME NEW S, NEW s \in Seq(S), NEW r \in Seq(S), NEW x \in S
    PROVE  s \o Append(r, x) = Append(s \o r, x)
<1>1. <<x>> \in Seq(S) /\ s \o r \in Seq(S)
  BY ConcatProperties
<1>2. Append(r, x) = r \o <<x>> /\ Append(s \o r, x) = (s \o r) \o <<x>>
  BY <1>1, AppendIsConcat
<1> QED
  BY <1>1, <1>2, ConcatIsAssociative

(* Nothing comes twice in s \o t.                                          *)
LEMMA ConcatInjective ==
    ASSUME NEW S, NEW s \in Seq(S), NEW t \in Seq(S)
    PROVE  IsInjective(s \o t)
             <=> /\ IsInjective(s) /\ IsInjective(t)
                 /\ Range(s) \cap Range(t) = {}
<1> DEFINE u == s \o t
<1>1. /\ DOMAIN s = 1..Len(s) /\ DOMAIN t = 1..Len(t) /\ DOMAIN u = 1..Len(s) + Len(t)
      /\ Len(s) \in Nat /\ Len(t) \in Nat
  BY ConcatProperties, LenProperties
<1>2. \A i \in 1..Len(s) : u[i] = s[i]
  BY <1>1, ConcatProperties
<1>3. \A i \in 1..Len(t) : u[Len(s) + i] = t[i]
  BY <1>1, ConcatProperties
<1>4. \A i \in DOMAIN u : i \in 1..Len(s) \/ \E j \in 1..Len(t) : i = Len(s) + j
  <2> TAKE i \in DOMAIN u
  <2>1. i \in 1..Len(s) \/ (i - Len(s) \in 1..Len(t) /\ i = Len(s) + (i - Len(s)))
    BY <1>1
  <2> QED
    BY <2>1
<1>5. /\ Range(s) = {s[i] : i \in 1..Len(s)} /\ Range(t) = {t[i] : i \in 1..Len(t)}
  BY RangeEquality
<1> HIDE DEF u
<1>6. ASSUME IsInjective(u)
      PROVE  IsInjective(s) /\ IsInjective(t) /\ Range(s) \cap Range(t) = {}
  <2>1. \A i, j \in DOMAIN u : u[i] = u[j] => i = j
    BY <1>6 DEF IsInjective
  <2>2. IsInjective(s)
    BY <1>1, <1>2, <2>1 DEF IsInjective
  <2>3. IsInjective(t)
    <3> SUFFICES ASSUME NEW i \in 1..Len(t), NEW j \in 1..Len(t), t[i] = t[j]
                 PROVE  i = j
      BY <1>1 DEF IsInjective
    <3>1. Len(s) + i \in DOMAIN u /\ Len(s) + j \in DOMAIN u
      BY <1>1
    <3>2. Len(s) + i = Len(s) + j
      BY <1>3, <2>1, <3>1
    <3> QED
      BY <1>1, <3>2
  <2>4. Range(s) \cap Range(t) = {}
    <3> SUFFICES ASSUME NEW i \in 1..Len(s), NEW j \in 1..Len(t), s[i] = t[j]
                 PROVE  FALSE
      BY <1>5
    <3>1. i \in DOMAIN u /\ Len(s) + j \in DOMAIN u /\ i # Len(s) + j
      BY <1>1
    <3> QED
      BY <1>2, <1>3, <2>1, <3>1
  <2> QED
    BY <2>2, <2>3, <2>4
<1>7. ASSUME IsInjective(s), IsInjective(t), Range(s) \cap Range(t) = {}
      PROVE  IsInjective(u)
  <2>1. \A i \in 1..Len(s), j \in 1..Len(t) : s[i] # t[j]
    BY <1>5, <1>7
  <2>2. \A i, j \in 1..Len(s) : s[i] = s[j] => i = j
    BY <1>1, <1>7 DEF IsInjective
  <2>3. \A i, j \in 1..Len(t) : t[i] = t[j] => i = j
    BY <1>1, <1>7 DEF IsInjective
  <2> SUFFICES ASSUME NEW i \in DOMAIN u, NEW j \in DOMAIN u, u[i] = u[j]
               PROVE  i = j
    BY DEF IsInjective
  <2> QED
    BY <1>2, <1>3, <1>4, <2>1, <2>2, <2>3
<1> QED
  BY <1>6, <1>7 DEF u

(* The range of a sequence with one more element.                          *)
LEMMA AppendRange ==
    ASSUME NEW S, NEW s \in Seq(S), NEW x \in S
    PROVE  /\ Range(Append(s, x)) = Range(s) \cup {x}
           /\ IsInjective(s) /\ x \notin Range(s) => IsInjective(Append(s, x))
<1>1. /\ <<x>> \in Seq(S) /\ Append(s, x) = s \o <<x>>
  BY AppendIsConcat
<1>2. Range(<<x>>) = {x} /\ IsInjective(<<x>>)
  BY DEF Range, IsInjective
<1>3. Range(s \o <<x>>) = Range(s) \cup Range(<<x>>)
  BY <1>1, RangeConcatenation
<1>4. Range(Append(s, x)) = Range(s) \cup {x}
  BY <1>1, <1>2, <1>3, Zenon
<1>5. ASSUME IsInjective(s), x \notin Range(s) PROVE IsInjective(Append(s, x))
  <2>1. Range(s) \cap Range(<<x>>) = {}
    BY <1>2, <1>5
  <2>2. IsInjective(s \o <<x>>)
    BY ONLY <1>1, <1>2, <1>5, <2>1, s \in Seq(S), ConcatInjective
  <2> QED
    BY <1>1, <2>2, Zenon
<1> QED
  BY <1>4, <1>5

(* A sequence without repetitions has as many elements as its range.       *)
LEMMA InjectiveCounts ==
    ASSUME NEW S, NEW s \in Seq(S), IsInjective(s)
    PROVE  IsFiniteSet(Range(s)) /\ Cardinality(Range(s)) = Len(s)
<1>1. /\ s \in [1..Len(s) -> S] /\ DOMAIN s = 1..Len(s) /\ Len(s) \in Nat
  BY LenProperties
<1>2. s \in Surjection(1..Len(s), Range(s))
  BY <1>1, Fun_RangeProperties
<1>3. s \in Bijection(1..Len(s), Range(s))
  <2>1. /\ s \in [1..Len(s) -> Range(s)]
        /\ \A a, b \in 1..Len(s) : s[a] = s[b] => a = b
    BY <1>1, <1>2, Fun_SurjectionProperties DEF IsInjective
  <2> QED
    BY <1>2, <2>1, Fun_IsBij
<1>4. IsFiniteSet(1..Len(s)) /\ Cardinality(1..Len(s)) = Len(s)
  <2>1. 1 \in Int /\ Len(s) \in Int
    BY <1>1
  <2>2. /\ IsFiniteSet(1..Len(s))
        /\ Cardinality(1..Len(s)) = IF 1 > Len(s) THEN 0 ELSE Len(s) - 1 + 1
    BY <2>1, FS_Interval, Zenon
  <2> QED
    BY <1>1, <2>2
<1> QED
  BY <1>3, <1>4, FS_Bijection DEF ExistsBijection
------------------------------------------------------------------------------
(* FlattenSeq is defined by a recursive function: there is one, and it is  *)
(* determined by the sequences it concatenates.                            *)

Flattens(g, seqs, n) ==
    g = [i \in 1..n |-> IF i = 1 THEN seqs[i] ELSE g[i-1] \o seqs[i]]

(* The function that the definition of FlattenSeq chooses exists.          *)
LEMMA FlattensExists ==
    ASSUME NEW seqs, NEW n \in Nat
    PROVE  \E g : Flattens(g, seqs, n)
<1> DEFINE S == {k \in Nat : \E g : Flattens(g, seqs, k)}
<1>1. 0 \in S
  <2> DEFINE g == [i \in 1..0 |-> 0]
  <2>1. Flattens(g, seqs, 0)
    BY DEF Flattens
  <2> QED
    BY <2>1
<1>2. ASSUME NEW k \in Nat, k \in S PROVE k + 1 \in S
  <2>1. PICK g : Flattens(g, seqs, k)
    BY <1>2
  <2> DEFINE h == [i \in 1..k+1 |-> IF i = 1 THEN seqs[i] ELSE g[i-1] \o seqs[i]]
  <2>2. ASSUME NEW i \in 1..k PROVE h[i] = g[i]
    <3>1. i \in 1..k+1
      OBVIOUS
    <3>2. g[i] = IF i = 1 THEN seqs[i] ELSE g[i-1] \o seqs[i]
      BY <2>1 DEF Flattens
    <3> QED
      BY <3>1, <3>2
  <2>3. \A i \in 1..k+1 : i # 1 => i - 1 \in 1..k
    OBVIOUS
  <2>4. h = [i \in 1..k+1 |-> IF i = 1 THEN seqs[i] ELSE h[i-1] \o seqs[i]]
    BY <2>2, <2>3
  <2>5. Flattens(h, seqs, k+1)
    BY <2>4 DEF Flattens
  <2> QED
    BY <2>5
<1> HIDE DEF S
<1>3. Nat \subseteq S
  BY <1>1, <1>2, SetInduction
<1> QED
  BY <1>3 DEF S

(* FlattenSeq is the last value of that function, which can be unfolded.   *)
LEMMA FlattenIs ==
    ASSUME NEW seqs, NEW n \in Nat \ {0}, Len(seqs) = n
    PROVE  \E g : Flattens(g, seqs, n) /\ FlattenSeq(seqs) = g[n]
<1> DEFINE G == CHOOSE g : g = [i \in 1..Len(seqs) |->
                                   IF i = 1 THEN seqs[i] ELSE g[i-1] \o seqs[i]]
<1>0. n \in Nat
  OBVIOUS
<1>1. \E g : g = [i \in 1..Len(seqs) |-> IF i = 1 THEN seqs[i] ELSE g[i-1] \o seqs[i]]
  BY <1>0, FlattensExists DEF Flattens
<1>2. G = [i \in 1..Len(seqs) |-> IF i = 1 THEN seqs[i] ELSE G[i-1] \o seqs[i]]
  BY <1>1
<1>3. FlattenSeq(seqs) = G[Len(seqs)]
  BY DEF FlattenSeq
<1> QED
  BY <1>2, <1>3 DEF Flattens

AgreeOn(v, w, D) == \A x \in D : v[x] = w[x]

(* The flattened beginning of a sequence does not depend on what follows.  *)
LEMMA FlattensAgree ==
    ASSUME NEW s, NEW t, NEW m \in Nat, NEW n \in Nat, m <= n,
           NEW g, NEW h, Flattens(g, s, m), Flattens(h, t, n),
           AgreeOn(s, t, 1..m)
    PROVE  \A i \in 1..m : g[i] = h[i]
<1> DEFINE S == {k \in Nat : k \in 1..m => g[k] = h[k]}
<1>1. \A i \in 1..m : g[i] = IF i = 1 THEN s[i] ELSE g[i-1] \o s[i]
  BY DEF Flattens
<1>0. \A i \in 1..m : s[i] = t[i]
  BY DEF AgreeOn
<1>2. \A i \in 1..m : h[i] = IF i = 1 THEN t[i] ELSE h[i-1] \o t[i]
  <2>1. \A i \in 1..n : h[i] = IF i = 1 THEN t[i] ELSE h[i-1] \o t[i]
    BY DEF Flattens
  <2> QED
    BY <2>1
<1>3. 0 \in S
  OBVIOUS
<1>4. ASSUME NEW k \in Nat, k \in S PROVE k + 1 \in S
  <2> SUFFICES ASSUME k + 1 \in 1..m PROVE g[k + 1] = h[k + 1]
    OBVIOUS
  <2>1. CASE k = 0
    BY <1>0, <1>1, <1>2, <2>1
  <2>2. CASE k # 0
    <3>1. k \in 1..m /\ k + 1 # 1 /\ k + 1 - 1 = k
      BY <2>2
    <3>2. g[k] = h[k]
      BY <1>4, <3>1
    <3> QED
      BY <1>0, <1>1, <1>2, <3>1, <3>2
  <2> QED
    BY <2>1, <2>2
<1> HIDE DEF S
<1>5. Nat \subseteq S
  BY <1>3, <1>4, SetInduction
<1> QED
  BY <1>5 DEF S

LEMMA FlattenEmpty == FlattenSeq(<<>>) = <<>>
BY DEF FlattenSeq

LEMMA FlattenOne == \A s : FlattenSeq(<<s>>) = s
<1> TAKE s
<1>1. Len(<<s>>) = 1 /\ <<s>>[1] = s /\ 1 \in Nat \ {0}
  OBVIOUS
<1>2. PICK g : Flattens(g, <<s>>, 1) /\ FlattenSeq(<<s>>) = g[1]
  BY <1>1, FlattenIs
<1> QED
  BY <1>1, <1>2 DEF Flattens

LEMMA FlattenOneMore ==
    ASSUME NEW s, NEW t, NEW n \in Nat, NEW k \in Nat, n # 0, k = n + 1,
           Len(s) = n, Len(t) = k, AgreeOn(s, t, 1..n)
    PROVE  FlattenSeq(t) = FlattenSeq(s) \o t[k]
<1>1. n <= k /\ n \in 1..n /\ k \in 1..k /\ k # 1 /\ k - 1 = n /\ k # 0
  OBVIOUS
<1>2. PICK g : Flattens(g, s, n) /\ FlattenSeq(s) = g[n]
  BY FlattenIs
<1>3. PICK h : Flattens(h, t, k) /\ FlattenSeq(t) = h[k]
  BY <1>1, FlattenIs
<1>4. \A i \in 1..n : g[i] = h[i]
  <2>1. n \in Nat /\ k \in Nat /\ n <= k /\ AgreeOn(s, t, 1..n)
    BY <1>1
  <2>2. Flattens(g, s, n) /\ Flattens(h, t, k)
    BY <1>2, <1>3
  <2> QED
    BY ONLY <2>1, <2>2, FlattensAgree
<1>5. \A i \in 1..k : h[i] = IF i = 1 THEN t[i] ELSE h[i-1] \o t[i]
  BY <1>3 DEF Flattens
<1>6. h[k] = h[k-1] \o t[k]
  BY <1>1, <1>5
<1> QED
  BY <1>1, <1>2, <1>3, <1>4, <1>6

LEMMA FlattenLast ==
    ASSUME NEW S, NEW s \in Seq(Seq(S)), s # <<>>, NEW x
    PROVE  FlattenSeq(Append(s, x)) = FlattenSeq(s) \o x
<1>0. Len(s) \in Nat /\ Len(s) + 1 \in Nat /\ Len(s) # 0
  OBVIOUS
<1>1. PICK t : t = Append(s, x)
  OBVIOUS
<1> DEFINE n == Len(s)
           k == n + 1
<1>2. n \in Nat /\ k \in Nat /\ n # 0 /\ k = n + 1 /\ Len(s) = n
  BY <1>0
<1>5. Len(t) = k /\ t[k] = x
  BY <1>1
<1>3. AgreeOn(s, t, 1..n)
  BY <1>1 DEF AgreeOn
<1> HIDE DEF n, k
<1>4. FlattenSeq(t) = FlattenSeq(s) \o t[k]
  BY ONLY <1>2, <1>3, <1>5, FlattenOneMore
<1> QED
  BY ONLY <1>1, <1>4, <1>5

(* Sequences of sequences, taken apart at their ends.                      *)
LEMMA FrontAndLast ==
    ASSUME NEW S, NEW n \in Nat, NEW s \in Seq(S), Len(s) = n + 1
    PROVE  \E r \in Seq(S), x \in S : s = Append(r, x) /\ Len(r) = n
<1>1. s # <<>>
  OBVIOUS
<1>2. PICK r \in Seq(S), x \in S : s = Append(r, x)
  BY <1>1, SequenceEmptyOrAppend
<1>3. Len(s) = Len(r) + 1 /\ Len(r) \in Nat
  BY <1>2
<1> QED
  BY <1>2, <1>3

(* Flattened sequences of elements of S are sequences over S.              *)
LEMMA FlattenType ==
    ASSUME NEW S
    PROVE  \A s \in Seq(Seq(S)) : FlattenSeq(s) \in Seq(S)
<1> DEFINE T == {n \in Nat : \A s \in Seq(Seq(S)) : Len(s) = n => FlattenSeq(s) \in Seq(S)}
<1>1. 0 \in T
  <2>1. \A s \in Seq(Seq(S)) : Len(s) = 0 => s = <<>>
    OBVIOUS
  <2>2. <<>> \in Seq(S)
    OBVIOUS
  <2> QED
    BY <2>1, <2>2, FlattenEmpty
<1>2. ASSUME NEW n \in Nat, n \in T PROVE n + 1 \in T
  <2> SUFFICES ASSUME NEW s \in Seq(Seq(S)), Len(s) = n + 1
               PROVE  FlattenSeq(s) \in Seq(S)
    OBVIOUS
  <2>1. PICK r \in Seq(Seq(S)), x \in Seq(S) : s = Append(r, x) /\ Len(r) = n
    BY FrontAndLast
  <2>2. FlattenSeq(r) \in Seq(S)
    BY <1>2, <2>1
  <2>3. CASE r = <<>>
    <3>1. s = <<x>>
      BY <2>1, <2>3
    <3> QED
      BY <3>1, FlattenOne
  <2>4. CASE r # <<>>
    BY <2>1, <2>2, <2>4, FlattenLast, ConcatProperties
  <2> QED
    BY <2>3, <2>4
<1> HIDE DEF T
<1>3. Nat \subseteq T
  BY <1>1, <1>2, SetInduction
<1>4. \A s \in Seq(Seq(S)) : Len(s) \in Nat
  OBVIOUS
<1> QED
  BY <1>3, <1>4 DEF T

LEMMA FlattenAppend ==
    ASSUME NEW S, NEW s \in Seq(Seq(S)), NEW x \in Seq(S)
    PROVE  FlattenSeq(Append(s, x)) = FlattenSeq(s) \o x
<1>1. CASE s = <<>>
  <2>1. Append(s, x) = <<x>>
    BY <1>1
  <2> QED
    BY <1>1, <2>1, FlattenOne, FlattenEmpty, ConcatEmptySeq
<1>2. CASE s # <<>>
  BY <1>2, FlattenLast
<1> QED
  BY <1>1, <1>2

(* Flattening a concatenation.                                             *)
LEMMA FlattenConcat ==
    ASSUME NEW S, NEW s \in Seq(Seq(S))
    PROVE  \A t \in Seq(Seq(S)) : FlattenSeq(s \o t) = FlattenSeq(s) \o FlattenSeq(t)
<1> DEFINE T == {n \in Nat : \A t \in Seq(Seq(S)) :
                    Len(t) = n => FlattenSeq(s \o t) = FlattenSeq(s) \o FlattenSeq(t)}
<1>0. FlattenSeq(s) \in Seq(S)
  BY FlattenType
<1>1. 0 \in T
  <2>1. \A t \in Seq(Seq(S)) : Len(t) = 0 => t = <<>>
    OBVIOUS
  <2>2. s \o <<>> = s /\ FlattenSeq(s) \o <<>> = FlattenSeq(s)
    BY <1>0, ConcatEmptySeq
  <2> QED
    BY <2>1, <2>2, FlattenEmpty
<1>2. ASSUME NEW n \in Nat, n \in T PROVE n + 1 \in T
  <2> SUFFICES ASSUME NEW t \in Seq(Seq(S)), Len(t) = n + 1
               PROVE  FlattenSeq(s \o t) = FlattenSeq(s) \o FlattenSeq(t)
    OBVIOUS
  <2>1. PICK r \in Seq(Seq(S)), x \in Seq(S) : t = Append(r, x) /\ Len(r) = n
    BY FrontAndLast
  <2>2. FlattenSeq(s \o r) = FlattenSeq(s) \o FlattenSeq(r)
    BY <1>2, <2>1
  <2>3. s \o t = Append(s \o r, x) /\ s \o r \in Seq(Seq(S))
    <3>1. s \o r \in Seq(Seq(S))
      BY ConcatProperties
    <3> QED
      BY <2>1, <3>1, AppendToConcat
  <2>4. FlattenSeq(s \o t) = (FlattenSeq(s) \o FlattenSeq(r)) \o x
    BY <2>2, <2>3, FlattenAppend
  <2>5. FlattenSeq(t) = FlattenSeq(r) \o x
    BY <2>1, FlattenAppend
  <2>6. FlattenSeq(r) \in Seq(S)
    BY FlattenType
  <2>7. (FlattenSeq(s) \o FlattenSeq(r)) \o x = FlattenSeq(s) \o (FlattenSeq(r) \o x)
    <3>1. PICK a \in Seq(S), b \in Seq(S) : a = FlattenSeq(s) /\ b = FlattenSeq(r)
      BY <1>0, <2>6
    <3>2. (a \o b) \o x = a \o (b \o x)
      BY ConcatIsAssociative, SMTT(40)
    <3> QED
      BY <3>1, <3>2, Zenon
  <2> QED
    BY <2>4, <2>5, <2>7, Zenon
<1> HIDE DEF T
<1>3. Nat \subseteq T
  BY <1>1, <1>2, SetInduction
<1>4. \A t \in Seq(Seq(S)) : Len(t) \in Nat
  OBVIOUS
<1> QED
  BY <1>3, <1>4 DEF T

(* Sequences that are neither empty nor longer than a bound.               *)
LEMMA FlattenLength ==
    ASSUME NEW S, NEW bound \in Nat
    PROVE  \A s \in Seq(Seq(S)) :
              (\A i \in 1..Len(s) : Len(s[i]) \in 1..bound)
                => /\ Len(s) <= Len(FlattenSeq(s))
                   /\ Len(FlattenSeq(s)) <= Len(s) * bound
<1> DEFINE Bounded(s) == \A i \in 1..Len(s) : Len(s[i]) \in 1..bound
           T == {n \in Nat : \A s \in Seq(Seq(S)) :
                    Len(s) = n /\ Bounded(s)
                      => n <= Len(FlattenSeq(s)) /\ Len(FlattenSeq(s)) <= n * bound}
<1>1. 0 \in T
  <2>1. \A s \in Seq(Seq(S)) : Len(s) = 0 => s = <<>>
    OBVIOUS
  <2>2. Len(<<>>) = 0 /\ 0 * bound = 0
    OBVIOUS
  <2> QED
    BY <2>1, <2>2, FlattenEmpty
<1>2. ASSUME NEW n \in Nat, n \in T PROVE n + 1 \in T
  <2> SUFFICES ASSUME NEW s \in Seq(Seq(S)), Len(s) = n + 1, Bounded(s)
               PROVE  /\ n + 1 <= Len(FlattenSeq(s))
                      /\ Len(FlattenSeq(s)) <= (n + 1) * bound
    OBVIOUS
  <2>1. PICK r \in Seq(Seq(S)), x \in Seq(S) : s = Append(r, x) /\ Len(r) = n
    BY FrontAndLast
  <2>2. /\ s[n + 1] = x /\ n + 1 \in 1..Len(s)
        /\ \A i \in 1..Len(r) : i \in 1..Len(s) /\ r[i] = s[i]
    BY <2>1
  <2>3. Bounded(r) /\ Len(x) \in 1..bound
    BY <2>2
  <2>4. n <= Len(FlattenSeq(r)) /\ Len(FlattenSeq(r)) <= n * bound
    BY <1>2, <2>1, <2>3
  <2>5. FlattenSeq(s) = FlattenSeq(r) \o x /\ FlattenSeq(r) \in Seq(S)
    BY <2>1, FlattenAppend, FlattenType
  <2>6. Len(FlattenSeq(s)) = Len(FlattenSeq(r)) + Len(x) /\ Len(FlattenSeq(r)) \in Nat
    BY <2>5, ConcatProperties, LenProperties
  <2>7. (n + 1) * bound = n * bound + bound /\ n * bound \in Nat
    OBVIOUS
  <2> HIDE DEF Bounded
  <2> QED
    BY <2>3, <2>4, <2>6, <2>7
<1> HIDE DEF T, Bounded
<1>3. Nat \subseteq T
  BY <1>1, <1>2, SetInduction
<1>4. \A s \in Seq(Seq(S)) : Len(s) \in Nat
  OBVIOUS
<1> QED
  BY <1>3, <1>4 DEF T, Bounded
------------------------------------------------------------------------------
(* The folds of the community modules take the elements of a set in the    *)
(* order in which CHOOSE finds them: there is such a sum of numbers, and   *)
(* the order does not matter to it.                                        *)

Some(s) == CHOOSE x \in s : TRUE

Sums(F, w, D) ==
    F = [s \in SUBSET D |-> IF s = {} THEN 0 ELSE w[Some(s)] + F[s \ {Some(s)}]]

LEMMA SmallerSet ==
    ASSUME NEW D, IsFiniteSet(D), NEW s \in SUBSET D, NEW n \in Nat
    PROVE  /\ Cardinality(s) \in Nat
           /\ Cardinality(s) = 0 => s = {}
           /\ s # {} => Some(s) \in s
           /\ \A x \in s : /\ s \ {x} \in SUBSET D
                           /\ Cardinality(s) <= n + 1 => Cardinality(s \ {x}) <= n
<1>1. IsFiniteSet(s) /\ Cardinality(s) \in Nat
  BY FS_Subset, FS_CardinalityType
<1>2. Cardinality(s) = 0 => s = {}
  BY <1>1, FS_EmptySet
<1>3. s # {} => Some(s) \in s
  BY Zenon DEF Some
<1>4. \A x \in s : Cardinality(s \ {x}) = Cardinality(s) - 1
  BY <1>1, FS_RemoveElement
<1> QED
  BY <1>1, <1>2, <1>3, <1>4

(* The function that the definition of the fold chooses exists, for sums   *)
(* over finite sets of indices.                                            *)
LEMMA SumsExists ==
    ASSUME NEW D, IsFiniteSet(D), NEW w
    PROVE  \E F : Sums(F, w, D)
<1> DEFINE Step(G, s) == IF s = {} THEN 0 ELSE w[Some(s)] + G[s \ {Some(s)}]
           T == {n \in Nat : \E G : \A s \in SUBSET D :
                                Cardinality(s) <= n => G[s] = Step(G, s)}
<1>1. 0 \in T
  <2> DEFINE G == [s \in SUBSET D |-> 0]
  <2>1. \A s \in SUBSET D : Cardinality(s) <= 0 => s = {}
    BY SmallerSet
  <2>2. \A s \in SUBSET D : Cardinality(s) <= 0 => G[s] = Step(G, s)
    BY <2>1
  <2> HIDE DEF G, Step
  <2> QED
    BY <2>2
<1>2. ASSUME NEW n \in Nat, n \in T PROVE n + 1 \in T
  <2>1. PICK G : \A s \in SUBSET D : Cardinality(s) <= n => G[s] = Step(G, s)
    BY <1>2
  <2> DEFINE H == [s \in SUBSET D |-> Step(G, s)]
  <2>2. \A s \in SUBSET D : Cardinality(s) <= n => H[s] = G[s]
    BY <2>1
  <2>3. ASSUME NEW s \in SUBSET D, Cardinality(s) <= n + 1
        PROVE  H[s] = Step(H, s)
    <3>1. CASE s = {}
      BY <3>1
    <3>2. CASE s # {}
      <4>1. /\ s \ {Some(s)} \in SUBSET D
            /\ Cardinality(s \ {Some(s)}) <= n
        BY <2>3, <3>2, SmallerSet
      <4>2. H[s \ {Some(s)}] = G[s \ {Some(s)}]
        BY <2>2, <4>1
      <4> QED
        BY <4>2
    <3> QED
      BY <3>1, <3>2
  <2> HIDE DEF H, Step
  <2> QED
    BY <2>3
<1> HIDE DEF T
<1>3. Nat \subseteq T
  BY <1>1, <1>2, SetInduction
<1>4. Cardinality(D) \in T
  BY <1>3, FS_CardinalityType
<1>5. PICK G : \A s \in SUBSET D : Cardinality(s) <= Cardinality(D) => G[s] = Step(G, s)
  BY <1>4 DEF T
<1>6. \A s \in SUBSET D : Cardinality(s) <= Cardinality(D)
  BY FS_Subset
<1> DEFINE F == [s \in SUBSET D |-> G[s]]
<1>7. \A s \in SUBSET D : s # {} => s \ {Some(s)} \in SUBSET D
  OBVIOUS
<1>8. \A s \in SUBSET D : F[s] = Step(F, s)
  BY <1>5, <1>6, <1>7
<1>9. Sums(F, w, D)
  BY <1>8 DEF Sums
<1> QED
  BY <1>9

(* The fold over a set is unfolded at the index that CHOOSE picks.         *)
LEMMA SumsUnfold ==
    ASSUME NEW D, NEW w, NEW F, Sums(F, w, D)
    PROVE  /\ F[{}] = 0
           /\ \A s \in SUBSET D : s # {} => F[s] = w[Some(s)] + F[s \ {Some(s)}]
BY DEF Sums

LEMMA SumsType ==
    ASSUME NEW D, IsFiniteSet(D), NEW w \in [D -> Nat], NEW F, Sums(F, w, D)
    PROVE  \A s \in SUBSET D : F[s] \in Nat
<1> DEFINE T == {n \in Nat : \A s \in SUBSET D : Cardinality(s) <= n => F[s] \in Nat}
<1>0. F[{}] = 0 /\ \A s \in SUBSET D : s # {} => F[s] = w[Some(s)] + F[s \ {Some(s)}]
  BY SumsUnfold
<1>1. 0 \in T
  <2>1. \A s \in SUBSET D : Cardinality(s) <= 0 => s = {}
    BY SmallerSet
  <2> QED
    BY <1>0, <2>1
<1>2. ASSUME NEW n \in Nat, n \in T PROVE n + 1 \in T
  <2> SUFFICES ASSUME NEW s \in SUBSET D, Cardinality(s) <= n + 1
               PROVE  F[s] \in Nat
    OBVIOUS
  <2> SUFFICES ASSUME s # {} PROVE F[s] \in Nat
    BY <1>0
  <2>1. /\ Some(s) \in s /\ s \ {Some(s)} \in SUBSET D
        /\ Cardinality(s \ {Some(s)}) <= n
    BY SmallerSet
  <2>2. F[s \ {Some(s)}] \in Nat /\ w[Some(s)] \in Nat
    BY <1>2, <2>1
  <2>3. F[s] = w[Some(s)] + F[s \ {Some(s)}]
    BY <1>0
  <2> QED
    BY <2>2, <2>3
<1> HIDE DEF T
<1>3. Nat \subseteq T
  BY <1>1, <1>2, SetInduction
<1>4. \A s \in SUBSET D : Cardinality(s) \in Nat
  BY SmallerSet, 0 \in Nat
<1> QED
  BY <1>3, <1>4 DEF T

(* The sum over a set is that of any of its indices and of the others,     *)
(* whichever CHOOSE picked.                                                *)
LEMMA SumsRemove ==
    ASSUME NEW D, IsFiniteSet(D), NEW w \in [D -> Nat], NEW F, Sums(F, w, D)
    PROVE  \A s \in SUBSET D : \A x \in s : F[s] = w[x] + F[s \ {x}]
<1> DEFINE T == {n \in Nat : \A s \in SUBSET D : Cardinality(s) <= n
                                => \A x \in s : F[s] = w[x] + F[s \ {x}]}
<1>1. 0 \in T
  <2>1. \A s \in SUBSET D : Cardinality(s) <= 0 => s = {}
    BY SmallerSet
  <2> QED
    BY <2>1
<1>2. ASSUME NEW n \in Nat, n \in T PROVE n + 1 \in T
  <2> SUFFICES ASSUME NEW s \in SUBSET D, Cardinality(s) <= n + 1, NEW x \in s
               PROVE  F[s] = w[x] + F[s \ {x}]
    OBVIOUS
  <2> DEFINE c == Some(s)
  <2>1. c \in s /\ F[s] = w[c] + F[s \ {c}]
    BY SmallerSet, SumsUnfold
  <2> HIDE DEF c
  <2>2. CASE x = c
    BY <2>1, <2>2
  <2>3. CASE x # c
    <3>1. /\ s \ {c} \in SUBSET D /\ Cardinality(s \ {c}) <= n /\ x \in s \ {c}
          /\ s \ {x} \in SUBSET D /\ Cardinality(s \ {x}) <= n /\ c \in s \ {x}
      BY <2>1, <2>3, SmallerSet
    <3>2. F[s \ {c}] = w[x] + F[(s \ {c}) \ {x}]
      BY <1>2, <3>1
    <3>3. F[s \ {x}] = w[c] + F[(s \ {x}) \ {c}]
      BY <1>2, <3>1
    <3>4. (s \ {c}) \ {x} = (s \ {x}) \ {c} /\ (s \ {c}) \ {x} \in SUBSET D
      OBVIOUS
    <3>5. w[x] \in Nat /\ w[c] \in Nat /\ F[(s \ {c}) \ {x}] \in Nat
      BY <2>1, <3>4, SumsType
    <3>6. PICK a \in Nat, b \in Nat, r \in Nat :
             a = w[x] /\ b = w[c] /\ r = F[(s \ {c}) \ {x}]
      BY <3>5
    <3>7. F[s] = b + (a + r) /\ F[s \ {x}] = b + r
      BY <2>1, <3>2, <3>3, <3>4, <3>6
    <3>8. b + (a + r) = a + (b + r)
      OBVIOUS
    <3> QED
      BY <3>6, <3>7, <3>8, Zenon
  <2> QED
    BY <2>2, <2>3
<1> HIDE DEF T
<1>3. Nat \subseteq T
  BY <1>1, <1>2, SetInduction
<1> TAKE s \in SUBSET D
<1>4. Cardinality(s) \in Nat /\ Cardinality(s) <= Cardinality(s)
  BY SmallerSet, 0 \in Nat
<1>5. Cardinality(s) \in T
  BY <1>3, <1>4
<1> QED
  BY <1>4, <1>5, Zenon DEF T

(* Summands that agree on a set have the same sum over it.                 *)
LEMMA SumsAgree ==
    ASSUME NEW D, NEW E, IsFiniteSet(E), D \subseteq E, NEW v, NEW w,
           NEW F, NEW G, Sums(F, v, D), Sums(G, w, E), AgreeOn(v, w, D)
    PROVE  \A s \in SUBSET D : F[s] = G[s]
<1> DEFINE T == {n \in Nat : \A s \in SUBSET D : Cardinality(s) <= n => F[s] = G[s]}
<1>0. IsFiniteSet(D)
  BY FS_Subset
<1>1. 0 \in T
  <2>1. \A s \in SUBSET D : Cardinality(s) <= 0 => s = {}
    BY <1>0, SmallerSet
  <2> QED
    BY <2>1, SumsUnfold
<1>2. ASSUME NEW n \in Nat, n \in T PROVE n + 1 \in T
  <2> SUFFICES ASSUME NEW s \in SUBSET D, Cardinality(s) <= n + 1
               PROVE  F[s] = G[s]
    OBVIOUS
  <2> SUFFICES ASSUME s # {} PROVE F[s] = G[s]
    BY SumsUnfold
  <2>1. /\ Some(s) \in s /\ s \ {Some(s)} \in SUBSET D
        /\ Cardinality(s \ {Some(s)}) <= n
    BY <1>0, SmallerSet
  <2>2. F[s \ {Some(s)}] = G[s \ {Some(s)}] /\ v[Some(s)] = w[Some(s)]
    BY <1>2, <2>1 DEF AgreeOn
  <2> QED
    BY <2>2, SumsUnfold
<1> HIDE DEF T
<1>3. Nat \subseteq T
  BY <1>1, <1>2, SetInduction
<1>4. \A s \in SUBSET D : Cardinality(s) \in Nat
  BY <1>0, SmallerSet, 0 \in Nat
<1> QED
  BY <1>3, <1>4 DEF T

(* One more summand at the end of a sequence.                              *)
LEMMA SumsExtend ==
    ASSUME NEW D, NEW E, IsFiniteSet(E), NEW n \in E, D = E \ {n},
           NEW v \in [D -> Nat], NEW w \in [E -> Nat], AgreeOn(v, w, D),
           NEW F, NEW G, Sums(F, v, D), Sums(G, w, E)
    PROVE  F[D] \in Nat /\ G[E] = w[n] + F[D]
<1>1. D \subseteq E /\ IsFiniteSet(D) /\ D \in SUBSET D /\ E \in SUBSET E
  BY FS_Subset
<1>2. F[D] = G[D]
  <2>1. /\ IsFiniteSet(E) /\ D \subseteq E /\ D \in SUBSET D /\ AgreeOn(v, w, D)
        /\ Sums(F, v, D) /\ Sums(G, w, E)
    BY <1>1
  <2> QED
    BY ONLY <2>1, SumsAgree
<1>3. F[D] \in Nat
  BY <1>1, SumsType
<1>4. G[E] = w[n] + G[E \ {n}]
  BY <1>1, SumsRemove
<1> QED
  BY <1>1, <1>2, <1>3, <1>4
==============================================================================
