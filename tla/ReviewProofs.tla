----------------------------- MODULE ReviewProofs -----------------------------
(***************************************************************************)
(* Proofs about what the agents say of a property, for any comparables,    *)
(* facts, evidence and answers: nothing found is lost, no comparable is    *)
(* kept in place of a nearer one, disagreement costs confidence, and what  *)
(* is cited can be looked up.  The model sums, multiplies, concatenates    *)
(* and builds an index step by step; what is true of each of these is      *)
(* proved first, by induction over the sets for which it is true.          *)
(***************************************************************************)
EXTENDS ReviewProperties, FiniteSetTheorems, SequenceTheorems, TLAPS

-----------------------------------------------------------------------------
(* Induction. *)

\* Numbers have a least one.
LEMMA LeastNumber ==
  ASSUME NEW T \in SUBSET Nat, T # {}
  PROVE  \E m \in T : \A n \in T : m <= n
<1>1. IsWellFoundedOn(OpToRel(<, Nat), Nat)
  BY NatLessThanWellFounded
<1>2. PICK m \in T : \A n \in T : ~(<<n, m>> \in OpToRel(<, Nat))
  BY <1>1, WFMin
<1>3. \A n \in T : ~(n < m)
  BY <1>2 DEF OpToRel
<1> QED
  BY <1>3

\* Induction, over a set of numbers.
LEMMA Induction ==
  ASSUME NEW B, 0 \in B, \A n \in Nat : n \in B => n + 1 \in B
  PROVE  Nat \subseteq B
<1> SUFFICES ASSUME Nat \ B # {} PROVE FALSE
  OBVIOUS
<1>1. PICK m \in Nat \ B : \A n \in Nat \ B : m <= n
  BY LeastNumber
<1>2. m - 1 \in Nat /\ m - 1 \in B
  BY <1>1
<1>3. (m - 1) + 1 \in B /\ (m - 1) + 1 = m
  BY <1>1, <1>2
<1> QED
  BY <1>1, <1>3

\* Induction over the subsets of a finite set: what holds of the empty set and, with a set from
\* which an element was taken, of the set.
LEMMA SubsetInduction ==
  ASSUME NEW S, IsFiniteSet(S), NEW B, {} \in B,
         \A T \in SUBSET S : T # {} /\ (\A x \in T : T \ {x} \in B) => T \in B
  PROVE  S \in B
<1> DEFINE N == {n \in Nat : \A T \in SUBSET S : Cardinality(T) = n => T \in B}
<1>1. \A T \in SUBSET S : IsFiniteSet(T) /\ Cardinality(T) \in Nat
  BY FS_Subset, FS_CardinalityType
<1>2. 0 \in N
  <2> SUFFICES ASSUME NEW T \in SUBSET S, Cardinality(T) = 0 PROVE T \in B
    OBVIOUS
  <2> QED
    BY <1>1, FS_EmptySet
<1>3. ASSUME NEW n \in Nat, n \in N
      PROVE  n + 1 \in N
  <2> SUFFICES ASSUME NEW T \in SUBSET S, Cardinality(T) = n + 1 PROVE T \in B
    OBVIOUS
  <2>1. T # {}
    BY <1>1, FS_EmptySet
  <2>2. ASSUME NEW x \in T
        PROVE  T \ {x} \in B
    <3>1. Cardinality(T \ {x}) = Cardinality(T) - 1
      BY <1>1, FS_RemoveElement
    <3>2. T \ {x} \in SUBSET S /\ Cardinality(T \ {x}) = n
      BY <3>1
    <3> QED
      BY <1>3, <3>2
  <2> QED
    BY <2>1, <2>2
<1> HIDE DEF N
<1>4. Nat \subseteq N
  BY <1>2, <1>3, Induction
<1> QED
  BY <1>1, <1>4 DEF N

-----------------------------------------------------------------------------
(* Sums *)

Chosen(s) == CHOOSE x \in s : TRUE

\* F has the sums of the values of f over the subsets of its domain.
Sums(f, F) == F = [s \in SUBSET DOMAIN f |-> IF s = {} THEN 0 ELSE f[Chosen(s)] + F[s \ {Chosen(s)}]]

\* The sum of the community modules, with its folds expanded.
LEMMA SumIsSum ==
  ASSUME NEW f
  PROVE  SumFunction(f) = (CHOOSE F : Sums(f, F))[DOMAIN f]
BY DEF SumFunction, SumFunctionOnSet, FoldFunctionOnSet, MapThenFoldSet, Sums, Chosen

LEMMA AnyIsMember ==
  ASSUME NEW s, s # {}
  PROVE  Chosen(s) \in s
BY DEF Chosen

\* The function that the sum chooses is there: it is built for larger and larger sets.
LEMMA SumsExist ==
  ASSUME NEW f, IsFiniteSet(DOMAIN f)
  PROVE  \E F : Sums(f, F) /\ SumFunction(f) = F[DOMAIN f]
<1> DEFINE Step(F, s) == IF s = {} THEN 0 ELSE f[Chosen(s)] + F[s \ {Chosen(s)}]
           Good(F, n) == \A s \in SUBSET DOMAIN f : Cardinality(s) <= n => F[s] = Step(F, s)
           N == {n \in Nat : \E F : Good(F, n)}
<1>1. \A s \in SUBSET DOMAIN f : IsFiniteSet(s) /\ Cardinality(s) \in Nat
  BY FS_Subset, FS_CardinalityType
\* One more step extends the sums to larger sets.
<1>2. ASSUME NEW F, NEW n \in Nat, Good(F, n)
      PROVE  Good([s \in SUBSET DOMAIN f |-> Step(F, s)], n + 1)
  <2> DEFINE G == [s \in SUBSET DOMAIN f |-> Step(F, s)]
  <2> SUFFICES ASSUME NEW s \in SUBSET DOMAIN f, Cardinality(s) <= n + 1
               PROVE  G[s] = Step(G, s)
    OBVIOUS
  <2>1. CASE s = {}
    BY <2>1
  <2>2. CASE s # {}
    <3> DEFINE r == s \ {Chosen(s)}
    <3>1. r \in SUBSET DOMAIN f
      OBVIOUS
    <3>2. Cardinality(r) <= n
      <4>1. Chosen(s) \in s
        BY <2>2, AnyIsMember
      <4>2. Cardinality(r) = Cardinality(s) - 1
        BY <1>1, <4>1, FS_RemoveElement
      <4> QED
        BY <1>1, <4>2
    <3>3. F[r] = Step(F, r)
      BY <1>2, <3>1, <3>2
    <3>4. G[r] = F[r]
      BY <3>1, <3>3
    <3>5. G[s] = f[Chosen(s)] + F[r]
      BY <2>2
    <3> QED
      BY <2>2, <3>4, <3>5
  <2> QED
    BY <2>1, <2>2
<1>3. 0 \in N
  <2>1. Good([s \in SUBSET DOMAIN f |-> 0], 0)
    <3> SUFFICES ASSUME NEW s \in SUBSET DOMAIN f, Cardinality(s) <= 0 PROVE s = {}
      OBVIOUS
    <3> QED
      BY <1>1, FS_EmptySet
  <2> QED
    BY <2>1
<1>4. ASSUME NEW n \in Nat, n \in N
      PROVE  n + 1 \in N
  <2>1. PICK F : Good(F, n)
    BY <1>4
  <2>2. Good([s \in SUBSET DOMAIN f |-> Step(F, s)], n + 1)
    BY <1>2, <2>1
  <2> HIDE DEF Good
  <2> QED
    BY <2>2
<1>5. Nat \subseteq N
  <2> HIDE DEF N
  <2> QED
    BY <1>3, <1>4, Induction
<1>6. PICK F : Good(F, Cardinality(DOMAIN f))
  BY <1>1, <1>5
<1> DEFINE G == [s \in SUBSET DOMAIN f |-> F[s]]
<1>7. \A s \in SUBSET DOMAIN f : F[s] = Step(F, s)
  <2> SUFFICES ASSUME NEW s \in SUBSET DOMAIN f PROVE F[s] = Step(F, s)
    OBVIOUS
  <2>1. Cardinality(s) <= Cardinality(DOMAIN f)
    BY FS_Subset
  <2> QED
    BY <1>6, <2>1
<1>8. Sums(f, G)
  <2>1. \A s \in SUBSET DOMAIN f : G[s] = Step(G, s)
    BY <1>7
  <2> QED
    BY <2>1 DEF Sums
<1> HIDE DEF G
<1>9. Sums(f, CHOOSE H : Sums(f, H))
  BY <1>8
<1> QED
  BY <1>9, SumIsSum

\* Sums grow with their terms.
LEMMA SumGrows ==
  ASSUME NEW f, NEW g, DOMAIN f = DOMAIN g, IsFiniteSet(DOMAIN f),
         \A x \in DOMAIN f : f[x] \in Int /\ g[x] \in Int /\ f[x] <= g[x]
  PROVE  SumFunction(f) \in Int /\ SumFunction(g) \in Int /\ SumFunction(f) <= SumFunction(g)
<1> DEFINE D == DOMAIN f
<1>1. PICK F : Sums(f, F) /\ SumFunction(f) = F[D]
  BY SumsExist
<1>2. PICK G : Sums(g, G) /\ SumFunction(g) = G[D]
  BY SumsExist
<1> DEFINE B == {s \in SUBSET D : F[s] \in Int /\ G[s] \in Int /\ F[s] <= G[s]}
<1>3. \A s \in SUBSET D : F[s] = IF s = {} THEN 0 ELSE f[Chosen(s)] + F[s \ {Chosen(s)}]
  BY <1>1 DEF Sums
<1>4. \A s \in SUBSET D : G[s] = IF s = {} THEN 0 ELSE g[Chosen(s)] + G[s \ {Chosen(s)}]
  BY <1>2 DEF Sums
<1>5. {} \in B
  <2>1. {} \in SUBSET D
    OBVIOUS
  <2>2. F[{}] = 0 /\ G[{}] = 0
    BY <1>3, <1>4, <2>1
  <2> QED
    BY <2>1, <2>2
<1>6. ASSUME NEW s \in SUBSET D, s # {}, \A x \in s : s \ {x} \in B
      PROVE  s \in B
  <2>1. Chosen(s) \in s
    BY <1>6, AnyIsMember
  <2>2. s \ {Chosen(s)} \in B
    BY <1>6, <2>1
  <2>3. F[s] = f[Chosen(s)] + F[s \ {Chosen(s)}] /\ G[s] = g[Chosen(s)] + G[s \ {Chosen(s)}]
    BY <1>3, <1>4, <1>6
  <2> QED
    BY <2>1, <2>2, <2>3
<1>7. D \in B
  <2> HIDE DEF B
  <2> QED
    BY <1>5, <1>6, SubsetInduction
<1> QED
  BY <1>1, <1>2, <1>7

\* A sum of n terms of at most c is at most n times c.
LEMMA SumIsBounded ==
  ASSUME NEW f, IsFiniteSet(DOMAIN f), NEW c \in Nat, \A x \in DOMAIN f : f[x] \in 0 .. c
  PROVE  SumFunction(f) \in 0 .. (Cardinality(DOMAIN f) * c)
<1> DEFINE D == DOMAIN f
<1>1. PICK F : Sums(f, F) /\ SumFunction(f) = F[D]
  BY SumsExist
<1> DEFINE B == {s \in SUBSET D : F[s] \in 0 .. (Cardinality(s) * c)}
<1>2. \A s \in SUBSET D : F[s] = IF s = {} THEN 0 ELSE f[Chosen(s)] + F[s \ {Chosen(s)}]
  BY <1>1 DEF Sums
<1>3. {} \in B
  <2>1. {} \in SUBSET D
    OBVIOUS
  <2>2. F[{}] = 0
    BY <1>2, <2>1
  <2>3. Cardinality({}) * c = 0
    BY FS_EmptySet
  <2>4. F[{}] \in 0 .. (Cardinality({}) * c)
    BY <2>2, <2>3
  <2> QED
    BY <2>1, <2>4
<1>4. ASSUME NEW s \in SUBSET D, s # {}, \A x \in s : s \ {x} \in B
      PROVE  s \in B
  <2>1. Chosen(s) \in s
    BY <1>4, AnyIsMember
  <2>2. s \ {Chosen(s)} \in B
    BY <1>4, <2>1
  <2>3. F[s] = f[Chosen(s)] + F[s \ {Chosen(s)}]
    BY <1>2, <1>4
  <2> DEFINE n == Cardinality(s)
             m == Cardinality(s \ {Chosen(s)})
  <2>4. n \in Nat /\ m \in Nat /\ m = n - 1
    BY <2>1, FS_Subset, FS_CardinalityType, FS_RemoveElement
  <2>5. F[s \ {Chosen(s)}] \in 0 .. (m * c)
    BY <2>2
  <2> HIDE DEF n, m
  <2>6. n * c = m * c + c /\ m * c \in Nat
    BY <2>4
  <2>7. F[s] \in 0 .. (n * c)
    BY <2>1, <2>3, <2>5, <2>6
  <2> QED
    BY <2>7 DEF n
<1>5. D \in B
  <2> HIDE DEF B
  <2> QED
    BY <1>3, <1>4, SubsetInduction
<1> QED
  BY <1>1, <1>5

\* A sum of naturals is one.
LEMMA SumIsNatural ==
  ASSUME NEW f, IsFiniteSet(DOMAIN f), \A x \in DOMAIN f : f[x] \in Nat
  PROVE  SumFunction(f) \in Nat
<1> DEFINE z == [x \in DOMAIN f |-> 0]
<1>1. DOMAIN z = DOMAIN f /\ \A x \in DOMAIN z : z[x] \in 0 .. 0
  OBVIOUS
<1>2. \A x \in DOMAIN z : z[x] \in Int /\ f[x] \in Int /\ z[x] <= f[x]
  OBVIOUS
<1> HIDE DEF z
<1>3. SumFunction(z) \in Int /\ SumFunction(f) \in Int /\ SumFunction(z) <= SumFunction(f)
  BY <1>1, <1>2, SumGrows
<1>4. SumFunction(z) \in 0 .. (Cardinality(DOMAIN z) * 0)
  BY <1>1, SumIsBounded
<1>5. Cardinality(DOMAIN z) * 0 = 0
  BY <1>1, FS_CardinalityType
<1> QED
  BY <1>3, <1>4, <1>5

-----------------------------------------------------------------------------
(* Concatenations. *)

Flattens(seqs, F) == F = [i \in 1 .. Len(seqs) |-> IF i = 1 THEN seqs[i] ELSE F[i - 1] \o seqs[i]]

\* So is the function by which sequences are joined.
LEMMA FlattensExist ==
  ASSUME NEW seqs, Len(seqs) \in Nat
  PROVE  \E F : Flattens(seqs, F) /\ (Len(seqs) # 0 => FlattenSeq(seqs) = F[Len(seqs)])
<1> DEFINE Step(F, i) == IF i = 1 THEN seqs[i] ELSE F[i - 1] \o seqs[i]
           Good(F, n) == \A i \in 1 .. Len(seqs) : i <= n => F[i] = Step(F, i)
           N == {n \in Nat : \E F : Good(F, n)}
<1>1. ASSUME NEW F, NEW n \in Nat, Good(F, n)
      PROVE  Good([i \in 1 .. Len(seqs) |-> Step(F, i)], n + 1)
  <2> DEFINE G == [i \in 1 .. Len(seqs) |-> Step(F, i)]
  <2> SUFFICES ASSUME NEW i \in 1 .. Len(seqs), i <= n + 1
               PROVE  G[i] = Step(G, i)
    OBVIOUS
  <2>1. CASE i = 1
    BY <2>1
  <2>2. CASE i # 1
    <3>1. i - 1 \in 1 .. Len(seqs) /\ i - 1 <= n
      BY <2>2
    <3>2. F[i - 1] = G[i - 1]
      BY <1>1, <3>1
    <3>3. G[i] = F[i - 1] \o seqs[i]
      BY <2>2
    <3> HIDE DEF G
    <3> QED
      BY <2>2, <3>2, <3>3
  <2> QED
    BY <2>1, <2>2
<1>2. 0 \in N
  <2>1. Good(seqs, 0)
    OBVIOUS
  <2> QED
    BY <2>1
<1>3. ASSUME NEW n \in Nat, n \in N
      PROVE  n + 1 \in N
  <2>1. PICK F : Good(F, n)
    BY <1>3
  <2>2. Good([i \in 1 .. Len(seqs) |-> Step(F, i)], n + 1)
    BY <1>1, <2>1
  <2> HIDE DEF Good
  <2> QED
    BY <2>2
<1>4. Nat \subseteq N
  <2> HIDE DEF N
  <2> QED
    BY <1>2, <1>3, Induction
<1>5. PICK F : Good(F, Len(seqs))
  BY <1>4
<1> DEFINE G == [i \in 1 .. Len(seqs) |-> F[i]]
<1>6. Flattens(seqs, G)
  <2>1. \A i \in 1 .. Len(seqs) : G[i] = Step(G, i)
    BY <1>5
  <2> QED
    BY <2>1 DEF Flattens
<1> HIDE DEF G
<1>7. Flattens(seqs, CHOOSE H : Flattens(seqs, H))
  BY <1>6
<1>8. Len(seqs) # 0 => FlattenSeq(seqs) = (CHOOSE H : Flattens(seqs, H))[Len(seqs)]
  BY DEF FlattenSeq, Flattens
<1> QED
  BY <1>7, <1>8

\* What is in one of two sequences is in their concatenation.
LEMMA ConcatHasBoth ==
  ASSUME NEW A, NEW s \in Seq(A), NEW t \in Seq(A)
  PROVE  s \o t \in Seq(A) /\ \A x : x \in ToSet(s \o t) <=> x \in ToSet(s) \/ x \in ToSet(t)
<1>1. s \o t \in Seq(A) /\ Len(s \o t) = Len(s) + Len(t)
      /\ \A i \in 1 .. Len(s) + Len(t) : (s \o t)[i] = IF i <= Len(s) THEN s[i] ELSE t[i - Len(s)]
  OBVIOUS
<1>2. \A i \in 1 .. Len(t) : (s \o t)[i + Len(s)] = t[i] /\ i + Len(s) \in 1 .. Len(s) + Len(t)
  BY <1>1
<1>3. ASSUME NEW x, x \in ToSet(s \o t)
      PROVE  x \in ToSet(s) \/ x \in ToSet(t)
  <2>1. PICK i \in 1 .. Len(s) + Len(t) : (s \o t)[i] = x
    BY <1>1, <1>3 DEF ToSet
  <2>2. CASE i <= Len(s)
    BY <1>1, <2>1, <2>2 DEF ToSet
  <2>3. CASE ~(i <= Len(s))
    <3>1. i - Len(s) \in DOMAIN t /\ t[i - Len(s)] = x
      BY <1>1, <2>1, <2>3
    <3> QED
      BY <3>1 DEF ToSet
  <2> QED
    BY <2>2, <2>3
<1>4. ASSUME NEW x, x \in ToSet(s)
      PROVE  x \in ToSet(s \o t)
  <2>1. PICK i \in 1 .. Len(s) : s[i] = x
    BY <1>4 DEF ToSet
  <2>2. i \in DOMAIN (s \o t) /\ (s \o t)[i] = x
    BY <1>1, <2>1
  <2> QED
    BY <2>2 DEF ToSet
<1>5. ASSUME NEW x, x \in ToSet(t)
      PROVE  x \in ToSet(s \o t)
  <2>1. PICK i \in 1 .. Len(t) : t[i] = x
    BY <1>5 DEF ToSet
  <2>2. i + Len(s) \in DOMAIN (s \o t) /\ (s \o t)[i + Len(s)] = x
    BY <1>1, <1>2, <2>1
  <2> QED
    BY <2>2 DEF ToSet
<1> QED
  BY <1>1, <1>3, <1>4, <1>5

\* A concatenation has the elements of its parts.
LEMMA FlattenHasAll ==
  ASSUME NEW A, NEW seqs \in Seq(Seq(A))
  PROVE  /\ FlattenSeq(seqs) \in Seq(A)
         /\ \A x : x \in ToSet(FlattenSeq(seqs)) <=> \E i \in DOMAIN seqs : x \in ToSet(seqs[i])
<1>1. PICK F : Flattens(seqs, F) /\ (Len(seqs) # 0 => FlattenSeq(seqs) = F[Len(seqs)])
  BY FlattensExist
<1> DEFINE Has(i) == \A x : x \in ToSet(F[i]) <=> \E j \in 1 .. i : x \in ToSet(seqs[j])
           Good(i) == F[i] \in Seq(A) /\ Has(i)
           N == {n \in Nat : n + 1 \in 1 .. Len(seqs) => Good(n + 1)}
<1>2. \A i \in 1 .. Len(seqs) : F[i] = IF i = 1 THEN seqs[i] ELSE F[i - 1] \o seqs[i]
  BY <1>1 DEF Flattens
<1>3. 0 \in N
  BY <1>2
<1>4. ASSUME NEW n \in Nat, n \in N
      PROVE  n + 1 \in N
  <2>1. ASSUME n + 2 \in 1 .. Len(seqs)
        PROVE  Good(n + 2)
    <3> DEFINE k == n + 1
               m == n + 2
    <3>1. k \in 1 .. Len(seqs) /\ m \in 1 .. Len(seqs) /\ m # 1 /\ m - 1 = k
      BY <2>1
    <3>2. Good(k)
      BY <1>4, <3>1
    <3> HIDE DEF k, m
    <3>3. F[m] = F[k] \o seqs[m]
      BY <1>2, <3>1
    <3>4. seqs[m] \in Seq(A)
      BY <3>1
    <3>5. F[m] \in Seq(A) /\ \A x : x \in ToSet(F[m]) <=> x \in ToSet(F[k]) \/ x \in ToSet(seqs[m])
      BY <3>2, <3>3, <3>4, ConcatHasBoth
    <3>6. ASSUME NEW x
          PROVE  x \in ToSet(F[m]) <=> \E j \in 1 .. m : x \in ToSet(seqs[j])
      <4>1. x \in ToSet(F[m]) <=> (\E j \in 1 .. k : x \in ToSet(seqs[j])) \/ x \in ToSet(seqs[m])
        BY <3>2, <3>5
      <4>2. 1 .. m = (1 .. k) \cup {m}
        BY <3>1
      <4> QED
        BY <4>1, <4>2
    <3>7. Good(m)
      BY <3>5, <3>6
    <3> QED
      BY <3>7 DEF m
  <2>2. (n + 1) + 1 = n + 2
    OBVIOUS
  <2> HIDE DEF Good
  <2>3. (n + 1) + 1 \in 1 .. Len(seqs) => Good((n + 1) + 1)
    BY <2>1, <2>2
  <2> QED
    BY <2>3
<1>5. Nat \subseteq N
  <2> HIDE DEF N
  <2> QED
    BY <1>3, <1>4, Induction
<1>6. CASE Len(seqs) = 0
  BY <1>6 DEF FlattenSeq, ToSet
<1>7. CASE Len(seqs) # 0
  <2> DEFINE n == Len(seqs) - 1
             k == Len(seqs)
  <2>1. n \in Nat /\ n + 1 = k /\ k \in 1 .. Len(seqs) /\ DOMAIN seqs = 1 .. k
    BY <1>7
  <2>2. FlattenSeq(seqs) = F[k]
    BY <1>1, <1>7
  <2> HIDE DEF n, k, Good
  <2>3. n \in N
    BY <1>5, <2>1
  <2>4. Good(n + 1)
    BY <2>1, <2>3
  <2>5. Good(k)
    BY <2>1, <2>4
  <2> QED
    BY <2>1, <2>2, <2>5 DEF Good
<1> QED
  BY <1>6, <1>7

LEMMA FlattenFive ==
  ASSUME NEW s, Len(s) = 5
  PROVE  FlattenSeq(s) = (((s[1] \o s[2]) \o s[3]) \o s[4]) \o s[5]
<1>1. \E F : Flattens(s, F) /\ (Len(s) # 0 => FlattenSeq(s) = F[Len(s)])
  <2>1. Len(s) \in Nat
    OBVIOUS
  <2> QED
    BY <2>1, FlattensExist
<1>2. PICK F : Flattens(s, F) /\ FlattenSeq(s) = F[5]
  BY <1>1
<1>3. \A i \in 1 .. 5 : F[i] = IF i = 1 THEN s[i] ELSE F[i - 1] \o s[i]
  BY <1>2 DEF Flattens
<1>4. F[1] = s[1]
  BY <1>3
<1>5. F[2] = F[1] \o s[2]
  BY <1>3
<1>6. F[3] = F[2] \o s[3]
  BY <1>3
<1>7. F[4] = F[3] \o s[4]
  BY <1>3
<1>8. F[5] = F[4] \o s[5]
  BY <1>3
<1> QED
  BY <1>2, <1>4, <1>5, <1>6, <1>7, <1>8

-----------------------------------------------------------------------------
(* What is known between the steps of a review. *)

Reviewers == Specialists \cup {Risk}

\* An output is an answer that was held to the evidence, with its confidences cut.
Vetted(a, output, known) ==
  \E answer \in Answers[a] : Accepted(a, answer, BuildIndex(known)) /\ output = Capped(answer)

\* A selection is of one subject and what was found for it.
Selected(looked_at) ==
  \E s \in Selections :
    looked_at = [subject |-> s.subject, candidates |-> s.candidates,
                 selected |-> Comps!FilterAndRank(s.subject, s.candidates, Statuses)]

\* Nothing is said before the context is complete; it and the outputs are those of the package.
ReviewInv ==
  /\ stage \in {"research", "selected", "agents", "synthesis", "done"}
  /\ facts \in FieldFacts
  /\ Readable(context)
  /\ selection = None \/ Selected(selection)
  /\ stage \in {"research", "selected"} => outputs = <<>>
  /\ stage \in {"synthesis", "done"} => Reviewers \subseteq DOMAIN outputs
  /\ DOMAIN outputs \subseteq Reviewers
  /\ \A a \in DOMAIN outputs : outputs[a] = None \/ Vetted(a, outputs[a], context)
  /\ package = None \/ (stage = "done" /\ package = Package)

\* The specialists, counted.
LEMMA FourSpecialists ==
  /\ Specialists = {"listing", "public_records", "comparable", "neighborhood"}
  /\ IsFiniteSet(Specialists) /\ Cardinality(Specialists) = 4
  /\ \A n \in 1 .. 4 : AgentOrder[n] \in Specialists
<1>1. DOMAIN AgentOrder = 1 .. 4
  BY DEF AgentOrder
<1>2. /\ AgentOrder[1] = "listing" /\ AgentOrder[2] = "public_records"
      /\ AgentOrder[3] = "comparable" /\ AgentOrder[4] = "neighborhood"
  BY DEF AgentOrder
<1>3. \A n \in 1 .. 4 : n = 1 \/ n = 2 \/ n = 3 \/ n = 4
  OBVIOUS
<1>4. Specialists = {"listing", "public_records", "comparable", "neighborhood"}
  BY <1>1, <1>2, <1>3 DEF Specialists, ToSet
<1>5. IsFiniteSet(Specialists) /\ Cardinality(Specialists) = 4
  <2>1. "listing" \notin {} /\ "public_records" \notin {"listing"}
        /\ "comparable" \notin {"listing", "public_records"}
        /\ "neighborhood" \notin {"listing", "public_records", "comparable"}
    OBVIOUS
  <2>2. IsFiniteSet({"listing"}) /\ Cardinality({"listing"}) = 1
    BY FS_Singleton
  <2>3. IsFiniteSet({"listing"} \cup {"public_records"})
        /\ Cardinality({"listing"} \cup {"public_records"}) = 2
    BY <2>1, <2>2, FS_AddElement
  <2>4. {"listing"} \cup {"public_records"} = {"listing", "public_records"}
    OBVIOUS
  <2>5. IsFiniteSet({"listing", "public_records"} \cup {"comparable"})
        /\ Cardinality({"listing", "public_records"} \cup {"comparable"}) = 3
    BY <2>1, <2>3, <2>4, FS_AddElement
  <2>6. {"listing", "public_records"} \cup {"comparable"} = {"listing", "public_records", "comparable"}
    OBVIOUS
  <2>7. IsFiniteSet({"listing", "public_records", "comparable"} \cup {"neighborhood"})
        /\ Cardinality({"listing", "public_records", "comparable"} \cup {"neighborhood"}) = 4
    BY <2>1, <2>5, <2>6, FS_AddElement
  <2>8. {"listing", "public_records", "comparable"} \cup {"neighborhood"} = Specialists
    BY <1>4
  <2> QED
    BY <2>7, <2>8
<1> QED
  BY <1>2, <1>3, <1>4, <1>5

\* While a specialist is left to be heard, the one that speaks is a specialist.
LEMMA SpeakerIsSpecialist ==
  ASSUME Specialists \ Heard # {}
  PROVE  Speaker \in Specialists
<1> DEFINE S == Heard \cap Specialists
           n == Cardinality(S)
<1>1. IsFiniteSet(S) /\ n \in Nat /\ n <= 4
  BY FourSpecialists, FS_Subset, FS_CardinalityType
<1>2. n # 4
  <2>1. S # Specialists
    OBVIOUS
  <2> QED
    BY <2>1, FourSpecialists, FS_Subset
<1> HIDE DEF n, S
<1>3. n + 1 \in 1 .. 4
  BY <1>1, <1>2
<1> QED
  BY <1>3, FourSpecialists DEF Speaker, n, S

LEMMA ReviewInit == Init => ReviewInv
<1> SUFFICES ASSUME Init PROVE ReviewInv
  OBVIOUS
<1>1. DOMAIN outputs = {}
  BY DEF Init
<1>2. Readable(context)
  BY ContextsAreReadable DEF Init
<1> QED
  BY <1>1, <1>2 DEF Init, ReviewInv

\* One more is heard: the others said what they said.
LEMMA HearingKeeps ==
  ASSUME ReviewInv, NEW a \in Reviewers, Hears(a)
  PROVE  /\ DOMAIN outputs' = DOMAIN outputs \cup {a}
         /\ \A b \in DOMAIN outputs' : outputs'[b] = None \/ Vetted(b, outputs'[b], context)
<1>1. ASSUME NEW o, outputs' = Put(outputs, a, o), o = None \/ Vetted(a, o, context)
      PROVE  /\ DOMAIN outputs' = DOMAIN outputs \cup {a}
             /\ \A b \in DOMAIN outputs' : outputs'[b] = None \/ Vetted(b, outputs'[b], context)
  BY <1>1 DEF ReviewInv, Put
<1>2. CASE outputs' = Put(outputs, a, None)
  BY <1>1, <1>2
<1>3. ASSUME NEW answer \in Answers[a],
             outputs' = Put(outputs, a, IF Accepted(a, answer, BuildIndex(context))
                                        THEN Capped(answer) ELSE None)
      PROVE  /\ DOMAIN outputs' = DOMAIN outputs \cup {a}
             /\ \A b \in DOMAIN outputs' : outputs'[b] = None \/ Vetted(b, outputs'[b], context)
  <2>1. CASE Accepted(a, answer, BuildIndex(context))
    <3>1. Vetted(a, Capped(answer), context)
      BY <2>1 DEF Vetted
    <3> QED
      BY <1>1, <1>3, <2>1, <3>1
  <2>2. CASE ~Accepted(a, answer, BuildIndex(context))
    BY <1>1, <1>3, <2>2
  <2> QED
    BY <2>1, <2>2
<1> QED
  BY <1>2, <1>3 DEF Hears

\* The package is made of what the agents said and what is known of the fields.
LEMMA PackageStays ==
  ASSUME UNCHANGED <<outputs, facts>>
  PROVE  Package' = Package
<1>1. Analysis' = Analysis
  BY DEF Analysis, AllThere
<1>2. AllFindings' = AllFindings
  BY DEF AllFindings
<1>3. RiskWarnings' = RiskWarnings
  BY DEF RiskWarnings, AllThere
<1> DEFINE groups == Analysis.groups
<1>4. Consolidated(groups)' = Consolidated(groups)
  BY <1>1, <1>2 DEF Consolidated
<1>5. \A findings : Cited(findings)' = Cited(findings)
  BY DEF Cited
<1> QED
  BY <1>1, <1>3, <1>4, <1>5 DEF Package, Cited

\* Every step of a review keeps the invariant: only hearing an agent adds an output.
LEMMA ReviewNext == ReviewInv /\ [Next]_vars => ReviewInv'
<1> SUFFICES ASSUME ReviewInv, [Next]_vars PROVE ReviewInv'
  OBVIOUS
<1>1. CASE SelectComparables
  <2>1. PICK s \in Selections : selection' =
          [subject |-> s.subject, candidates |-> s.candidates,
           selected |-> Comps!FilterAndRank(s.subject, s.candidates, Statuses)]
    BY <1>1 DEF SelectComparables
  <2>2. Selected(selection')
    BY <2>1 DEF Selected
  <2>3. outputs = <<>> /\ outputs' = <<>> /\ DOMAIN outputs' = {} /\ package' = None /\ stage' = "selected"
    BY <1>1 DEF SelectComparables, ReviewInv
  <2>4. facts' \in FieldFacts
    BY <1>1 DEF SelectComparables, ReviewInv
  <2>5. Readable(context')
    <3>1. PICK result : context' = [context EXCEPT !.research["sales_comps"] = result]
                        /\ (result = None \/ result = SalesResult)
      BY <1>1 DEF SelectComparables
    <3>2. "sales_comps" \in Domains
      BY DEF Domains
    <3> QED
      BY <3>1, <3>2, ContextsAreReadable DEF Readable, ReviewInv
  <2> QED
    BY <2>2, <2>3, <2>4, <2>5 DEF ReviewInv, Selected
<1>2. CASE HandOver
  <2>1. outputs = <<>> /\ outputs' = <<>> /\ DOMAIN outputs' = {} /\ package' = None /\ stage' = "agents"
    BY <1>2 DEF HandOver, ReviewInv
  <2> QED
    BY <1>2, <2>1 DEF HandOver, ReviewInv, Selected, Readable
<1>3. CASE HearSpecialist
  <2>1. Hears(Speaker) /\ Speaker \in Reviewers
    BY <1>3, SpeakerIsSpecialist DEF HearSpecialist, Reviewers
  <2>2. /\ DOMAIN outputs' \subseteq Reviewers
        /\ \A b \in DOMAIN outputs' : outputs'[b] = None \/ Vetted(b, outputs'[b], context)
    BY <2>1, HearingKeeps DEF ReviewInv
  <2>3. stage = "agents" /\ stage' = "agents" /\ package' = None
        /\ UNCHANGED <<selection, context, facts>>
    BY <1>3 DEF HearSpecialist, ReviewInv
  <2> QED
    BY <2>2, <2>3 DEF ReviewInv, Selected, Readable
<1>4. CASE HearRisk
  <2>1. Hears(Risk) /\ Risk \in Reviewers
    BY <1>4 DEF HearRisk, Reviewers
  <2>2. /\ DOMAIN outputs' = DOMAIN outputs \cup {Risk}
        /\ \A b \in DOMAIN outputs' : outputs'[b] = None \/ Vetted(b, outputs'[b], context)
    BY <2>1, HearingKeeps
  <2>3. stage = "agents" /\ stage' = "synthesis" /\ package' = None
        /\ UNCHANGED <<selection, context, facts>> /\ Specialists \subseteq DOMAIN outputs
    BY <1>4 DEF HearRisk, ReviewInv, Heard
  <2>4. DOMAIN outputs' = Reviewers
    BY <2>2, <2>3 DEF ReviewInv, Reviewers
  <2> QED
    BY <2>2, <2>3, <2>4 DEF ReviewInv, Selected, Readable
<1>5. CASE SkipRisk
  <2>1. stage = "agents" /\ stage' = "synthesis" /\ package' = None
        /\ UNCHANGED <<selection, context, facts>> /\ Specialists \subseteq DOMAIN outputs
    BY <1>5 DEF SkipRisk, ReviewInv, Heard
  <2>2. outputs' = Put(outputs, Risk, None)
    BY <1>5 DEF SkipRisk
  <2>3. DOMAIN outputs' = DOMAIN outputs \cup {Risk}
    BY <2>2 DEF Put
  <2>4. DOMAIN outputs' = Reviewers
    BY <2>1, <2>3 DEF ReviewInv, Reviewers
  <2>5. \A b \in DOMAIN outputs' : outputs'[b] = None \/ Vetted(b, outputs'[b], context)
    BY <2>2, <2>3 DEF ReviewInv, Put
  <2> QED
    BY <2>1, <2>4, <2>5 DEF ReviewInv, Selected, Readable
<1>6. CASE Synthesise
  <2>1. stage = "synthesis" /\ stage' = "done" /\ package' = Package
        /\ UNCHANGED <<selection, context, facts, outputs>>
    BY <1>6 DEF Synthesise
  <2>2. package' = Package'
    BY <2>1, PackageStays
  <2> QED
    BY <2>1, <2>2 DEF ReviewInv, Selected, Readable
<1>7. CASE UNCHANGED vars
  <2>1. Package' = Package
    BY <1>7, PackageStays DEF vars
  <2> QED
    BY <1>7, <2>1 DEF vars, ReviewInv, Selected, Readable
<1> QED
  BY <1>1, <1>2, <1>3, <1>4, <1>5, <1>6, <1>7 DEF Next

LEMMA ReviewIsSound == Spec => []ReviewInv
<1>1. Init => ReviewInv
  BY ReviewInit
<1>2. ReviewInv /\ [Next]_vars => ReviewInv'
  BY ReviewNext
<1> QED
  BY <1>1, <1>2, PTL DEF Spec

-----------------------------------------------------------------------------
(* The findings. *)

LEMMA FlattenFour ==
  ASSUME NEW s, Len(s) = 4
  PROVE  FlattenSeq(s) = ((s[1] \o s[2]) \o s[3]) \o s[4]
<1>1. \E F : Flattens(s, F) /\ (Len(s) # 0 => FlattenSeq(s) = F[Len(s)])
  <2>1. Len(s) \in Nat
    OBVIOUS
  <2> QED
    BY <2>1, FlattensExist
<1>2. PICK F : Flattens(s, F) /\ FlattenSeq(s) = F[4]
  BY <1>1
<1>3. \A i \in 1 .. 4 : F[i] = IF i = 1 THEN s[i] ELSE F[i - 1] \o s[i]
  BY <1>2 DEF Flattens
<1>4. F[1] = s[1]
  BY <1>3
<1>5. F[2] = F[1] \o s[2]
  BY <1>3
<1>6. F[3] = F[2] \o s[3]
  BY <1>3
<1>7. F[4] = F[3] \o s[4]
  BY <1>3
<1> QED
  BY <1>2, <1>4, <1>5, <1>6, <1>7

\* The elements of s, each in a record that m has at the same place.
Wraps(m, s) == Len(m) = Len(s) /\ \A k \in 1 .. Len(s) : m[k].finding = s[k]

\* Concatenating keeps elements and their records in step.
LEMMA WrapsConcat ==
  ASSUME NEW A, NEW s \in Seq(A), NEW t \in Seq(A), NEW W, NEW m \in Seq(W), NEW n \in Seq(W),
         Wraps(m, s), Wraps(n, t)
  PROVE  m \o n \in Seq(W) /\ s \o t \in Seq(A) /\ Wraps(m \o n, s \o t)
<1>1. Len(s \o t) = Len(s) + Len(t) /\ Len(m \o n) = Len(m) + Len(n)
  OBVIOUS
<1>2. \A k \in 1 .. Len(s) + Len(t) : (s \o t)[k] = IF k <= Len(s) THEN s[k] ELSE t[k - Len(s)]
  OBVIOUS
<1>3. \A k \in 1 .. Len(m) + Len(n) : (m \o n)[k] = IF k <= Len(m) THEN m[k] ELSE n[k - Len(m)]
  OBVIOUS
<1>4. ASSUME NEW k \in 1 .. Len(s) + Len(t)
      PROVE  (m \o n)[k].finding = (s \o t)[k]
  <2>1. CASE k <= Len(s)
    BY <1>2, <1>3, <2>1 DEF Wraps
  <2>2. CASE ~(k <= Len(s))
    <3>1. k - Len(s) \in 1 .. Len(t)
      BY <2>2
    <3> QED
      BY <1>2, <1>3, <2>2, <3>1 DEF Wraps
  <2> QED
    BY <2>1, <2>2
<1> QED
  BY <1>1, <1>4 DEF Wraps

\* What the caps leave of an answer: its lists, as long as they were, and a confidence.
LEMMA VettedOutputs ==
  ASSUME NEW a \in Reviewers, NEW o, NEW known, Vetted(a, o, known)
  PROVE  /\ o.findings \in Seq(ToSet(o.findings))
         /\ o.confidence \in 0 .. 100
         /\ o.conflicts \in Seq(ToSet(o.conflicts))
         /\ \A k \in DOMAIN o.conflicts : o.conflicts[k].materiality \in DOMAIN Penalty
<1>1. PICK answer \in Answers[a] : o = Capped(answer)
  BY DEF Vetted
<1>2. /\ \A part \in {"findings", "conflicts", "risks", "questions"} :
          part \in DOMAIN answer /\ answer[part] \in Seq(ToSet(answer[part]))
      /\ "confidence" \in DOMAIN answer /\ answer.confidence \in 0 .. 100
      /\ \A c \in ToSet(answer.conflicts) : c.materiality \in DOMAIN Penalty
  BY AnswersAreOutputs DEF Reviewers
<1>3. answer.findings \in Seq(ToSet(answer.findings)) /\ "findings" \in DOMAIN answer
  BY <1>2
<1> DEFINE limit == bounded_confidence_limit(answer)
<1>4. limit \in 60 .. 95
  BY DEF bounded_confidence_limit
<1>5. DOMAIN o.findings = DOMAIN answer.findings
  BY <1>1, <1>3 DEF Capped
<1>6. o.confidence = AtMost(limit, answer.confidence)
  BY <1>1, <1>2 DEF Capped
<1> HIDE DEF limit
<1>7. o.confidence \in 0 .. 100
  BY <1>2, <1>4, <1>6 DEF AtMost
<1>8. DOMAIN o.findings = 1 .. Len(answer.findings) /\ Len(answer.findings) \in Nat
  BY <1>3, <1>5
<1>9. o.findings = [i \in 1 .. Len(answer.findings) |-> o.findings[i]]
  BY <1>1, <1>3, <1>8 DEF Capped
<1>10. o.findings \in Seq(ToSet(o.findings))
  BY <1>8, <1>9 DEF ToSet
<1>11. "conflicts" \in DOMAIN answer /\ answer.conflicts \in Seq(ToSet(answer.conflicts))
  BY <1>2
<1>12. o.conflicts = answer.conflicts
  BY <1>1, <1>11 DEF Capped
<1>13. \A k \in DOMAIN o.conflicts : o.conflicts[k].materiality \in DOMAIN Penalty
  BY <1>2, <1>12 DEF ToSet
<1> QED
  BY <1>7, <1>10, <1>11, <1>12, <1>13

FindingsBy(a) == IF outputs[a] = None THEN <<>> ELSE outputs[a].findings

\* All that anyone found.
Found == UNION {ToSet(FindingsBy(a)) : a \in Reviewers}

BySpecialists ==
  ((FindingsBy("listing") \o FindingsBy("public_records")) \o FindingsBy("comparable"))
    \o FindingsBy("neighborhood")

\* What an agent found is a sequence of what anyone found.
LEMMA FindingsAreTyped ==
  ASSUME ReviewInv, stage = "done"
  PROVE  \A a \in Reviewers : FindingsBy(a) \in Seq(Found)
<1> SUFFICES ASSUME NEW a \in Reviewers PROVE FindingsBy(a) \in Seq(Found)
  OBVIOUS
<1>1. CASE outputs[a] = None
  BY <1>1 DEF FindingsBy
<1>2. CASE outputs[a] # None
  <2>1. a \in DOMAIN outputs /\ Vetted(a, outputs[a], context)
    BY <1>2 DEF ReviewInv
  <2>2. FindingsBy(a) \in Seq(ToSet(FindingsBy(a)))
    BY <1>2, <2>1, VettedOutputs DEF FindingsBy
  <2>3. ToSet(FindingsBy(a)) \subseteq Found
    BY DEF Found
  <2> HIDE DEF FindingsBy
  <2> QED
    BY <2>2, <2>3
<1> QED
  BY <1>1, <1>2

LEMMA ReadingOrder ==
  /\ DOMAIN ReadOrder = 1 .. 5 /\ Len(ReadOrder) = 5
  /\ ReadOrder[1] = "listing" /\ ReadOrder[2] = "public_records" /\ ReadOrder[3] = "comparable"
  /\ ReadOrder[4] = "neighborhood" /\ ReadOrder[5] = Risk
BY DEF ReadOrder, AgentOrder, Risk

\* The findings are those of the specialists, then those of the risk agent.
LEMMA AllAreRead == AllFindings = BySpecialists \o FindingsBy(Risk)
<1> DEFINE seqs == [i \in DOMAIN ReadOrder |-> FindingsBy(ReadOrder[i])]
<1>1. AllFindings = FlattenSeq(seqs)
  BY DEF AllFindings, FindingsBy
<1>2. seqs = [i \in 1 .. 5 |-> FindingsBy(ReadOrder[i])]
  BY ReadingOrder
<1>3. Len(seqs) = 5
  BY <1>2
<1>4. /\ seqs[1] = FindingsBy("listing") /\ seqs[2] = FindingsBy("public_records")
      /\ seqs[3] = FindingsBy("comparable") /\ seqs[4] = FindingsBy("neighborhood")
      /\ seqs[5] = FindingsBy(Risk)
  BY <1>2, ReadingOrder
<1> HIDE DEF seqs
<1> QED
  BY <1>1, <1>3, <1>4, FlattenFive DEF BySpecialists

\* The findings that are searched for duplicates are those of the specialists.
LEMMA SpecialistsAreSearched ==
  ASSUME ReviewInv, stage = "done", AllThere
  PROVE  /\ BySpecialists \in Seq(Found)
         /\ DOMAIN FindingsOf(outputs) = DOMAIN BySpecialists
         /\ \A k \in DOMAIN BySpecialists : FindingsOf(outputs)[k].finding = BySpecialists[k]
<1> DEFINE W == [agent : Specialists, finding : Found]
           Told(a) == [k \in DOMAIN outputs[a].findings |-> [agent |-> a, finding |-> outputs[a].findings[k]]]
           seqs == [i \in DOMAIN AgentOrder |->
                      LET findings == outputs[AgentOrder[i]].findings
                      IN  [k \in DOMAIN findings |-> [agent |-> AgentOrder[i], finding |-> findings[k]]]]
<1>1. FindingsOf(outputs) = FlattenSeq(seqs)
  BY DEF FindingsOf
<1>2. DOMAIN AgentOrder = 1 .. 4 /\ AgentOrder[1] = "listing" /\ AgentOrder[2] = "public_records"
      /\ AgentOrder[3] = "comparable" /\ AgentOrder[4] = "neighborhood"
  BY DEF AgentOrder
<1>3. seqs[1] = Told("listing") /\ seqs[2] = Told("public_records") /\ seqs[3] = Told("comparable")
      /\ seqs[4] = Told("neighborhood")
  BY <1>2
<1>4. seqs = [i \in 1 .. 4 |-> seqs[i]]
  BY <1>2
<1>5. Len(seqs) = 4
  BY <1>4
<1> HIDE DEF seqs
<1>6. FindingsOf(outputs) =
        ((Told("listing") \o Told("public_records")) \o Told("comparable")) \o Told("neighborhood")
  BY <1>1, <1>3, <1>5, FlattenFour
<1>7. \A a \in Specialists : /\ FindingsBy(a) \in Seq(Found)
                             /\ Told(a) \in Seq(W) /\ Wraps(Told(a), FindingsBy(a))
  <2> SUFFICES ASSUME NEW a \in Specialists
               PROVE  /\ FindingsBy(a) \in Seq(Found)
                      /\ Told(a) \in Seq(W) /\ Wraps(Told(a), FindingsBy(a))
    OBVIOUS
  <2>1. FindingsBy(a) = outputs[a].findings
    BY DEF FindingsBy, AllThere
  <2>2. FindingsBy(a) \in Seq(Found)
    BY FindingsAreTyped DEF Reviewers
  <2> DEFINE s == FindingsBy(a)
  <2>3. Told(a) = [k \in 1 .. Len(s) |-> [agent |-> a, finding |-> s[k]]] /\ Len(s) \in Nat
    BY <2>1, <2>2
  <2>4. \A k \in 1 .. Len(s) : s[k] \in Found
    BY <2>2
  <2> HIDE DEF s, Told
  <2>5. Told(a) \in Seq(W)
    BY <2>3, <2>4
  <2>6. Wraps(Told(a), s)
    BY <2>3 DEF Wraps
  <2> QED
    BY <2>2, <2>5, <2>6 DEF s
<1> HIDE DEF Told, W
<1>8. {"listing", "public_records", "comparable", "neighborhood"} \subseteq Specialists
  BY FourSpecialists
<1> DEFINE s2 == FindingsBy("listing") \o FindingsBy("public_records")
           m2 == Told("listing") \o Told("public_records")
           s3 == s2 \o FindingsBy("comparable")
           m3 == m2 \o Told("comparable")
<1>9. m2 \in Seq(W) /\ s2 \in Seq(Found) /\ Wraps(m2, s2)
  BY <1>7, <1>8, WrapsConcat
<1> HIDE DEF s2, m2
<1>10. m3 \in Seq(W) /\ s3 \in Seq(Found) /\ Wraps(m3, s3)
  BY <1>7, <1>8, <1>9, WrapsConcat
<1> HIDE DEF s3, m3
<1> DEFINE s4 == s3 \o FindingsBy("neighborhood")
           m4 == m3 \o Told("neighborhood")
<1>11. m4 \in Seq(W) /\ s4 \in Seq(Found) /\ Wraps(m4, s4)
  BY <1>7, <1>8, <1>10, WrapsConcat
<1> HIDE DEF s4, m4
<1>12. m4 = FindingsOf(outputs) /\ s4 = BySpecialists
  BY <1>6 DEF m4, m3, m2, s4, s3, s2, BySpecialists
<1>13. DOMAIN m4 = 1 .. Len(s4) /\ DOMAIN s4 = 1 .. Len(s4)
  BY <1>11 DEF Wraps
<1> QED
  BY <1>11, <1>12, <1>13 DEF Wraps

\* Where ids are distinct, a finding is left out only as a duplicate.
LEMMA OnlyDuplicatesGo ==
  ASSUME ReviewInv, stage = "done", IdsAreDistinct, NEW groups
  PROVE  LET duplicates == UNION {g.duplicates : g \in groups}
         IN  Consolidated(groups) =
               {AllFindings[i] : i \in {k \in DOMAIN AllFindings : AllFindings[k].id \notin duplicates}}
<1>1. BySpecialists \in Seq(Found) /\ FindingsBy(Risk) \in Seq(Found)
  <2>1. FindingsBy("listing") \in Seq(Found) /\ FindingsBy("public_records") \in Seq(Found)
        /\ FindingsBy("comparable") \in Seq(Found) /\ FindingsBy("neighborhood") \in Seq(Found)
        /\ FindingsBy(Risk) \in Seq(Found)
    BY FindingsAreTyped, FourSpecialists DEF Reviewers
  <2> QED
    BY <2>1 DEF BySpecialists
<1>2. AllFindings \in Seq(Found)
  BY <1>1, AllAreRead
<1>3. DOMAIN AllFindings = 1 .. Len(AllFindings) /\ Len(AllFindings) \in Nat
  BY <1>2
<1>4. \A i \in DOMAIN AllFindings : \A k \in 1 .. i - 1 : k \in DOMAIN AllFindings /\ k # i
  BY <1>3
<1>5. \A i \in DOMAIN AllFindings : \A k \in 1 .. i - 1 : AllFindings[k].id # AllFindings[i].id
  BY <1>4 DEF IdsAreDistinct
<1> QED
  BY <1>5 DEF Consolidated

\* Two members make two.
LEMMA TwoAreTwo ==
  ASSUME NEW S, IsFiniteSet(S), NEW x \in S, NEW y \in S, x # y
  PROVE  Cardinality(S) >= 2
<1>1. IsFiniteSet({x}) /\ Cardinality({x}) = 1
  BY FS_Singleton
<1>2. IsFiniteSet({x} \cup {y}) /\ Cardinality({x} \cup {y}) = 2
  <2>1. y \notin {x}
    OBVIOUS
  <2>2. Cardinality({x} \cup {y}) = Cardinality({x}) + 1
    BY <1>1, <2>1, FS_AddElement
  <2> QED
    BY <1>1, <2>2, FS_AddElement
<1>3. {x} \cup {y} \subseteq S
  OBVIOUS
<1>4. Cardinality({x} \cup {y}) <= Cardinality(S) /\ Cardinality(S) \in Nat
  BY <1>3, FS_Subset, FS_CardinalityType
<1> QED
  BY <1>2, <1>4

\* The specialists' findings that say the same as the i-th of them.
AlikeTo(i) == {k \in DOMAIN BySpecialists : BySpecialists[k].text = BySpecialists[i].text}

\* Of those that say the same, all but the first are duplicates, and nothing else is.
LEMMA DuplicatesAreLater ==
  ASSUME ReviewInv, stage = "done", AllThere
  PROVE  UNION {g.duplicates : g \in DuplicateGroups(outputs)} =
           {BySpecialists[k].id : k \in {j \in DOMAIN BySpecialists : \E i \in AlikeTo(j) : i < j}}
<1> DEFINE all == FindingsOf(outputs)
           said == BySpecialists
           Alike(i) == {k \in DOMAIN all : all[k].finding.text = all[i].finding.text}
           firsts == {i \in DOMAIN all : Cardinality(Alike(i)) >= 2 /\ \A k \in Alike(i) : i <= k}
           later == {j \in DOMAIN said : \E i \in AlikeTo(j) : i < j}
<1>1. /\ said \in Seq(Found) /\ DOMAIN all = DOMAIN said
      /\ \A k \in DOMAIN said : all[k].finding = said[k]
  BY SpecialistsAreSearched
<1>2. DOMAIN said = 1 .. Len(said) /\ Len(said) \in Nat
  BY <1>1
<1>3. \A i \in DOMAIN said : Alike(i) = AlikeTo(i) /\ i \in AlikeTo(i)
  BY <1>1 DEF AlikeTo
<1>4. \A i \in DOMAIN said : IsFiniteSet(AlikeTo(i)) /\ AlikeTo(i) \subseteq DOMAIN said
  <2>1. IsFiniteSet(1 .. Len(said))
    BY <1>2, FS_Interval
  <2>2. IsFiniteSet(DOMAIN said)
    BY <1>2, <2>1
  <2>3. \A i \in DOMAIN said : AlikeTo(i) \subseteq DOMAIN said
    BY DEF AlikeTo
  <2> QED
    BY <2>2, <2>3, FS_Subset
<1>5. UNION {g.duplicates : g \in DuplicateGroups(outputs)} =
        UNION {{all[k].finding.id : k \in Alike(i) \ {i}} : i \in firsts}
  <2> DEFINE Ids(i) == {all[k].finding.id : k \in Alike(i) \ {i}}
             Group(i) == [canonical |-> all[i].finding.id, duplicates |-> Ids(i),
                          agents |-> [k \in Alike(i) |-> all[k].agent]]
  <2>1. DuplicateGroups(outputs) = {Group(i) : i \in firsts}
    BY DEF DuplicateGroups
  <2>2. \A i : Group(i).duplicates = Ids(i)
    OBVIOUS
  <2> HIDE DEF Group, firsts, Ids
  <2>3. {g.duplicates : g \in DuplicateGroups(outputs)} = {Ids(i) : i \in firsts}
    BY <2>1, <2>2
  <2> QED
    BY <2>3 DEF Ids
<1>6. UNION {{all[k].finding.id : k \in Alike(i) \ {i}} : i \in firsts}
        = {said[k].id : k \in later}
  <2>1. ASSUME NEW i \in firsts, NEW k \in Alike(i) \ {i}
        PROVE  k \in later /\ all[k].finding.id = said[k].id
    <3>1. i \in DOMAIN said /\ k \in AlikeTo(i) /\ i <= k /\ k # i /\ k \in DOMAIN said
      BY <1>1, <1>3
    <3>2. i \in AlikeTo(k) /\ i < k
      BY <1>2, <3>1 DEF AlikeTo
    <3> QED
      BY <1>1, <3>1, <3>2
  <2>2. ASSUME NEW k \in later
        PROVE  \E i \in firsts : k \in Alike(i) \ {i} /\ all[k].finding.id = said[k].id
    <3>1. PICK j \in AlikeTo(k) : j < k
      OBVIOUS
    <3>2. AlikeTo(k) \subseteq Nat /\ AlikeTo(k) # {}
      BY <1>2, <3>1 DEF AlikeTo
    <3>3. PICK i \in AlikeTo(k) : \A n \in AlikeTo(k) : i <= n
      BY <3>2, LeastNumber
    <3>4. i \in DOMAIN said /\ AlikeTo(i) = AlikeTo(k) /\ k \in AlikeTo(i) /\ k \in DOMAIN said
      BY <3>3 DEF AlikeTo
    <3>5. i # k
      BY <1>2, <3>1, <3>3, <3>4 DEF AlikeTo
    <3>6. Cardinality(AlikeTo(i)) >= 2
      BY <1>3, <1>4, <3>4, <3>5, TwoAreTwo
    <3>7. i \in firsts
      BY <1>1, <1>3, <3>3, <3>4, <3>6
    <3> QED
      BY <1>1, <1>3, <3>4, <3>5, <3>7
  <2> HIDE DEF firsts, later, Alike, all, said
  <2> QED
    BY <2>1, <2>2
<1> QED
  BY <1>5, <1>6

\* A finding that is left out is a later duplicate of one that stays.
LEMMA NothingIsLost ==
  ASSUME ReviewInv, package # None, IdsAreDistinct
  PROVE  /\ \A i \in DOMAIN AllFindings : \E f \in package.findings : f.text = AllFindings[i].text
         /\ AllThere =>
              \A f, g \in package.findings :
                f.text = g.text /\ f # g => \E r \in ToSet(outputs[Risk].findings) : r \in {f, g}
<1>1. stage = "done" /\ package = Package
  BY DEF ReviewInv
<1> DEFINE all == AllFindings
           duplicates == UNION {g.duplicates : g \in Analysis.groups}
           kept == {k \in DOMAIN all : all[k].id \notin duplicates}
<1>2. package.findings = {all[i] : i \in kept}
  <2>1. package.findings = Consolidated(Analysis.groups)
    BY <1>1 DEF Package
  <2> QED
    BY <1>1, <2>1, OnlyDuplicatesGo
<1>3. CASE ~AllThere
  <2>1. duplicates = {}
    BY <1>3 DEF Analysis
  <2>2. kept = DOMAIN all
    BY <2>1
  <2> QED
    BY <1>2, <1>3, <2>2
<1>4. CASE AllThere
  <2> DEFINE said == BySpecialists
             last == FindingsBy(Risk)
             later == {j \in DOMAIN said : \E i \in AlikeTo(j) : i < j}
  <2>1. duplicates = {said[k].id : k \in later}
    <3>1. Analysis.groups = DuplicateGroups(outputs)
      BY <1>4 DEF Analysis, AnalyzeConflicts
    <3> QED
      BY <1>1, <1>4, <3>1, DuplicatesAreLater
  <2>2. said \in Seq(Found) /\ last \in Seq(Found)
    BY <1>1, <1>4, SpecialistsAreSearched, FindingsAreTyped DEF Reviewers
  <2>3. all = said \o last
    BY AllAreRead
  <2> HIDE DEF all, said, last
  <2>4. /\ DOMAIN said = 1 .. Len(said) /\ DOMAIN all = 1 .. Len(said) + Len(last)
        /\ Len(said) \in Nat /\ Len(last) \in Nat /\ DOMAIN last = 1 .. Len(last)
        /\ \A k \in DOMAIN said : k \in DOMAIN all /\ all[k] = said[k]
        /\ \A k \in DOMAIN all \ DOMAIN said : k - Len(said) \in DOMAIN last /\ all[k] = last[k - Len(said)]
    BY <2>2, <2>3
  <2>5. kept = DOMAIN all \ later
    <3>1. \A i, k \in DOMAIN all : i # k => all[i].id # all[k].id
      BY DEF IdsAreDistinct, all
    <3>2. later \subseteq DOMAIN said /\ \A k \in later : k \in DOMAIN all /\ all[k] = said[k]
      BY <2>4
    <3>3. kept = {k \in DOMAIN all : all[k].id \notin {said[j].id : j \in later}}
      BY <2>1
    <3> HIDE DEF later, kept, duplicates
    <3>4. \A i \in DOMAIN all : all[i].id \in {said[j].id : j \in later} <=> i \in later
      BY <3>1, <3>2
    <3> QED
      BY <3>3, <3>4
  <2>6. ASSUME NEW i \in DOMAIN all
        PROVE  \E f \in package.findings : f.text = all[i].text
    <3>1. CASE i \notin DOMAIN said
      BY <1>2, <2>5, <3>1
    <3>2. CASE i \in DOMAIN said
      <4>1. AlikeTo(i) \subseteq Nat /\ i \in AlikeTo(i)
        BY <2>4, <3>2 DEF AlikeTo, said
      <4>2. PICK m \in AlikeTo(i) : \A n \in AlikeTo(i) : m <= n
        BY <4>1, LeastNumber
      <4>3. m \in DOMAIN said /\ AlikeTo(m) = AlikeTo(i) /\ said[m].text = said[i].text
        BY <4>2 DEF AlikeTo, said
      <4>4. m \notin later
        BY <2>4, <4>1, <4>2, <4>3
      <4>5. m \in kept /\ all[m].text = all[i].text
        BY <2>4, <2>5, <3>2, <4>3, <4>4
      <4> QED
        BY <1>2, <4>5
    <3> QED
      BY <3>1, <3>2
  <2>7. ASSUME NEW i \in kept, NEW k \in kept, all[i].text = all[k].text, all[i] # all[k]
        PROVE  i \notin DOMAIN said \/ k \notin DOMAIN said
    <3> SUFFICES ASSUME i \in DOMAIN said, k \in DOMAIN said PROVE FALSE
      OBVIOUS
    <3>1. i \in AlikeTo(k) /\ k \in AlikeTo(i)
      BY <2>4, <2>7 DEF AlikeTo, said
    <3>2. i < k \/ k < i
      BY <2>4, <2>7
    <3> QED
      BY <2>5, <3>1, <3>2
  <2>8. ASSUME NEW k \in DOMAIN all \ DOMAIN said
        PROVE  all[k] \in ToSet(outputs[Risk].findings)
    <3>1. k - Len(said) \in DOMAIN last /\ all[k] = last[k - Len(said)]
      BY <2>4
    <3>2. last = outputs[Risk].findings
      <4>1. CASE outputs[Risk] = None
        <5>1. last = <<>>
          BY <4>1 DEF last, FindingsBy
        <5> QED
          BY <3>1, <5>1
      <4>2. CASE outputs[Risk] # None
        BY <4>2 DEF last, FindingsBy
      <4> QED
        BY <4>1, <4>2
    <3> QED
      BY <3>1, <3>2 DEF ToSet
  <2> HIDE DEF kept
  <2>9. \A f, g \in package.findings :
           f.text = g.text /\ f # g => \E r \in ToSet(outputs[Risk].findings) : r \in {f, g}
    <3> SUFFICES ASSUME NEW f \in package.findings, NEW g \in package.findings, f.text = g.text, f # g
                 PROVE  \E r \in ToSet(outputs[Risk].findings) : r \in {f, g}
      OBVIOUS
    <3>1. PICK i \in kept : f = all[i]
      BY <1>2
    <3>2. PICK k \in kept : g = all[k]
      BY <1>2
    <3>3. i \in DOMAIN all /\ k \in DOMAIN all
      BY DEF kept
    <3> QED
      BY <2>7, <2>8, <3>1, <3>2, <3>3
  <2> QED
    BY <2>6, <2>9 DEF all
<1> QED
  BY <1>3, <1>4

\* What an accepted answer found is never lost in the package, and what several specialists
\* found is there once, whatever the agents answer under ids of their own.
\* (_detect_duplicate_findings, _consolidate_findings)
THEOREM FindingsStay == Spec => []FindingsAreKept
<1>1. ReviewInv => FindingsAreKept
  BY NothingIsLost DEF FindingsAreKept
<1> QED
  BY <1>1, ReviewIsSound, PTL

-----------------------------------------------------------------------------
(* Disagreements. *)

LEMMA OneOrNone ==
  ASSUME NEW known, NEW y, NEW A, y \in A, NEW s, s = IF known = None THEN <<>> ELSE <<y>>
  PROVE  s \in Seq(A) /\ \A x : x \in ToSet(s) <=> known # None /\ x = y
<1>1. CASE known = None
  <2>1. s = <<>> /\ DOMAIN s = {}
    BY <1>1
  <2> QED
    BY <1>1, <2>1 DEF ToSet
<1>2. CASE known # None
  <2>1. s = <<y>> /\ DOMAIN s = {1} /\ s[1] = y
    BY <1>2
  <2>2. ToSet(s) = {y}
    BY <2>1 DEF ToSet
  <2> QED
    BY <1>2, <2>1, <2>2
<1> QED
  BY <1>1, <1>2

\* The candidates for a field are those of the places where something is known of it.
LEMMA CandidatesOfField ==
  ASSUME NEW fact, NEW x
  PROVE  x \in ToSet(FieldCandidates(fact)) <=>
           \/ fact.verified # None /\ x = VerifiedCandidate(fact.verified)
           \/ fact.listing # None /\ x = ListingCandidate(fact.listing)
           \/ fact.public # None /\ x = PublicCandidate(fact.public)
<1> DEFINE v == VerifiedCandidate(fact.verified)
           l == ListingCandidate(fact.listing)
           p == PublicCandidate(fact.public)
           sv == IF fact.verified = None THEN <<>> ELSE <<v>>
           sl == IF fact.listing = None THEN <<>> ELSE <<l>>
           sp == IF fact.public = None THEN <<>> ELSE <<p>>
           C == {v, l, p}
<1>1. FieldCandidates(fact) = (sv \o sl) \o sp
  BY DEF FieldCandidates, If
<1> HIDE DEF v, l, p
<1>2. v \in C /\ l \in C /\ p \in C
  OBVIOUS
<1> HIDE DEF C
<1>3. sv \in Seq(C) /\ sl \in Seq(C) /\ sp \in Seq(C)
  BY <1>2, OneOrNone
<1>4. /\ x \in ToSet(sv) <=> fact.verified # None /\ x = v
      /\ x \in ToSet(sl) <=> fact.listing # None /\ x = l
      /\ x \in ToSet(sp) <=> fact.public # None /\ x = p
  BY <1>2, OneOrNone
<1> HIDE DEF sv, sl, sp
<1>5. sv \o sl \in Seq(C) /\ (x \in ToSet(sv \o sl) <=> x \in ToSet(sv) \/ x \in ToSet(sl))
  BY <1>3, ConcatHasBoth
<1>6. x \in ToSet((sv \o sl) \o sp) <=> x \in ToSet(sv \o sl) \/ x \in ToSet(sp)
  BY <1>3, <1>5, ConcatHasBoth
<1> QED
  BY <1>1, <1>4, <1>5, <1>6 DEF v, l, p

\* A candidate that precedes all others and is preceded by none is preferred.
LEMMA FirstIsPreferred ==
  ASSUME NEW candidates, NEW x \in ToSet(candidates), ~Precedes(x, x),
         \A y \in ToSet(candidates) : y # x => Precedes(x, y) /\ ~Precedes(y, x)
  PROVE  PreferredValue(candidates) = x.value
<1> DEFINE top == {c \in ToSet(candidates) : ~\E d \in ToSet(candidates) : Precedes(d, c)}
<1>1. top = {x}
  OBVIOUS
<1>2. {c.value : c \in top} = {x.value}
  BY <1>1
<1>3. Cardinality({x.value}) = 1
  BY FS_Singleton
<1>4. (CHOOSE v \in {x.value} : TRUE) = x.value
  OBVIOUS
<1> HIDE DEF top
<1> QED
  BY <1>2, <1>3, <1>4 DEF PreferredValue, top

SettledByUser(fact) == fact.verified # None /\ fact.verified.status \in {"verified", "corrected"}

\* What precedence makes of a field: what the user confirmed, or else what the government says.
LEMMA PreferredOfField ==
  ASSUME NEW known \in FieldFacts, NEW n \in DOMAIN FieldSpecs
  PROVE  LET fact == known[FieldSpecs[n].field]
         IN  /\ SettledByUser(fact) => PreferredValue(FieldCandidates(fact)) = fact.verified.value
             /\ ~SettledByUser(fact) /\ fact.public # None /\ fact.public.government =>
                  PreferredValue(FieldCandidates(fact)) = fact.public.value
<1> DEFINE fact == known[FieldSpecs[n].field]
           cs == FieldCandidates(fact)
           v == VerifiedCandidate(fact.verified)
           l == ListingCandidate(fact.listing)
           p == PublicCandidate(fact.public)
<1>1. /\ fact.verified # None => fact.verified.confidence \in (0 .. 100) \cup {None}
      /\ fact.public # None => fact.public.confidence \in 0 .. 100 /\ fact.public.government \in BOOLEAN
  BY FactsAreFacts
<1>2. \A x : x \in ToSet(cs) <=>
        \/ fact.verified # None /\ x = v
        \/ fact.listing # None /\ x = l
        \/ fact.public # None /\ x = p
  BY CandidatesOfField
<1>3. ASSUME fact.verified # None
      PROVE  v.confidence \in 0 .. 100 /\ v.value = fact.verified.value
             /\ IF SettledByUser(fact) THEN Tier(v) = 0 ELSE Tier(v) = 3
  <2>1. VerifiedConfidence(fact.verified) \in 0 .. 100
    BY <1>1, <1>3 DEF VerifiedConfidence
  <2> QED
    BY <1>3, <2>1 DEF VerifiedCandidate, Candidate, Tier, SettledByUser
<1>4. Tier(l) = 2
  BY DEF ListingCandidate, Candidate, Tier
<1>5. ASSUME fact.public # None
      PROVE  p.confidence \in 0 .. 100 /\ p.value = fact.public.value
             /\ IF fact.public.government THEN Tier(p) = 1 ELSE Tier(p) = 3
  BY <1>1, <1>5 DEF PublicCandidate, Candidate, Tier
<1> HIDE DEF v, l, p, cs, fact
<1>6. CASE SettledByUser(fact)
  <2>1. fact.verified # None /\ v \in ToSet(cs)
    BY <1>2, <1>6 DEF SettledByUser
  <2>2. ~Precedes(v, v)
    BY <1>3, <2>1 DEF Precedes
  <2>3. \A y \in ToSet(cs) : y # v => Tier(y) \in 1 .. 3
    BY <1>2, <1>4, <1>5
  <2>4. \A y \in ToSet(cs) : y # v => Precedes(v, y) /\ ~Precedes(y, v)
    BY <1>3, <1>6, <2>1, <2>3 DEF Precedes
  <2>5. PreferredValue(cs) = v.value
    BY <2>1, <2>2, <2>4, FirstIsPreferred
  <2> QED
    BY <1>3, <1>6, <2>1, <2>5 DEF cs, fact
<1>7. CASE ~SettledByUser(fact) /\ fact.public # None /\ fact.public.government
  <2>1. p \in ToSet(cs)
    BY <1>2, <1>7
  <2>2. ~Precedes(p, p)
    BY <1>5, <1>7 DEF Precedes
  <2>3. \A y \in ToSet(cs) : y # p => Tier(y) \in 2 .. 3
    BY <1>2, <1>3, <1>4, <1>7
  <2>4. \A y \in ToSet(cs) : y # p => Precedes(p, y) /\ ~Precedes(y, p)
    BY <1>5, <1>7, <2>3 DEF Precedes
  <2>5. PreferredValue(cs) = p.value
    BY <2>1, <2>2, <2>4, FirstIsPreferred
  <2> QED
    BY <1>5, <1>7, <2>5 DEF cs, fact
<1> QED
  BY <1>6, <1>7 DEF fact

\* A conflict is settled for the value that is preferred, or is up for review.
LEMMA ConflictShape ==
  ASSUME NEW topic, NEW candidates, NEW materiality, NEW semantic \in BOOLEAN,
         NEW found, found = Conflict(topic, candidates, materiality, semantic)
  PROVE  /\ found \in Seq(ToSet(found))
         /\ \A c \in ToSet(found) :
              /\ c.topic = topic /\ c.materiality = materiality /\ c.review \in BOOLEAN
              /\ (c.status # "resolved" <=> c.review)
              /\ c.preferred = None => c.review
              /\ ~semantic => c.preferred = PreferredValue(candidates)
         /\ Distinct(candidates) => ToSet(found) # {}
<1> DEFINE preferred == IF semantic THEN None ELSE PreferredValue(candidates)
           c == [topic |-> topic, values |-> candidates, materiality |-> materiality,
                 status |-> IF semantic THEN "unresolved"
                            ELSE IF preferred # None THEN "resolved" ELSE "user_review_required",
                 preferred |-> preferred,
                 review |-> semantic \/ preferred = None]
<1>1. CASE ~Distinct(candidates)
  <2>1. found = <<>> /\ DOMAIN found = {}
    BY <1>1 DEF Conflict
  <2>2. ToSet(found) = {}
    BY <2>1 DEF ToSet
  <2> QED
    BY <1>1, <2>1, <2>2
<1>2. CASE Distinct(candidates)
  <2>1. found = <<c>>
    BY <1>2 DEF Conflict
  <2>2. /\ c.topic = topic /\ c.materiality = materiality /\ c.review \in BOOLEAN
        /\ (c.status # "resolved" <=> c.review)
        /\ c.preferred = None => c.review
        /\ ~semantic => c.preferred = PreferredValue(candidates)
    OBVIOUS
  <2> HIDE DEF c
  <2>3. DOMAIN found = {1} /\ found[1] = c
    BY <2>1
  <2>4. ToSet(found) = {c}
    BY <2>3 DEF ToSet
  <2>5. found \in Seq(ToSet(found))
    BY <2>1, <2>4
  <2> QED
    BY <2>2, <2>4, <2>5
<1> QED
  BY <1>1, <1>2

LEMMA PenaltiesAreNatural ==
  ASSUME NEW A, NEW conflicts \in Seq(A), NEW chosen \in SUBSET DOMAIN conflicts,
         \A i \in DOMAIN conflicts : conflicts[i].materiality \in DOMAIN Penalty
  PROVE  Penalties(conflicts, chosen) \in Nat
<1> DEFINE f == [i \in chosen |-> Penalty[conflicts[i].materiality]]
<1>1. IsFiniteSet(DOMAIN f)
  <2>1. DOMAIN conflicts = 1 .. Len(conflicts) /\ Len(conflicts) \in Nat
    OBVIOUS
  <2>2. IsFiniteSet(1 .. Len(conflicts))
    BY <2>1, FS_Interval
  <2> QED
    BY <2>1, <2>2, FS_Subset
<1>2. \A m \in DOMAIN Penalty : Penalty[m] \in Nat
  BY DEF Penalty
<1>3. \A i \in DOMAIN f : f[i] \in Nat
  BY <1>2
<1> HIDE DEF f
<1>4. SumFunction(f) \in Nat
  BY <1>1, <1>3, SumIsNatural
<1> QED
  BY <1>4 DEF Penalties, f

\* What the specialists report to be in conflict, without the k-th claim of the i-th of them.
Reported(i, k) ==
  LET output == outputs[AgentOrder[i]]
  IN  Conflict(output.conflicts[k].topic, ClaimCandidates(AgentOrder[i], output, output.conflicts[k]),
               output.conflicts[k].materiality, TRUE)

OfField(i) ==
  Conflict(FieldSpecs[i].field, FieldCandidates(facts[FieldSpecs[i].field]),
           FieldSpecs[i].materiality, FALSE)

\* A conflict that is not settled is up for review.
Sound(c) ==
  /\ c.materiality \in DOMAIN Penalty /\ c.review \in BOOLEAN
  /\ (c.status # "resolved" <=> c.review)
  /\ c.preferred = None => c.review

\* What the conflict of a field looks like, if there is one.
LEMMA OfFieldShape ==
  ASSUME NEW i \in DOMAIN FieldSpecs
  PROVE  LET field == FieldSpecs[i].field
             candidates == FieldCandidates(facts[field])
         IN  /\ OfField(i) \in Seq(ToSet(OfField(i)))
             /\ \A c \in ToSet(OfField(i)) :
                  /\ c.topic = field /\ c.materiality = FieldSpecs[i].materiality
                  /\ c.review \in BOOLEAN /\ (c.status # "resolved" <=> c.review)
                  /\ c.preferred = None => c.review
                  /\ c.preferred = PreferredValue(candidates)
             /\ Distinct(candidates) => ToSet(OfField(i)) # {}
<1> DEFINE found == OfField(i)
           t == FieldSpecs[i].field
           cs == FieldCandidates(facts[t])
           m == FieldSpecs[i].materiality
           semantic == FALSE
<1>1. found = Conflict(t, cs, m, semantic) /\ semantic \in BOOLEAN /\ ~semantic
  BY DEF OfField
<1> HIDE DEF found, t, cs, m, semantic
<1>2. /\ found \in Seq(ToSet(found))
      /\ \A c \in ToSet(found) :
           /\ c.topic = t /\ c.materiality = m
           /\ c.review \in BOOLEAN /\ (c.status # "resolved" <=> c.review)
           /\ c.preferred = None => c.review
           /\ c.preferred = PreferredValue(cs)
      /\ Distinct(cs) => ToSet(found) # {}
  BY <1>1, ConflictShape
<1> QED
  BY <1>2 DEF found, t, cs, m

\* The conflicts between sources, field by field.
LEMMA FieldConflicts ==
  /\ SourceConflicts(facts) \in Seq(ToSet(SourceConflicts(facts)))
  /\ \A c : c \in ToSet(SourceConflicts(facts)) <=> \E i \in DOMAIN FieldSpecs : c \in ToSet(OfField(i))
  /\ \A c \in ToSet(SourceConflicts(facts)) : Sound(c)
<1> DEFINE seqs == [i \in DOMAIN FieldSpecs |-> OfField(i)]
           A == UNION {ToSet(OfField(i)) : i \in DOMAIN FieldSpecs}
<1>1. SourceConflicts(facts) = FlattenSeq(seqs)
  BY DEF SourceConflicts, OfField
<1>2. DOMAIN FieldSpecs = 1 .. Len(FieldSpecs) /\ Len(FieldSpecs) \in Nat
  BY SpecsAreSpecs
<1>3. \A i \in DOMAIN FieldSpecs : OfField(i) \in Seq(A)
  <2> SUFFICES ASSUME NEW i \in DOMAIN FieldSpecs PROVE OfField(i) \in Seq(A)
    OBVIOUS
  <2>1. OfField(i) \in Seq(ToSet(OfField(i)))
    BY OfFieldShape
  <2>2. ToSet(OfField(i)) \subseteq A
    OBVIOUS
  <2> HIDE DEF A
  <2> QED
    BY <2>1, <2>2
<1>4. \A i \in DOMAIN FieldSpecs : \A c \in ToSet(OfField(i)) : Sound(c)
  <2> SUFFICES ASSUME NEW i \in DOMAIN FieldSpecs, NEW c \in ToSet(OfField(i)) PROVE Sound(c)
    OBVIOUS
  <2>1. FieldSpecs[i].materiality \in DOMAIN Penalty
    BY SpecsAreSpecs
  <2> QED
    BY <2>1, OfFieldShape DEF Sound
<1> HIDE DEF A
<1>5. seqs \in Seq(Seq(A)) /\ DOMAIN seqs = DOMAIN FieldSpecs
      /\ \A i \in DOMAIN seqs : seqs[i] = OfField(i)
  BY <1>2, <1>3
<1> HIDE DEF seqs
<1>6. /\ FlattenSeq(seqs) \in Seq(A)
      /\ \A x : x \in ToSet(FlattenSeq(seqs)) <=> \E i \in DOMAIN seqs : x \in ToSet(seqs[i])
  BY <1>5, FlattenHasAll
<1>7. FlattenSeq(seqs) \in Seq(ToSet(FlattenSeq(seqs)))
  BY <1>6 DEF ToSet
<1>8. \A c : c \in ToSet(SourceConflicts(facts)) <=> \E i \in DOMAIN FieldSpecs : c \in ToSet(OfField(i))
  BY <1>1, <1>5, <1>6
<1> QED
  BY <1>1, <1>4, <1>7, <1>8

\* The conflicts that agents report, claim by claim.
LEMMA ReportedConflicts ==
  ASSUME ReviewInv, stage = "done", AllThere
  PROVE  /\ AgentConflicts(outputs) \in Seq(ToSet(AgentConflicts(outputs)))
         /\ \A c \in ToSet(AgentConflicts(outputs)) : Sound(c)
<1> DEFINE claims(i) == DOMAIN outputs[AgentOrder[i]].conflicts
           inner(i) == [k \in claims(i) |-> Reported(i, k)]
           seqs == [i \in DOMAIN AgentOrder |-> FlattenSeq(inner(i))]
           A == UNION {UNION {ToSet(Reported(i, k)) : k \in claims(i)} : i \in 1 .. 4}
<1>1. AgentConflicts(outputs) = FlattenSeq(seqs)
  BY DEF AgentConflicts, Reported
<1>2. DOMAIN AgentOrder = 1 .. 4
  BY DEF AgentOrder
<1>3. \A i \in 1 .. 4 : /\ claims(i) = 1 .. Len(outputs[AgentOrder[i]].conflicts)
                        /\ Len(outputs[AgentOrder[i]].conflicts) \in Nat
                        /\ \A k \in claims(i) : outputs[AgentOrder[i]].conflicts[k].materiality \in DOMAIN Penalty
  <2> SUFFICES ASSUME NEW i \in 1 .. 4
               PROVE  /\ claims(i) = 1 .. Len(outputs[AgentOrder[i]].conflicts)
                      /\ Len(outputs[AgentOrder[i]].conflicts) \in Nat
                      /\ \A k \in claims(i) : outputs[AgentOrder[i]].conflicts[k].materiality \in DOMAIN Penalty
    OBVIOUS
  <2>1. AgentOrder[i] \in Specialists
    BY FourSpecialists
  <2> DEFINE a == AgentOrder[i]
  <2> HIDE DEF a
  <2>2. a \in Reviewers /\ outputs[a] # None /\ a \in DOMAIN outputs
    BY <2>1 DEF AllThere, Reviewers, ReviewInv, a
  <2>3. Vetted(a, outputs[a], context)
    BY <2>2 DEF ReviewInv
  <2>4. /\ outputs[a].conflicts \in Seq(ToSet(outputs[a].conflicts))
        /\ \A k \in DOMAIN outputs[a].conflicts : outputs[a].conflicts[k].materiality \in DOMAIN Penalty
    BY <2>2, <2>3, VettedOutputs
  <2> QED
    BY <2>4 DEF a
<1>4. \A i \in 1 .. 4 : \A k \in claims(i) :
         Reported(i, k) \in Seq(A) /\ \A c \in ToSet(Reported(i, k)) : Sound(c)
  <2> SUFFICES ASSUME NEW i \in 1 .. 4, NEW k \in claims(i)
               PROVE  Reported(i, k) \in Seq(A) /\ \A c \in ToSet(Reported(i, k)) : Sound(c)
    OBVIOUS
  <2> DEFINE found == Reported(i, k)
             output == outputs[AgentOrder[i]]
             t == output.conflicts[k].topic
             cs == ClaimCandidates(AgentOrder[i], output, output.conflicts[k])
             m == output.conflicts[k].materiality
             semantic == TRUE
  <2>1. found = Conflict(t, cs, m, semantic) /\ semantic \in BOOLEAN
    BY DEF Reported
  <2>2. m \in DOMAIN Penalty
    BY <1>3
  <2> HIDE DEF found, t, cs, m, semantic
  <2>3. found \in Seq(ToSet(found)) /\ \A c \in ToSet(found) : Sound(c)
    BY <2>1, <2>2, ConflictShape DEF Sound
  <2>4. ToSet(found) \subseteq A
    BY DEF found
  <2> HIDE DEF A
  <2>5. found \in Seq(A)
    BY <2>3, <2>4
  <2> QED
    BY <2>3, <2>5 DEF found
<1> HIDE DEF A
<1>5. \A i \in 1 .. 4 : inner(i) \in Seq(Seq(A))
  <2> SUFFICES ASSUME NEW i \in 1 .. 4 PROVE inner(i) \in Seq(Seq(A))
    OBVIOUS
  <2> DEFINE n == Len(outputs[AgentOrder[i]].conflicts)
  <2>1. claims(i) = 1 .. n /\ n \in Nat
    BY <1>3
  <2>2. inner(i) = [k \in 1 .. n |-> Reported(i, k)] /\ \A k \in 1 .. n : Reported(i, k) \in Seq(A)
    BY <1>4, <2>1
  <2> HIDE DEF n, inner
  <2> QED
    BY <2>1, <2>2
<1>6. \A i \in 1 .. 4 :
         /\ FlattenSeq(inner(i)) \in Seq(A)
         /\ \A x : x \in ToSet(FlattenSeq(inner(i))) <=> \E k \in DOMAIN inner(i) : x \in ToSet(inner(i)[k])
  <2> HIDE DEF inner
  <2> QED
    BY <1>5, FlattenHasAll
<1>7. \A i \in 1 .. 4 : \A x \in ToSet(FlattenSeq(inner(i))) : Sound(x)
  BY <1>4, <1>6
<1> HIDE DEF inner
<1>8. seqs \in Seq(Seq(A)) /\ DOMAIN seqs = 1 .. 4 /\ \A i \in 1 .. 4 : seqs[i] = FlattenSeq(inner(i))
  BY <1>2, <1>6
<1> HIDE DEF seqs
<1>9. /\ FlattenSeq(seqs) \in Seq(A)
      /\ \A x : x \in ToSet(FlattenSeq(seqs)) <=> \E i \in DOMAIN seqs : x \in ToSet(seqs[i])
  BY <1>8, FlattenHasAll
<1>10. FlattenSeq(seqs) \in Seq(ToSet(FlattenSeq(seqs)))
  BY <1>9 DEF ToSet
<1> QED
  BY <1>1, <1>7, <1>8, <1>9, <1>10

\* Each duplicate costs the confidence of its agents something.
LEMMA DuplicatesCost ==
  ASSUME ReviewInv, stage = "done", AllThere, NEW a
  PROVE  DuplicatePenalty(a, DuplicateGroups(outputs)) \in Nat
<1> DEFINE all == FindingsOf(outputs)
           groups == DuplicateGroups(outputs)
           Alike(i) == {k \in DOMAIN all : all[k].finding.text = all[i].finding.text}
           firsts == {i \in DOMAIN all : Cardinality(Alike(i)) >= 2 /\ \A k \in Alike(i) : i <= k}
           Agents(i) == [k \in Alike(i) |-> all[k].agent]
           Group == [i \in firsts |-> [canonical |-> all[i].finding.id,
                                       duplicates |-> {all[k].finding.id : k \in Alike(i) \ {i}},
                                       agents |-> Agents(i)]]
           f == [g \in groups |-> Cardinality({k \in DOMAIN g.agents : g.agents[k] = a})]
<1>1. IsFiniteSet(DOMAIN all)
  <2>1. BySpecialists \in Seq(Found) /\ DOMAIN all = DOMAIN BySpecialists
    BY SpecialistsAreSearched
  <2>2. DOMAIN all = 1 .. Len(BySpecialists) /\ Len(BySpecialists) \in Nat
    BY <2>1
  <2> QED
    BY <2>2, FS_Interval
<1>2. groups = {Group[i] : i \in firsts}
  BY DEF DuplicateGroups
<1>3. \A i \in firsts : Group[i].agents = Agents(i) /\ DOMAIN Agents(i) = Alike(i)
  OBVIOUS
<1>4. firsts \subseteq DOMAIN all /\ \A i : Alike(i) \subseteq DOMAIN all
  OBVIOUS
<1> HIDE DEF Group, firsts, Alike, Agents, all, groups
<1>5. IsFiniteSet(groups)
  <2>1. IsFiniteSet(firsts)
    BY <1>1, <1>4, FS_Subset
  <2>2. DOMAIN Group = firsts
    BY DEF Group
  <2>3. Group \in [firsts -> groups] /\ \A g \in groups : \E i \in firsts : Group[i] = g
    <3>1. Group = [i \in firsts |-> Group[i]]
      BY DEF Group
    <3>2. \A i \in firsts : Group[i] \in groups
      BY <1>2
    <3> HIDE DEF Group
    <3> QED
      BY <1>2, <3>1, <3>2
  <2>4. Group \in Surjection(firsts, groups)
    BY <2>3 DEF Surjection
  <2> QED
    BY <2>1, <2>4, FS_Surjection
<1>6. \A g \in groups : Cardinality({k \in DOMAIN g.agents : g.agents[k] = a}) \in Nat
  <2> SUFFICES ASSUME NEW i \in firsts
               PROVE  Cardinality({k \in DOMAIN Group[i].agents : Group[i].agents[k] = a}) \in Nat
    BY <1>2
  <2>1. {k \in DOMAIN Group[i].agents : Group[i].agents[k] = a} \subseteq DOMAIN all
    BY <1>3, <1>4
  <2> QED
    BY <1>1, <2>1, FS_Subset, FS_CardinalityType
<1>7. DOMAIN f = groups /\ \A g \in DOMAIN f : f[g] \in Nat
  BY <1>6
<1>8. DuplicatePenalty(a, groups) = 3 * SumFunction(f)
  BY DEF DuplicatePenalty
<1> HIDE DEF f
<1>9. SumFunction(f) \in Nat
  BY <1>5, <1>7, SumIsNatural
<1> QED
  BY <1>8, <1>9 DEF groups

LEMMA ClampBounds ==
  ASSUME NEW x \in Int, NEW most \in Nat
  PROVE  /\ Clamp(x, most) \in 0 .. most
         /\ (Clamp(x, most) = 0 \/ Clamp(x, most) <= x)
BY DEF Clamp

\* A sequence is one of its own members.
LEMMA OfItsRange ==
  ASSUME NEW S, NEW seq \in Seq(S)
  PROVE  seq \in Seq(ToSet(seq))
<1>1. Len(seq) \in Nat /\ DOMAIN seq = 1 .. Len(seq) /\ seq = [i \in 1 .. Len(seq) |-> seq[i]]
  OBVIOUS
<1>2. \A i \in 1 .. Len(seq) : seq[i] \in ToSet(seq)
  BY <1>1 DEF ToSet
<1>3. seq \in [1 .. Len(seq) -> ToSet(seq)]
  BY <1>1, <1>2
<1> QED
  BY <1>1, <1>3

\* All there is in conflict.
Conflicts == SourceConflicts(facts) \o AgentConflicts(outputs)

LEMMA ConflictsAreSound ==
  ASSUME ReviewInv, stage = "done", AllThere
  PROVE  /\ Conflicts \in Seq(ToSet(Conflicts))
         /\ \A c : c \in ToSet(Conflicts) <=>
              c \in ToSet(SourceConflicts(facts)) \/ c \in ToSet(AgentConflicts(outputs))
         /\ \A c \in ToSet(Conflicts) : Sound(c)
<1> DEFINE s == SourceConflicts(facts)
           r == AgentConflicts(outputs)
           A == ToSet(s) \cup ToSet(r)
<1>1. s \in Seq(ToSet(s)) /\ \A c \in ToSet(s) : Sound(c)
  BY FieldConflicts
<1>2. r \in Seq(ToSet(r)) /\ \A c \in ToSet(r) : Sound(c)
  BY ReportedConflicts
<1> HIDE DEF s, r
<1>3. ToSet(s) \subseteq A /\ ToSet(r) \subseteq A
  OBVIOUS
<1> HIDE DEF A
<1>4. s \in Seq(A) /\ r \in Seq(A)
  BY <1>1, <1>2, <1>3
<1>5. s \o r \in Seq(A) /\ \A x : x \in ToSet(s \o r) <=> x \in ToSet(s) \/ x \in ToSet(r)
  BY <1>4, ConcatHasBoth
<1>6. s \o r \in Seq(ToSet(s \o r))
  BY <1>5, OfItsRange
<1> QED
  BY <1>1, <1>2, <1>5, <1>6 DEF Conflicts, s, r

\* Clamped or not, an adjusted confidence is at most the claimed one.
LEMMA ConfidenceIsLowered ==
  ASSUME ReviewInv, stage = "done", AllThere, NEW a \in Specialists
  PROVE  LET adjusted == AdjustedConfidence(a, outputs[a], Conflicts, DuplicateGroups(outputs))
         IN  adjusted \in Int /\ outputs[a].confidence \in Int /\ adjusted <= outputs[a].confidence
<1> DEFINE conf == outputs[a].confidence
           limit == bounded_confidence_limit(outputs[a])
           D == DuplicatePenalty(a, DuplicateGroups(outputs))
           chosen == {i \in Unresolved(Conflicts) : Involved(a, Conflicts[i])}
           P == Penalties(Conflicts, chosen)
<1>1. conf \in 0 .. 100
  <2>1. a \in Reviewers /\ a \in DOMAIN outputs /\ outputs[a] # None
    BY DEF ReviewInv, Reviewers, AllThere
  <2>2. Vetted(a, outputs[a], context)
    BY <2>1 DEF ReviewInv
  <2> QED
    BY <2>1, <2>2, VettedOutputs
<1>2. limit \in 60 .. 95
  BY DEF bounded_confidence_limit
<1>3. D \in Nat
  BY DuplicatesCost
<1>4. P \in Nat
  <2>1. Conflicts \in Seq(ToSet(Conflicts)) /\ \A c \in ToSet(Conflicts) : Sound(c)
    BY ConflictsAreSound
  <2>2. \A i \in DOMAIN Conflicts : Conflicts[i].materiality \in DOMAIN Penalty
    BY <2>1 DEF Sound, ToSet
  <2>3. chosen \subseteq DOMAIN Conflicts
    BY DEF Unresolved
  <2> HIDE DEF chosen
  <2> QED
    BY <2>1, <2>2, <2>3, PenaltiesAreNatural
<1> DEFINE x == AtMost(limit, conf) - D - P
           y == AdjustedConfidence(a, outputs[a], Conflicts, DuplicateGroups(outputs))
<1>5. y = Clamp(x, 100)
  BY DEF AdjustedConfidence, ConflictPenalty
<1> HIDE DEF y, limit, D, P, conf
<1>6. x \in Int /\ x <= conf
  BY <1>1, <1>2, <1>3, <1>4 DEF AtMost
<1> HIDE DEF x
<1>7. y \in 0 .. 100 /\ (y = 0 \/ y <= x)
  BY <1>5, <1>6, ClampBounds
<1>8. y \in Int /\ conf \in Int /\ y <= conf
  BY <1>1, <1>6, <1>7
<1> QED
  BY <1>8 DEF y, conf

\* Where the sources of a field disagree there are two values among its candidates.
LEMMA DisagreeingValues ==
  ASSUME NEW field
  PROVE  {c.value : c \in ToSet(FieldCandidates(facts[field]))} = {fact.value : fact \in Says(field)}
<1> DEFINE fact == facts[field]
           v == VerifiedCandidate(fact.verified)
           l == ListingCandidate(fact.listing)
           p == PublicCandidate(fact.public)
           cs == FieldCandidates(fact)
<1>1. \A x : x \in ToSet(cs) <=>
        \/ fact.verified # None /\ x = v
        \/ fact.listing # None /\ x = l
        \/ fact.public # None /\ x = p
  BY CandidatesOfField
<1>2. v.value = fact.verified.value /\ l.value = fact.listing.value /\ p.value = fact.public.value
  BY DEF VerifiedCandidate, ListingCandidate, PublicCandidate, Candidate
<1>3. \A x : x \in Says(field) <=>
        \/ fact.verified # None /\ x = fact.verified
        \/ fact.listing # None /\ x = fact.listing
        \/ fact.public # None /\ x = fact.public
  BY DEF Says
<1> HIDE DEF v, l, p, cs, fact
<1>4. \A x \in ToSet(cs) : \E y \in Says(field) : x.value = y.value
  BY <1>1, <1>2, <1>3
<1>5. \A y \in Says(field) : \E x \in ToSet(cs) : x.value = y.value
  BY <1>1, <1>2, <1>3
<1>6. {c.value : c \in ToSet(cs)} = {y.value : y \in Says(field)}
  BY <1>4, <1>5
<1> QED
  BY <1>6 DEF cs, fact

\* The first part: a disagreement is among the conflicts, and is settled as precedence has it.
LEMMA DisagreementsAreThere ==
  ASSUME ReviewInv, stage = "done", AllThere, NEW n \in DOMAIN FieldSpecs,
         Cardinality({fact.value : fact \in Says(FieldSpecs[n].field)}) >= 2
  PROVE  \E c \in ToSet(Conflicts) :
           LET field == FieldSpecs[n].field
           IN  /\ c.topic = field
               /\ ByUser(field) => c.preferred = facts[field].verified.value
               /\ ~ByUser(field) /\ facts[field].public # None /\ facts[field].public.government =>
                    c.preferred = facts[field].public.value
<1> DEFINE field == FieldSpecs[n].field
           fact == facts[field]
           cs == FieldCandidates(fact)
           found == OfField(n)
<1>1. Distinct(cs)
  BY DisagreeingValues DEF Distinct
<1>2. PICK c \in ToSet(found) : c.topic = field /\ c.preferred = PreferredValue(cs)
  <2>1. ToSet(found) # {} /\ \A c \in ToSet(found) : c.topic = field /\ c.preferred = PreferredValue(cs)
    BY <1>1, OfFieldShape
  <2> HIDE DEF found, field, cs, fact
  <2> QED
    BY <2>1
<1>3. c \in ToSet(Conflicts)
  BY <1>2, FieldConflicts, ConflictsAreSound
<1>4. /\ SettledByUser(fact) => PreferredValue(cs) = fact.verified.value
      /\ ~SettledByUser(fact) /\ fact.public # None /\ fact.public.government =>
           PreferredValue(cs) = fact.public.value
  BY PreferredOfField DEF ReviewInv
<1>5. ByUser(field) <=> SettledByUser(fact)
  BY DEF ByUser, SettledByUser
<1> HIDE DEF cs, found
<1>6. /\ c.topic = field
      /\ ByUser(field) => c.preferred = fact.verified.value
      /\ ~ByUser(field) /\ fact.public # None /\ fact.public.government => c.preferred = fact.public.value
  BY <1>2, <1>4, <1>5
<1> QED
  BY <1>3, <1>6

\* What is up for review is what is not settled.
LEMMA OpenIsUnresolved ==
  ASSUME ReviewInv, stage = "done", AllThere
  PROVE  {i \in DOMAIN Conflicts : Conflicts[i].review} = Unresolved(Conflicts)
<1>1. \A i \in DOMAIN Conflicts : Sound(Conflicts[i])
  BY ConflictsAreSound DEF ToSet
<1>2. \A i \in DOMAIN Conflicts : (Conflicts[i].status # "resolved" <=> Conflicts[i].review)
  BY <1>1 DEF Sound
<1> QED
  BY <1>2 DEF Unresolved

\* The last part: the confidence stays below what the agents claim by the penalties.
LEMMA ConfidenceIsBelow ==
  ASSUME ReviewInv, stage = "done", AllThere,
         NEW adjusted,
         adjusted = [a \in Specialists |->
                       AdjustedConfidence(a, outputs[a], Conflicts, DuplicateGroups(outputs))],
         NEW open, open = Unresolved(Conflicts)
  PROVE  LET claimed == SumFunction([a \in Specialists |-> outputs[a].confidence])
         IN  \/ OverallConfidence(adjusted, Conflicts) = 0
             \/ OverallConfidence(adjusted, Conflicts) <= claimed - 4 * Penalties(Conflicts, open)
<1> DEFINE claims == [a \in Specialists |-> outputs[a].confidence]
           P == Penalties(Conflicts, open)
           claimed == SumFunction(claims)
           kept == SumFunction(adjusted)
           y == OverallConfidence(adjusted, Conflicts)
<1>1. DOMAIN adjusted = Specialists /\ DOMAIN claims = Specialists /\ IsFiniteSet(Specialists)
  BY FourSpecialists
<1>2. \A a \in Specialists : adjusted[a] \in Int /\ claims[a] \in Int /\ adjusted[a] <= claims[a]
  <2> SUFFICES ASSUME NEW a \in Specialists
               PROVE  adjusted[a] \in Int /\ claims[a] \in Int /\ adjusted[a] <= claims[a]
    OBVIOUS
  <2>1. adjusted[a] = AdjustedConfidence(a, outputs[a], Conflicts, DuplicateGroups(outputs))
        /\ claims[a] = outputs[a].confidence
    OBVIOUS
  <2> HIDE DEF claims
  <2> QED
    BY <2>1, ConfidenceIsLowered
<1> HIDE DEF claims
<1>3. kept \in Int /\ claimed \in Int /\ kept <= claimed
  BY <1>1, <1>2, SumGrows
<1>4. P \in Nat
  <2>1. Conflicts \in Seq(ToSet(Conflicts)) /\ \A c \in ToSet(Conflicts) : Sound(c)
    BY ConflictsAreSound
  <2>2. \A i \in DOMAIN Conflicts : Conflicts[i].materiality \in DOMAIN Penalty
    BY <2>1 DEF Sound, ToSet
  <2>3. open \in SUBSET DOMAIN Conflicts
    BY DEF Unresolved
  <2> QED
    BY <2>1, <2>2, <2>3, PenaltiesAreNatural
<1> DEFINE x == kept - 4 * P
           most == 400
<1>5. y = Clamp(x, most)
  BY DEF OverallConfidence
<1> HIDE DEF y, kept, claimed, P
<1>6. x \in Int /\ x <= claimed - 4 * P /\ most \in Nat
  BY <1>3, <1>4
<1> HIDE DEF x, most
<1>7. y = 0 \/ y <= x
  BY <1>5, <1>6, ClampBounds
<1>8. y \in Int
  <2>1. y \in 0 .. most
    BY <1>5, <1>6, ClampBounds
  <2> QED
    BY <1>6, <2>1
<1>9. y = 0 \/ y <= claimed - 4 * P
  BY <1>3, <1>4, <1>6, <1>7, <1>8
<1> QED
  BY <1>9 DEF y, claimed, claims, P

\* What the analysis makes of the answers is in the package.
LEMMA PackageOfAll ==
  ASSUME AllThere
  PROVE  LET adjusted == [a \in Specialists |->
                            AdjustedConfidence(a, outputs[a], Conflicts, DuplicateGroups(outputs))]
         IN  /\ Package.conflicts = Conflicts
             /\ Package.confidence = OverallConfidence(adjusted, Conflicts)
             /\ {Conflicts[i].topic : i \in Unresolved(Conflicts)} \subseteq Package.warnings
<1> DEFINE adjusted == [a \in Specialists |->
                          AdjustedConfidence(a, outputs[a], Conflicts, DuplicateGroups(outputs))]
<1>1. Analysis = AnalyzeConflicts(facts, outputs)
  BY DEF Analysis
<1>2. /\ Analysis.conflicts = Conflicts
      /\ Analysis.overall = OverallConfidence(adjusted, Conflicts)
      /\ Analysis.warnings = {Conflicts[i].topic : i \in Unresolved(Conflicts)}
  BY <1>1 DEF AnalyzeConflicts, Conflicts
<1> HIDE DEF adjusted
<1>3. /\ Package.conflicts = Analysis.conflicts
      /\ Package.confidence = Analysis.overall
      /\ Package.warnings = Analysis.warnings \cup RiskWarnings
  BY DEF Package
<1> QED
  BY <1>2, <1>3 DEF adjusted

\* What the analysis says of disagreements is what the package says.
LEMMA DisagreementsInPackage == ReviewInv => DisagreementsCount
<1> SUFFICES ASSUME ReviewInv, package # None, AllThere
             PROVE  DisagreementsCount
  BY DEF DisagreementsCount
<1> DEFINE adjusted == [a \in Specialists |->
                          AdjustedConfidence(a, outputs[a], Conflicts, DuplicateGroups(outputs))]
<1>1. stage = "done" /\ package = Package
  BY DEF ReviewInv
<1>2. /\ package.conflicts = Conflicts
      /\ package.confidence = OverallConfidence(adjusted, Conflicts)
      /\ {Conflicts[i].topic : i \in Unresolved(Conflicts)} \subseteq package.warnings
  BY <1>1, PackageOfAll
<1>3. ASSUME NEW n \in DOMAIN FieldSpecs
      PROVE  LET field == FieldSpecs[n].field
             IN  Cardinality({fact.value : fact \in Says(field)}) >= 2 =>
                   \E c \in ToSet(package.conflicts) :
                     /\ c.topic = field
                     /\ ByUser(field) => c.preferred = facts[field].verified.value
                     /\ ~ByUser(field) /\ facts[field].public # None /\ facts[field].public.government =>
                          c.preferred = facts[field].public.value
  BY <1>1, <1>2, DisagreementsAreThere
<1>4. ASSUME NEW c \in ToSet(package.conflicts), c.preferred = None
      PROVE  c.review /\ c.topic \in package.warnings
  <2>1. PICK i \in DOMAIN Conflicts : c = Conflicts[i]
    BY <1>2, <1>4 DEF ToSet
  <2>2. Sound(c)
    BY <1>1, <1>2, <1>4, ConflictsAreSound
  <2>3. c.review /\ c.status # "resolved"
    BY <1>4, <2>2 DEF Sound
  <2>4. i \in Unresolved(Conflicts)
    BY <2>1, <2>3 DEF Unresolved
  <2> QED
    BY <1>2, <2>1, <2>3, <2>4
<1>5. LET open == {i \in DOMAIN package.conflicts : package.conflicts[i].review}
          claimed == SumFunction([a \in Specialists |-> outputs[a].confidence])
      IN  \/ package.confidence = 0
          \/ package.confidence <= claimed - 4 * Penalties(package.conflicts, open)
  <2> DEFINE open == {i \in DOMAIN package.conflicts : package.conflicts[i].review}
  <2>1. open = Unresolved(Conflicts)
    BY <1>1, <1>2, OpenIsUnresolved
  <2> HIDE DEF open
  <2>2. LET claimed == SumFunction([a \in Specialists |-> outputs[a].confidence])
        IN  \/ OverallConfidence(adjusted, Conflicts) = 0
            \/ OverallConfidence(adjusted, Conflicts) <= claimed - 4 * Penalties(Conflicts, open)
    BY <1>1, <2>1, ConfidenceIsBelow
  <2> HIDE DEF adjusted
  <2>3. LET claimed == SumFunction([a \in Specialists |-> outputs[a].confidence])
        IN  \/ package.confidence = 0
            \/ package.confidence <= claimed - 4 * Penalties(package.conflicts, open)
    BY <1>2, <2>2
  <2> QED
    BY <2>3 DEF open
<1> QED
  BY <1>3, <1>4, <1>5 DEF DisagreementsCount

\* A disagreement of the sources is never lost: where they differ there is a conflict, settled as
\* precedence has it; what is not settled is reviewed, warned of and paid for in confidence,
\* whatever the fields, the answers and the findings. (analyze_conflicts)
THEOREM DisagreementsAreCounted == Spec => []DisagreementsCount
BY ReviewIsSound, DisagreementsInPackage, PTL

-----------------------------------------------------------------------------
(* Comparables. *)

\* A product of naturals is natural, and a larger factor makes it no smaller.
LEMMA ProductGrows ==
  ASSUME NEW x \in Int, NEW z \in Int, x <= z, NEW y \in Nat
  PROVE  x * y \in Int /\ z * y \in Int /\ x * y <= z * y
<1>1. (z - x) * y >= 0
  OBVIOUS
<1> QED
  BY <1>1

LEMMA Quotient ==
  ASSUME NEW x \in Nat, NEW y \in Nat, y > 0
  PROVE  x \div y \in Nat /\ y * (x \div y) <= x /\ x < y * (x \div y) + y
OBVIOUS

LEMMA QuotientIsBounded ==
  ASSUME NEW x \in Nat, NEW y \in Nat, y > 0, NEW m \in Nat, x < (m + 1) * y
  PROVE  x \div y \in 0 .. m
<1> DEFINE q == x \div y
<1>1. q \in Nat /\ y * q <= x
  BY Quotient
<1> HIDE DEF q
<1>2. CASE q >= m + 1
  <2>1. (m + 1) * y <= q * y
    BY <1>1, <1>2, ProductGrows
  <2> QED
    BY <1>1, <2>1
<1>3. CASE q < m + 1
  BY <1>1, <1>3 DEF q
<1> QED
  BY <1>1, <1>2, <1>3

LEMMA QuotientGrows ==
  ASSUME NEW x \in Nat, NEW z \in Nat, x <= z, NEW y \in Nat, y > 0
  PROVE  x \div y <= z \div y
<1> DEFINE q == x \div y
           r == z \div y
<1>1. q \in Nat /\ y * q <= x /\ r \in Nat /\ z < y * r + y
  BY Quotient
<1> HIDE DEF q, r
<1>2. CASE q >= r + 1
  <2>1. (r + 1) * y <= q * y
    BY <1>1, <1>2, ProductGrows
  <2>2. (r + 1) * y = y * r + y
    BY <1>1
  <2> QED
    BY <1>1, <2>1, <2>2
<1>3. CASE q < r + 1
  BY <1>1, <1>3 DEF q, r
<1> QED
  BY <1>1, <1>2, <1>3

\* An instance brings the operators its module extends along; its sum is that of the other modules.
LEMMA SameSum ==
  ASSUME NEW f
  PROVE  Comps!SumFunction(f) = SumFunction(f)
BY DEF SumFunction, SumFunctionOnSet, FoldFunctionOnSet, MapThenFoldSet,
       Comps!SumFunction, Comps!SumFunctionOnSet, Comps!FoldFunctionOnSet, Comps!MapThenFoldSet

\* F has the products of the values of f over the subsets of its domain.
Products(f, F) == F = [s \in SUBSET DOMAIN f |-> IF s = {} THEN 1 ELSE f[Chosen(s)] * F[s \ {Chosen(s)}]]

Product(f) == (CHOOSE F : Products(f, F))[DOMAIN f]

\* Products, like sums, have a function that computes them.
LEMMA ProductsExist ==
  ASSUME NEW f, IsFiniteSet(DOMAIN f)
  PROVE  \E F : Products(f, F) /\ Product(f) = F[DOMAIN f]
<1> DEFINE Step(F, s) == IF s = {} THEN 1 ELSE f[Chosen(s)] * F[s \ {Chosen(s)}]
           Good(F, n) == \A s \in SUBSET DOMAIN f : Cardinality(s) <= n => F[s] = Step(F, s)
           N == {n \in Nat : \E F : Good(F, n)}
<1>1. \A s \in SUBSET DOMAIN f : IsFiniteSet(s) /\ Cardinality(s) \in Nat
  BY FS_Subset, FS_CardinalityType
\* One more step extends the products to larger sets.
<1>2. ASSUME NEW F, NEW n \in Nat, Good(F, n)
      PROVE  Good([s \in SUBSET DOMAIN f |-> Step(F, s)], n + 1)
  <2> DEFINE G == [s \in SUBSET DOMAIN f |-> Step(F, s)]
  <2> SUFFICES ASSUME NEW s \in SUBSET DOMAIN f, Cardinality(s) <= n + 1
               PROVE  G[s] = Step(G, s)
    OBVIOUS
  <2>1. CASE s = {}
    BY <2>1
  <2>2. CASE s # {}
    <3> DEFINE r == s \ {Chosen(s)}
    <3>1. r \in SUBSET DOMAIN f
      OBVIOUS
    <3>2. Cardinality(r) <= n
      <4>1. Chosen(s) \in s
        BY <2>2, AnyIsMember
      <4>2. Cardinality(r) = Cardinality(s) - 1
        BY <1>1, <4>1, FS_RemoveElement
      <4> QED
        BY <1>1, <4>2
    <3>3. F[r] = Step(F, r)
      BY <1>2, <3>1, <3>2
    <3>4. G[r] = F[r]
      BY <3>1, <3>3
    <3>5. G[s] = f[Chosen(s)] * F[r]
      BY <2>2
    <3> QED
      BY <2>2, <3>4, <3>5
  <2> QED
    BY <2>1, <2>2
<1>3. 0 \in N
  <2>1. Good([s \in SUBSET DOMAIN f |-> 1], 0)
    <3> SUFFICES ASSUME NEW s \in SUBSET DOMAIN f, Cardinality(s) <= 0 PROVE s = {}
      OBVIOUS
    <3> QED
      BY <1>1, FS_EmptySet
  <2> QED
    BY <2>1
<1>4. ASSUME NEW n \in Nat, n \in N
      PROVE  n + 1 \in N
  <2>1. PICK F : Good(F, n)
    BY <1>4
  <2>2. Good([s \in SUBSET DOMAIN f |-> Step(F, s)], n + 1)
    BY <1>2, <2>1
  <2> HIDE DEF Good
  <2> QED
    BY <2>2
<1>5. Nat \subseteq N
  <2> HIDE DEF N
  <2> QED
    BY <1>3, <1>4, Induction
<1>6. PICK F : Good(F, Cardinality(DOMAIN f))
  BY <1>1, <1>5
<1> DEFINE G == [s \in SUBSET DOMAIN f |-> F[s]]
<1>7. \A s \in SUBSET DOMAIN f : F[s] = Step(F, s)
  <2> SUFFICES ASSUME NEW s \in SUBSET DOMAIN f PROVE F[s] = Step(F, s)
    OBVIOUS
  <2>1. Cardinality(s) <= Cardinality(DOMAIN f)
    BY FS_Subset
  <2> QED
    BY <1>6, <2>1
<1>8. Products(f, G)
  <2>1. \A s \in SUBSET DOMAIN f : G[s] = Step(G, s)
    BY <1>7
  <2> QED
    BY <2>1 DEF Products
<1> HIDE DEF G
<1>9. Products(f, CHOOSE H : Products(f, H))
  BY <1>8
<1> QED
  BY <1>9 DEF Product

LEMMA ProductIsPositive ==
  ASSUME NEW f, IsFiniteSet(DOMAIN f), \A x \in DOMAIN f : f[x] \in Nat /\ f[x] > 0
  PROVE  Product(f) \in Nat /\ Product(f) > 0
<1> DEFINE D == DOMAIN f
<1>1. PICK F : Products(f, F) /\ Product(f) = F[D]
  BY ProductsExist
<1> DEFINE B == {s \in SUBSET D : F[s] \in Nat /\ F[s] > 0}
<1>2. \A s \in SUBSET D : F[s] = IF s = {} THEN 1 ELSE f[Chosen(s)] * F[s \ {Chosen(s)}]
  BY <1>1 DEF Products
<1>3. {} \in B
  <2>1. {} \in SUBSET D
    OBVIOUS
  <2>2. F[{}] = 1
    BY <1>2, <2>1
  <2> QED
    BY <2>1, <2>2
<1>4. ASSUME NEW s \in SUBSET D, s # {}, \A x \in s : s \ {x} \in B
      PROVE  s \in B
  <2> DEFINE x == f[Chosen(s)]
             y == F[s \ {Chosen(s)}]
  <2>1. Chosen(s) \in s
    BY <1>4, AnyIsMember
  <2>2. x \in Nat /\ x > 0 /\ y \in Nat /\ y > 0
    BY <1>4, <2>1
  <2>3. F[s] = x * y
    BY <1>2, <1>4
  <2> HIDE DEF x, y
  <2>4. x * y \in Nat /\ x * y > 0
    BY <2>2
  <2> QED
    BY <2>3, <2>4
<1>5. D \in B
  <2> HIDE DEF B
  <2> QED
    BY <1>3, <1>4, SubsetInduction
<1> QED
  BY <1>1, <1>5

\* Of a trait that is compared, both values and what the gap is measured against are numbers.
LEMMA ComparedTraits ==
  ASSUME NEW s \in Selections, NEW c \in ToSet(s.candidates)
  PROVE  /\ IsFiniteSet(Comps!Compared(s.subject, c))
         /\ \A t \in Comps!Compared(s.subject, c) :
              /\ Comps!Span(s.subject, t) \in Nat /\ Comps!Span(s.subject, t) > 0
              /\ Comps!Gap(s.subject, c, t) \in Nat
              /\ Comps!Near(s.subject, c, t) => Comps!Gap(s.subject, c, t) <= Comps!Span(s.subject, t)
<1> DEFINE traits == Comps!Compared(s.subject, c)
<1>1. IsFiniteSet(traits)
  <2>1. IsFiniteSet({"distance"} \cup {"square_feet"} \cup {"bedrooms"} \cup {"bathrooms"} \cup {"year_built"})
    BY FS_Singleton, FS_Union
  <2>2. traits \subseteq {"distance"} \cup {"square_feet"} \cup {"bedrooms"} \cup {"bathrooms"} \cup {"year_built"}
    BY DEF Comps!Compared, Comps!Traits
  <2> QED
    BY <2>1, <2>2, FS_Subset
<1>2. ASSUME NEW t \in traits
      PROVE  /\ Comps!Span(s.subject, t) \in Nat /\ Comps!Span(s.subject, t) > 0
             /\ Comps!Gap(s.subject, c, t) \in Nat
             /\ Comps!Near(s.subject, c, t) => Comps!Gap(s.subject, c, t) <= Comps!Span(s.subject, t)
  <2> DEFINE x == s.subject[t]
             y == c[t]
             gap == Comps!Gap(s.subject, c, t)
             span == Comps!Span(s.subject, t)
  <2>1. t \in Comps!Traits /\ x # None /\ y # None /\ span > 0
    BY DEF Comps!Compared
  <2>2. x \in Nat /\ y \in Nat
    BY <2>1, SelectionsAreTyped
  <2>3. gap = IF x - y < 0 THEN -(x - y) ELSE x - y
    BY DEF Comps!Gap
  <2>4. gap \in Nat
    BY <2>2, <2>3
  <2>5. /\ t = "distance" => span = 5
        /\ t = "square_feet" => span = x
        /\ t = "bedrooms" => span = 2
        /\ t = "bathrooms" => span = 2
        /\ t = "year_built" => span = 20
    BY DEF Comps!Span, Comps!MaxDistance, Comps!MaxYearBuiltDelta
  <2>6. /\ t = "distance" => (Comps!Near(s.subject, c, t) <=> gap <= 5)
        /\ t = "square_feet" => (Comps!Near(s.subject, c, t) <=> 4 * gap <= x)
        /\ t = "bedrooms" => (Comps!Near(s.subject, c, t) <=> gap <= 1)
        /\ t = "bathrooms" => (Comps!Near(s.subject, c, t) <=> gap <= 1)
        /\ t = "year_built" => (Comps!Near(s.subject, c, t) <=> gap <= 20)
    BY DEF Comps!Near, Comps!MaxDistance, Comps!MaxBedroomDelta, Comps!MaxBathroomDelta,
           Comps!MaxYearBuiltDelta
  <2>7. t \in {"distance", "square_feet", "bedrooms", "bathrooms", "year_built"}
    BY <2>1 DEF Comps!Traits
  <2> HIDE DEF x, y, gap, span
  <2>8. span \in Nat
    BY <2>2, <2>5, <2>7
  <2>9. Comps!Near(s.subject, c, t) => gap <= span
    BY <2>2, <2>4, <2>5, <2>6, <2>7
  <2> QED
    BY <2>1, <2>4, <2>8, <2>9 DEF gap, span
<1> QED
  BY <1>1, <1>2

\* So is its cardinality.
LEMMA SameCardinality ==
  ASSUME NEW S
  PROVE  Comps!Cardinality(S) = Cardinality(S)
BY DEF Cardinality, Comps!Cardinality

\* The parts of a similarity, of which it is the mean.
Whole(subject, c) == Product([t \in Comps!Compared(subject, c) |-> Comps!Span(subject, t)])

Parts(subject, c) ==
  [t \in Comps!Compared(subject, c) |->
    (Comps!Span(subject, t) - Comps!Gap(subject, c, t)) * (Whole(subject, c) \div Comps!Span(subject, t))]

\* A similarity is the mean of its parts in ten-thousandths, rounded half up.
LEMMA SimilarityIsMean ==
  ASSUME NEW subject, NEW c
  PROVE  LET all == Cardinality(Comps!Compared(subject, c)) * Whole(subject, c)
         IN  Comps!Similarity(subject, c) = (20000 * SumFunction(Parts(subject, c)) + all) \div (2 * all)
<1> DEFINE traits == Comps!Compared(subject, c)
           whole == Product([t \in traits |-> Comps!Span(subject, t)])
           parts == [t \in traits |->
                      (Comps!Span(subject, t) - Comps!Gap(subject, c, t)) * (whole \div Comps!Span(subject, t))]
           all == Comps!Cardinality(traits) * whole
<1>1. whole = Whole(subject, c)
  BY DEF Whole
<1>2. Comps!Similarity(subject, c) = (20000 * Comps!SumFunction(parts) + all) \div (2 * all)
  BY DEF Comps!Similarity, Comps!FoldFunction, Comps!FoldFunctionOnSet, Comps!MapThenFoldSet,
         Product, Products, Chosen
<1> HIDE DEF whole
<1>3. parts = Parts(subject, c)
  BY <1>1 DEF Parts
<1> HIDE DEF parts
<1>4. Comps!SumFunction(parts) = SumFunction(parts)
  BY SameSum
<1> QED
  BY <1>1, <1>2, <1>3, <1>4, SameCardinality

\* The span of a trait divides the product of all spans.
LEMMA SpansDivide ==
  ASSUME NEW s \in Selections, NEW c \in ToSet(s.candidates)
  PROVE  /\ Whole(s.subject, c) \in Nat /\ Whole(s.subject, c) > 0
         /\ \A t \in Comps!Compared(s.subject, c) :
              LET w == Whole(s.subject, c) \div Comps!Span(s.subject, t)
              IN  w \in Nat /\ Comps!Span(s.subject, t) * w <= Whole(s.subject, c)
<1> DEFINE traits == Comps!Compared(s.subject, c)
           spans == [t \in traits |-> Comps!Span(s.subject, t)]
           whole == Whole(s.subject, c)
<1>1. IsFiniteSet(traits) /\ \A t \in traits : Comps!Span(s.subject, t) \in Nat /\ Comps!Span(s.subject, t) > 0
  BY ComparedTraits
<1>2. IsFiniteSet(DOMAIN spans) /\ \A t \in DOMAIN spans : spans[t] \in Nat /\ spans[t] > 0
  BY <1>1
<1>3. whole = Product(spans)
  BY DEF Whole
<1> HIDE DEF spans, whole
<1>4. whole \in Nat /\ whole > 0
  BY <1>2, <1>3, ProductIsPositive
<1>5. \A t \in traits : LET w == whole \div Comps!Span(s.subject, t)
                        IN  w \in Nat /\ Comps!Span(s.subject, t) * w <= whole
  BY <1>1, <1>4, Quotient
<1> QED
  BY <1>4, <1>5 DEF whole

\* Each part of a comparable within the filters is between nothing and the whole.
LEMMA PartsAreParts ==
  ASSUME NEW s \in Selections, NEW c \in ToSet(s.candidates),
         NEW t \in Comps!Compared(s.subject, c), Comps!Near(s.subject, c, t)
  PROVE  Parts(s.subject, c)[t] \in 0 .. Whole(s.subject, c)
<1> DEFINE span == Comps!Span(s.subject, t)
           gap == Comps!Gap(s.subject, c, t)
           whole == Whole(s.subject, c)
           w == whole \div span
<1>1. span \in Nat /\ gap \in Nat /\ gap <= span
  BY ComparedTraits
<1>2. whole \in Nat /\ w \in Nat /\ span * w <= whole
  BY SpansDivide
<1> DEFINE near == span - gap
<1>3. Parts(s.subject, c)[t] = near * w
  BY DEF Parts
<1> HIDE DEF span, gap, whole, w
<1>4. near \in Nat /\ near <= span
  BY <1>1
<1> HIDE DEF near
<1>5. near * w <= span * w /\ near * w \in Nat
  BY <1>1, <1>2, <1>4, ProductGrows
<1>6. near * w \in 0 .. whole
  BY <1>1, <1>2, <1>5
<1> QED
  BY <1>3, <1>6 DEF whole

\* The terms of the mean are typed.
LEMMA PartsAreTyped ==
  ASSUME NEW s \in Selections, NEW c \in ToSet(s.candidates)
  PROVE  /\ DOMAIN Parts(s.subject, c) = Comps!Compared(s.subject, c)
         /\ \A t \in Comps!Compared(s.subject, c) : Parts(s.subject, c)[t] \in Int
<1>1. DOMAIN Parts(s.subject, c) = Comps!Compared(s.subject, c)
  BY DEF Parts
<1>2. ASSUME NEW t \in Comps!Compared(s.subject, c)
      PROVE  Parts(s.subject, c)[t] \in Int
  <2> DEFINE span == Comps!Span(s.subject, t)
             gap == Comps!Gap(s.subject, c, t)
             w == Whole(s.subject, c) \div span
  <2>1. span \in Nat /\ gap \in Nat
    BY ComparedTraits
  <2>2. w \in Nat
    BY SpansDivide
  <2>3. Parts(s.subject, c)[t] = (span - gap) * w
    BY DEF Parts
  <2> HIDE DEF span, gap, w
  <2> QED
    BY <2>1, <2>2, <2>3
<1> QED
  BY <1>1, <1>2

\* What is within the filters scores between 0 and 1.
LEMMA SimilarityIsBounded ==
  ASSUME NEW s \in Selections, NEW c \in ToSet(s.candidates), Comps!Matches(s.subject, c, Statuses),
         Comps!Compared(s.subject, c) # {}
  PROVE  Comps!Similarity(s.subject, c) \in Scores
<1> DEFINE traits == Comps!Compared(s.subject, c)
           whole == Whole(s.subject, c)
           parts == Parts(s.subject, c)
           n == Cardinality(traits)
           sum == SumFunction(parts)
           all == n * whole
<1>1. IsFiniteSet(traits) /\ n \in Nat /\ n # 0
  BY ComparedTraits, FS_CardinalityType, FS_EmptySet
<1>2. whole \in Nat /\ whole > 0
  BY SpansDivide
<1>3. DOMAIN parts = traits /\ \A t \in traits : parts[t] \in 0 .. whole
  <2>1. \A t \in traits : Comps!Near(s.subject, c, t)
    BY DEF Comps!Matches
  <2> QED
    BY <2>1, PartsAreParts, PartsAreTyped
<1>4. Comps!Similarity(s.subject, c) = (20000 * sum + all) \div (2 * all)
  BY SimilarityIsMean
<1> HIDE DEF parts, whole, traits
<1>5. sum \in 0 .. all
  BY <1>1, <1>2, <1>3, SumIsBounded
<1> HIDE DEF n, sum
<1>6. all \in Nat /\ all > 0
  BY <1>1, <1>2
<1> HIDE DEF all
<1> DEFINE x == 20000 * sum + all
           y == 2 * all
           m == 10000
<1>7. Comps!Similarity(s.subject, c) = x \div y
  BY <1>4
<1>8. x \in Nat /\ y \in Nat /\ y > 0 /\ m \in Nat /\ x < (m + 1) * y
  BY <1>5, <1>6
<1> HIDE DEF x, y, m
<1>9. x \div y \in 0 .. m
  BY <1>8, QuotientIsBounded
<1>10. Scores = 0 .. m
  BY DEF m, Scores
<1> QED
  BY <1>7, <1>9, <1>10

\* What is at least as near in everything scores at least as much.
LEMMA NearerScoresMore ==
  ASSUME NEW s \in Selections, NEW c \in ToSet(s.candidates), NEW d \in ToSet(s.candidates),
         Comps!Matches(s.subject, c, Statuses), Comps!Matches(s.subject, d, Statuses),
         Comps!Compared(s.subject, c) # {}, Dominates(s.subject, c, d)
  PROVE  Comps!Similarity(s.subject, d) <= Comps!Similarity(s.subject, c)
<1> DEFINE traits == Comps!Compared(s.subject, c)
           whole == Whole(s.subject, c)
           near == Parts(s.subject, c)
           far == Parts(s.subject, d)
           n == Cardinality(traits)
           all == n * whole
<1>1. traits = Comps!Compared(s.subject, d) /\ whole = Whole(s.subject, d)
  BY DEF Dominates, Whole
<1>2. IsFiniteSet(traits) /\ n \in Nat /\ n # 0
  BY ComparedTraits, FS_CardinalityType, FS_EmptySet
<1>3. whole \in Nat /\ whole > 0
  BY SpansDivide
<1>4. /\ DOMAIN near = traits /\ DOMAIN far = traits
      /\ \A t \in traits : near[t] \in 0 .. whole /\ far[t] \in 0 .. whole
  <2>1. \A t \in traits : Comps!Near(s.subject, c, t) /\ Comps!Near(s.subject, d, t)
    BY <1>1 DEF Comps!Matches
  <2> QED
    BY <1>1, <2>1, PartsAreParts, PartsAreTyped
<1>5. ASSUME NEW t \in traits
      PROVE  far[t] <= near[t]
  <2> DEFINE span == Comps!Span(s.subject, t)
             u == span - Comps!Gap(s.subject, c, t)
             v == span - Comps!Gap(s.subject, d, t)
             w == whole \div span
  <2>1. /\ span \in Nat /\ Comps!Gap(s.subject, c, t) \in Nat /\ Comps!Gap(s.subject, d, t) \in Nat
        /\ Comps!Gap(s.subject, c, t) <= Comps!Gap(s.subject, d, t)
    BY <1>1, ComparedTraits DEF Dominates
  <2>2. u \in Int /\ v \in Int /\ v <= u
    BY <2>1
  <2>3. w \in Nat
    BY SpansDivide
  <2>4. near[t] = u * w /\ far[t] = v * w
    BY <1>1 DEF Parts
  <2> HIDE DEF u, v, w
  <2>5. v * w <= u * w
    BY <2>2, <2>3, ProductGrows
  <2> QED
    BY <2>4, <2>5
<1>6. /\ Comps!Similarity(s.subject, c) = (20000 * SumFunction(near) + all) \div (2 * all)
      /\ Comps!Similarity(s.subject, d) = (20000 * SumFunction(far) + all) \div (2 * all)
  BY <1>1, SimilarityIsMean
<1> HIDE DEF near, far, whole, traits
<1>7. SumFunction(near) \in Nat /\ SumFunction(far) \in Nat /\ SumFunction(far) <= SumFunction(near)
  <2>1. \A t \in traits : near[t] \in Int /\ far[t] \in Int /\ near[t] \in Nat /\ far[t] \in Nat
    BY <1>3, <1>4
  <2> QED
    BY <1>2, <1>4, <1>5, <2>1, SumGrows, SumIsNatural
<1> HIDE DEF n
<1>8. all \in Nat /\ all > 0
  BY <1>2, <1>3
<1> HIDE DEF all
<1> DEFINE x == 20000 * SumFunction(far) + all
           z == 20000 * SumFunction(near) + all
           y == 2 * all
<1>9. x \in Nat /\ z \in Nat /\ x <= z /\ y \in Nat /\ y > 0
  BY <1>7, <1>8
<1> HIDE DEF x, z, y
<1>10. x \div y <= z \div y
  BY <1>9, QuotientGrows
<1> QED
  BY <1>6, <1>10 DEF x, y, z

\* The mean of scores is a percentage.
LEMMA AverageIsBounded ==
  ASSUME NEW kept, IsFiniteSet(kept), NEW similarity, kept \subseteq DOMAIN similarity,
         \A i \in kept : similarity[i] \in Scores
  PROVE  Comps!AverageConfidence(similarity, kept) \in Percent
<1> DEFINE n == Cardinality(kept)
           f == [i \in kept |-> similarity[i]]
           sum == SumFunction(f)
<1>1. n \in Nat
  BY FS_CardinalityType
<1>2. Comps!AverageConfidence(similarity, kept) =
        IF n = 0 THEN 0 ELSE (2 * sum + 100 * n) \div (200 * n)
  <2>1. Comps!SumFunction(f) = sum
    BY SameSum
  <2>2. Comps!Cardinality(kept) = n
    BY SameCardinality
  <2> QED
    BY <2>1, <2>2 DEF Comps!AverageConfidence
<1>3. sum \in 0 .. n * 10000
  <2> DEFINE c == 10000
  <2>1. Scores = 0 .. c /\ c \in Nat
    BY DEF Scores
  <2> HIDE DEF c
  <2>2. DOMAIN f = kept /\ \A i \in DOMAIN f : f[i] \in 0 .. c
    BY <2>1
  <2> HIDE DEF f
  <2>3. SumFunction(f) \in 0 .. (Cardinality(DOMAIN f) * c)
    BY <2>1, <2>2, SumIsBounded
  <2> QED
    BY <2>2, <2>3 DEF c
<1> HIDE DEF n, sum
<1> DEFINE x == 2 * sum + 100 * n
           y == 200 * n
           m == 100
<1>4. n # 0 => x \in Nat /\ y \in Nat /\ y > 0 /\ m \in Nat /\ x < (m + 1) * y
  BY <1>1, <1>3
<1> HIDE DEF x, y, m
<1>5. n # 0 => x \div y \in 0 .. m
  BY <1>4, QuotientIsBounded
<1> QED
  BY <1>2, <1>5 DEF x, y, m, Percent

\* The best are kept: whatever precedes one that is left out precedes one that is kept.
LEMMA KeptAreBest ==
  ASSUME NEW matched, IsFiniteSet(matched), NEW similarity, matched \subseteq Nat,
         \A i \in matched : similarity[i] \in Nat,
         NEW kept,
         kept = {i \in matched :
                  Cardinality({j \in matched : \/ similarity[j] > similarity[i]
                                               \/ similarity[j] = similarity[i] /\ j < i}) < Limit},
         NEW k \in kept, NEW i \in matched \ kept
  PROVE  similarity[i] <= similarity[k]
<1> DEFINE Before(l) == {j \in matched : \/ similarity[j] > similarity[l]
                                         \/ similarity[j] = similarity[l] /\ j < l}
<1> SUFFICES ASSUME similarity[i] > similarity[k] PROVE FALSE
  OBVIOUS
<1>1. Before(i) \subseteq Before(k)
  <2>1. i \in matched /\ k \in matched
    OBVIOUS
  <2>2. similarity[i] \in Nat /\ similarity[k] \in Nat /\ \A j \in matched : similarity[j] \in Nat
    BY <2>1
  <2> SUFFICES ASSUME NEW j \in Before(i) PROVE similarity[j] > similarity[k]
    OBVIOUS
  <2>3. j \in matched /\ (similarity[j] > similarity[i] \/ similarity[j] = similarity[i])
    OBVIOUS
  <2> HIDE DEF Before
  <2> QED
    BY <2>2, <2>3
<1>2. Before(i) \subseteq matched /\ Before(k) \subseteq matched
  OBVIOUS
<1>3. Cardinality(Before(k)) < Limit /\ ~(Cardinality(Before(i)) < Limit)
  OBVIOUS
<1> HIDE DEF Before
<1>4. IsFiniteSet(Before(k)) /\ IsFiniteSet(Before(i))
  BY <1>2, FS_Subset
<1>5. Cardinality(Before(i)) <= Cardinality(Before(k))
  BY <1>1, <1>4, FS_Subset
<1>6. Cardinality(Before(i)) \in Nat /\ Cardinality(Before(k)) \in Nat
  BY <1>4, FS_CardinalityType
<1> QED
  BY <1>3, <1>5, <1>6, SelectionsAreTyped

\* A selection that does not raise: who is scored, how, and who is kept.
LEMMA SelectionShape ==
  ASSUME NEW s \in Selections,
         NEW selected, selected = Comps!FilterAndRank(s.subject, s.candidates, Statuses),
         selected # None
  PROVE  LET matched == Comps!Matched(s.subject, s.candidates, Statuses)
         IN  /\ matched \subseteq DOMAIN s.candidates
             /\ \A i \in matched : /\ Comps!Matches(s.subject, s.candidates[i], Statuses)
                                   /\ Comps!Compared(s.subject, s.candidates[i]) # {}
             /\ DOMAIN selected.similarity = matched
             /\ \A i \in matched : selected.similarity[i] = Comps!Similarity(s.subject, s.candidates[i])
             /\ selected.kept =
                  {i \in matched :
                    Cardinality({j \in matched :
                      \/ selected.similarity[j] > selected.similarity[i]
                      \/ selected.similarity[j] = selected.similarity[i] /\ j < i}) < Limit}
             /\ selected.confidence = Comps!AverageConfidence(selected.similarity, selected.kept)
<1> DEFINE matched == Comps!Matched(s.subject, s.candidates, Statuses)
           similarity == [i \in matched |-> Comps!Similarity(s.subject, s.candidates[i])]
           Before(j, i) == similarity[j] > similarity[i] \/ (similarity[j] = similarity[i] /\ j < i)
           kept == {i \in matched : Comps!Cardinality({j \in matched : Before(j, i)}) < Limit}
           confidence == Comps!AverageConfidence(similarity, kept)
<1>1. selected = IF \E i \in matched : Comps!Compared(s.subject, s.candidates[i]) = {} THEN None
                 ELSE [kept |-> kept, similarity |-> similarity, confidence |-> confidence]
  BY DEF Comps!FilterAndRank
<1>2. /\ matched \subseteq DOMAIN s.candidates
      /\ \A i \in matched : Comps!Matches(s.subject, s.candidates[i], Statuses)
  BY DEF Comps!Matched
<1>3. DOMAIN similarity = matched
      /\ \A i \in matched : similarity[i] = Comps!Similarity(s.subject, s.candidates[i])
  OBVIOUS
<1>4. \A i \in matched : Comps!Cardinality({j \in matched : Before(j, i)})
                          = Cardinality({j \in matched : Before(j, i)})
  BY SameCardinality
<1>5. kept = {i \in matched : Cardinality({j \in matched : Before(j, i)}) < Limit}
  BY <1>4
<1> HIDE DEF matched, similarity, kept, confidence
<1>6. /\ \A i \in matched : Comps!Compared(s.subject, s.candidates[i]) # {}
      /\ selected.similarity = similarity /\ selected.kept = kept /\ selected.confidence = confidence
  BY <1>1
<1>7. selected.kept =
        {i \in matched :
          Cardinality({j \in matched :
            \/ selected.similarity[j] > selected.similarity[i]
            \/ selected.similarity[j] = selected.similarity[i] /\ j < i}) < Limit}
  BY <1>5, <1>6
<1>8. confidence = Comps!AverageConfidence(similarity, kept)
  BY DEF confidence
<1> QED
  BY <1>2, <1>3, <1>6, <1>7, <1>8 DEF matched

\* The filters of the code let pass what is admissible, and nothing else.
LEMMA FiltersAdmit ==
  ASSUME NEW s \in Selections, NEW c \in ToSet(s.candidates)
  PROVE  Comps!Matches(s.subject, c, Statuses) <=> Admissible(s.subject, c)
<1> DEFINE known == {t \in Comps!Traits : s.subject[t] # None /\ c[t] # None}
           compared == Comps!Compared(s.subject, c)
           Fits(t) == \/ t # "square_feet" /\ Comps!Gap(s.subject, c, t) <= Tolerance[t]
                      \/ t = "square_feet" /\ (s.subject[t] = 0 \/ 4 * Comps!Gap(s.subject, c, t) <= s.subject[t])
<1>1. Comps!Wanted(c, Statuses) <=> (c.age = None \/ c.age <= 365) /\ c.status \in Statuses \cup {None}
  BY DEF Comps!Wanted, Comps!SoldWithinDays
<1>2. compared = {t \in known : t = "square_feet" => s.subject[t] # 0}
  <2>1. \A t \in known : s.subject[t] \in Nat
    BY SelectionsAreTyped
  <2>2. \A t \in known : Comps!Span(s.subject, t) > 0 <=> (t = "square_feet" => s.subject[t] # 0)
    BY <2>1 DEF Comps!Traits, Comps!Span, Comps!MaxDistance, Comps!MaxYearBuiltDelta
  <2> QED
    BY <2>2 DEF Comps!Compared
<1>3. \A t \in compared : Comps!Near(s.subject, c, t) <=> Fits(t)
  <2> SUFFICES ASSUME NEW t \in compared PROVE Comps!Near(s.subject, c, t) <=> Fits(t)
    OBVIOUS
  <2>1. t \in known /\ (t = "square_feet" => s.subject[t] # 0)
    BY <1>2
  <2>2. t \in {"distance", "square_feet", "bedrooms", "bathrooms", "year_built"}
    BY <2>1 DEF Comps!Traits
  <2> DEFINE gap == Comps!Gap(s.subject, c, t)
  <2> HIDE DEF compared, known, gap
  <2>3. CASE t = "square_feet"
    BY <2>1, <2>3 DEF Comps!Near, gap
  <2>4. CASE t # "square_feet"
    <3> DEFINE limit == CASE t = "distance" -> 5 [] t = "bedrooms" -> 1
                         [] t = "bathrooms" -> 1 [] t = "year_built" -> 20
    <3>1. Comps!Near(s.subject, c, t) <=> gap <= limit
      BY <2>2, <2>4 DEF Comps!Near, Comps!MaxDistance, Comps!MaxBedroomDelta,
                        Comps!MaxBathroomDelta, Comps!MaxYearBuiltDelta, gap
    <3>2. Tolerance[t] = limit
      BY <2>2, <2>4 DEF Tolerance
    <3> HIDE DEF limit
    <3> QED
      BY <2>4, <3>1, <3>2 DEF gap
  <2> QED
    BY <2>3, <2>4
<1>4. \A t \in known \ compared : Fits(t)
  BY <1>2
<1>5. compared \subseteq known
  BY <1>2
<1>6. Admissible(s.subject, c) <=>
        /\ (c.age = None \/ c.age <= 365) /\ c.status \in Statuses \cup {None}
        /\ \A t \in known : Fits(t)
  BY DEF Admissible
<1> HIDE DEF known, compared, Fits
<1> QED
  BY <1>1, <1>3, <1>4, <1>5, <1>6 DEF Comps!Matches, compared

LEMMA ScoresAreNatural == Scores \subseteq Nat
BY DEF Scores

\* Ranking by similarity and cutting keeps what is nearest.
LEMMA SelectionIsBest == ReviewInv => BestComparablesAreKept
<1> SUFFICES ASSUME ReviewInv, selection # None, selection.selected # None
             PROVE  BestComparablesAreKept
  BY DEF BestComparablesAreKept
<1> DEFINE all == selection.candidates
           best == selection.selected
           matched == Comps!Matched(selection.subject, selection.candidates, Statuses)
           admissible == {i \in DOMAIN all : Admissible(selection.subject, all[i])}
<1>1. PICK s \in Selections :
        selection = [subject |-> s.subject, candidates |-> s.candidates,
                     selected |-> Comps!FilterAndRank(s.subject, s.candidates, Statuses)]
  BY DEF ReviewInv, Selected
<1>2. /\ selection.subject = s.subject /\ all = s.candidates
      /\ best = Comps!FilterAndRank(s.subject, s.candidates, Statuses)
  BY <1>1
<1> HIDE DEF all, best
<1>3. /\ matched = admissible /\ matched \subseteq DOMAIN all
      /\ \A i \in matched : /\ Comps!Matches(s.subject, all[i], Statuses)
                            /\ Comps!Compared(s.subject, all[i]) # {}
      /\ DOMAIN best.similarity = matched
      /\ \A i \in matched : best.similarity[i] = Comps!Similarity(s.subject, all[i])
      /\ best.kept =
           {i \in matched :
             Cardinality({j \in matched :
               \/ best.similarity[j] > best.similarity[i]
               \/ best.similarity[j] = best.similarity[i] /\ j < i}) < Limit}
      /\ best.confidence = Comps!AverageConfidence(best.similarity, best.kept)
  <2>1. \A i \in DOMAIN s.candidates : s.candidates[i] \in ToSet(s.candidates)
    BY DEF ToSet
  <2>2. matched = {i \in DOMAIN s.candidates : Comps!Matches(s.subject, s.candidates[i], Statuses)}
    BY <1>2 DEF Comps!Matched, all
  <2>3. matched = admissible
    BY <1>2, <2>1, <2>2, FiltersAdmit
  <2> HIDE DEF admissible
  <2> QED
    BY <1>2, <2>3, SelectionShape DEF best, all
<1> HIDE DEF matched, admissible
<1>4. DOMAIN all = 1 .. Len(all) /\ Len(all) \in Nat
  BY <1>2, SelectionsAreTyped
<1>5. IsFiniteSet(matched) /\ matched \subseteq Nat
  <2>1. IsFiniteSet(1 .. Len(all))
    BY <1>4, FS_Interval
  <2> QED
    BY <1>3, <1>4, <2>1, FS_Subset
<1>6. \A i \in matched : all[i] \in ToSet(s.candidates)
  BY <1>2, <1>3 DEF ToSet
<1>7. \A i \in matched : best.similarity[i] \in Scores
  <2> SUFFICES ASSUME NEW i \in matched PROVE best.similarity[i] \in Scores
    OBVIOUS
  <2>1. /\ Comps!Matches(s.subject, all[i], Statuses)
        /\ Comps!Compared(s.subject, all[i]) # {}
        /\ best.similarity[i] = Comps!Similarity(s.subject, all[i])
    BY <1>3
  <2>2. Comps!Similarity(s.subject, all[i]) \in Scores
    BY <1>6, <2>1, SimilarityIsBounded
  <2> QED
    BY <2>1, <2>2
<1>8. best.kept \subseteq matched
  BY <1>3
<1>9. ASSUME NEW k \in best.kept, NEW i \in admissible \ best.kept,
             Dominates(selection.subject, all[i], all[k])
      PROVE  best.similarity[i] = best.similarity[k]
  <2>1. k \in matched /\ i \in matched \ best.kept
    BY <1>3, <1>8
  <2>2. Comps!Similarity(s.subject, all[k]) <= Comps!Similarity(s.subject, all[i])
    BY <1>2, <1>3, <1>6, <1>9, <2>1, NearerScoresMore
  <2>3. \A l \in matched : best.similarity[l] \in Nat
    BY <1>7, ScoresAreNatural
  <2>4. best.similarity[i] <= best.similarity[k]
    BY <1>3, <1>5, <1>9, <2>1, <2>3, KeptAreBest
  <2>5. best.similarity[k] <= best.similarity[i]
    BY <1>3, <2>1, <2>2
  <2> QED
    BY <2>1, <2>3, <2>4, <2>5
<1>10. \A k \in best.kept :
         k \in admissible /\ best.similarity[k] \in Scores
  BY <1>3, <1>7, <1>8
<1>11. best.confidence \in Percent
  <2>1. IsFiniteSet(best.kept)
    BY <1>5, <1>8, FS_Subset
  <2>2. best.kept \subseteq DOMAIN best.similarity /\ \A i \in best.kept : best.similarity[i] \in Scores
    BY <1>3, <1>7, <1>8
  <2>3. Comps!AverageConfidence(best.similarity, best.kept) \in Percent
    BY <2>1, <2>2, AverageIsBounded
  <2> QED
    BY <1>3, <2>3
<1> QED
  BY <1>9, <1>10, <1>11 DEF BestComparablesAreKept, all, best, admissible

\* The comparables a value rests on are the best of those found: none that passes the filters is
\* left out for one that is no nearer in anything, none that the filters exclude is kept, and
\* scores are confidences, whatever the subject, the candidates and the limit. (filter_and_rank_sales_comps,
\* filter_and_rank_rental_comps)
THEOREM ComparablesAreBest == Spec => []BestComparablesAreKept
BY ReviewIsSound, SelectionIsBest, PTL

-----------------------------------------------------------------------------
(* Evidence. *)

\* Every citation is in the list of its source, and nowhere else; the sources that were made up
\* for citations are numbered in turn.
Indexed(index) ==
  /\ {"sources", "citations"} \subseteq DOMAIN index
  /\ IsFiniteSet(DOMAIN index.sources) /\ IsFiniteSet(DOMAIN index.citations)
  /\ \A c \in DOMAIN index.citations :
       LET s == index.citations[c]
       IN  s \in DOMAIN index.sources /\ c[1] = s /\ c \in index.sources[s].citations
  /\ \A s \in DOMAIN index.sources :
       /\ "citations" \in DOMAIN index.sources[s]
       /\ \A c \in index.sources[s].citations : c \in DOMAIN index.citations /\ c[1] = s
       /\ s[1] = "citation_source" => s[2] \in Nat /\ s[2] < Cardinality(DOMAIN index.sources)

\* New ids, of which those made for citations have a number that is free.
Fresh(index, ids) ==
  /\ IsFiniteSet(ids) /\ ids \cap DOMAIN index.sources = {}
  /\ \A s \in ids : s[1] = "citation_source" =>
       s[2] \in Nat /\ s[2] < Cardinality(DOMAIN index.sources \cup ids)

\* New sources have no citations yet.
LEMMA RegisterIndexes ==
  ASSUME NEW index, Indexed(index), NEW kind, NEW ids, Fresh(index, ids),
         NEW made, made = Register(index, ids, kind)
  PROVE  /\ Indexed(made)
         /\ DOMAIN made.sources = DOMAIN index.sources \cup ids
         /\ made.citations = index.citations
<1> DEFINE old == DOMAIN index.sources
           all == old \cup ids
<1>1. /\ "sources" \in DOMAIN index /\ "citations" \in DOMAIN index
      /\ IsFiniteSet(old) /\ IsFiniteSet(DOMAIN index.citations)
  BY DEF Indexed
<1>2. /\ DOMAIN made = DOMAIN index /\ made.citations = index.citations
      /\ made.sources = [id \in all |-> IF id \in ids THEN [kind |-> kind, citations |-> {}]
                                        ELSE index.sources[id]]
  BY <1>1 DEF Register
<1>3. /\ DOMAIN made.sources = all
      /\ \A s \in old \ ids : made.sources[s] = index.sources[s]
      /\ \A s \in ids : "citations" \in DOMAIN made.sources[s] /\ made.sources[s].citations = {}
  BY <1>2
<1>4. /\ IsFiniteSet(ids) /\ ids \cap old = {}
      /\ \A s \in ids : s[1] = "citation_source" => s[2] \in Nat /\ s[2] < Cardinality(all)
  BY DEF Fresh
<1>5. IsFiniteSet(all) /\ Cardinality(old) \in Nat /\ Cardinality(all) \in Nat
      /\ Cardinality(old) <= Cardinality(all)
  BY <1>4, <1>1, FS_Union, FS_Subset, FS_CardinalityType
<1>6. ASSUME NEW c \in DOMAIN made.citations
      PROVE  LET s == made.citations[c]
             IN  s \in DOMAIN made.sources /\ c[1] = s /\ c \in made.sources[s].citations
  BY <1>4, <1>2, <1>3 DEF Indexed
<1>7. ASSUME NEW s \in all
      PROVE  /\ "citations" \in DOMAIN made.sources[s]
             /\ \A c \in made.sources[s].citations : c \in DOMAIN made.citations /\ c[1] = s
             /\ s[1] = "citation_source" => s[2] \in Nat /\ s[2] < Cardinality(all)
  <2>1. CASE s \in ids
    BY <1>4, <1>3, <2>1
  <2>2. CASE s \in old \ ids
    <3>1. /\ "citations" \in DOMAIN index.sources[s]
          /\ \A c \in index.sources[s].citations : c \in DOMAIN index.citations /\ c[1] = s
          /\ s[1] = "citation_source" => s[2] \in Nat /\ s[2] < Cardinality(old)
      BY <2>2 DEF Indexed
    <3>2. s[1] = "citation_source" => s[2] \in Nat /\ s[2] < Cardinality(all)
      BY <1>5, <3>1
    <3> QED
      BY <1>2, <1>3, <2>2, <3>1, <3>2
  <2> QED
    BY <2>1, <2>2
<1> HIDE DEF all, old
<1>8. Indexed(made)
  BY <1>1, <1>2, <1>3, <1>5, <1>6, <1>7 DEF Indexed
<1> QED
  BY <1>2, <1>3, <1>8 DEF all, old

Attach(index, citation, id) ==
  [index EXCEPT !.citations = Put(@, citation, id), !.sources[id].citations = @ \cup {citation}]

\* A new citation of a source that is there.
LEMMA CitationIndexes ==
  ASSUME NEW index, Indexed(index), NEW id \in DOMAIN index.sources,
         NEW citation, citation[1] = id, citation \notin DOMAIN index.citations,
         NEW made, made = Attach(index, citation, id)
  PROVE  /\ Indexed(made)
         /\ DOMAIN made.sources = DOMAIN index.sources
         /\ DOMAIN made.citations = DOMAIN index.citations \cup {citation}
         /\ Cardinality(DOMAIN made.citations) = Cardinality(DOMAIN index.citations) + 1
<1>1. /\ "sources" \in DOMAIN index /\ "citations" \in DOMAIN index
      /\ IsFiniteSet(DOMAIN index.sources) /\ IsFiniteSet(DOMAIN index.citations)
      /\ "citations" \in DOMAIN index.sources[id]
  BY DEF Indexed
<1>2. /\ DOMAIN made = DOMAIN index
      /\ made.citations = Put(index.citations, citation, id)
      /\ made.sources = [index.sources EXCEPT ![id].citations = @ \cup {citation}]
  BY <1>1 DEF Attach
<1>3. /\ DOMAIN made.sources = DOMAIN index.sources
      /\ \A s \in DOMAIN index.sources :
           /\ DOMAIN made.sources[s] = DOMAIN index.sources[s]
           /\ made.sources[s].citations =
                IF s = id THEN index.sources[s].citations \cup {citation} ELSE index.sources[s].citations
  BY <1>1, <1>2
<1>4. /\ DOMAIN made.citations = DOMAIN index.citations \cup {citation}
      /\ made.citations[citation] = id
      /\ \A c \in DOMAIN index.citations : made.citations[c] = index.citations[c]
  BY <1>2 DEF Put
<1>5. /\ IsFiniteSet(DOMAIN made.citations)
      /\ Cardinality(DOMAIN made.citations) = Cardinality(DOMAIN index.citations) + 1
  BY <1>1, <1>4, FS_AddElement
<1>6. ASSUME NEW c \in DOMAIN made.citations
      PROVE  LET s == made.citations[c]
             IN  s \in DOMAIN made.sources /\ c[1] = s /\ c \in made.sources[s].citations
  <2>1. CASE c = citation
    BY <1>3, <1>4, <2>1
  <2>2. CASE c \in DOMAIN index.citations
    <3>1. LET s == index.citations[c]
          IN  s \in DOMAIN index.sources /\ c[1] = s /\ c \in index.sources[s].citations
      BY <2>2 DEF Indexed
    <3> QED
      BY <1>3, <1>4, <2>2, <3>1
  <2> QED
    BY <1>4, <2>1, <2>2
<1>7. ASSUME NEW s \in DOMAIN made.sources
      PROVE  /\ "citations" \in DOMAIN made.sources[s]
             /\ \A c \in made.sources[s].citations : c \in DOMAIN made.citations /\ c[1] = s
             /\ s[1] = "citation_source" => s[2] \in Nat /\ s[2] < Cardinality(DOMAIN made.sources)
  <2>1. /\ "citations" \in DOMAIN index.sources[s]
        /\ \A c \in index.sources[s].citations : c \in DOMAIN index.citations /\ c[1] = s
        /\ s[1] = "citation_source" => s[2] \in Nat /\ s[2] < Cardinality(DOMAIN index.sources)
    BY <1>3 DEF Indexed
  <2>2. CASE s = id
    <3>1. made.sources[s].citations = index.sources[s].citations \cup {citation}
      BY <1>3, <2>2
    <3> QED
      BY <1>3, <1>4, <2>1, <2>2, <3>1
  <2>3. CASE s # id
    <3>1. made.sources[s].citations = index.sources[s].citations
      BY <1>3, <2>3
    <3> QED
      BY <1>3, <1>4, <2>1, <3>1
  <2> QED
    BY <2>2, <2>3
<1>8. Indexed(made)
  BY <1>1, <1>2, <1>3, <1>5, <1>6, <1>7 DEF Indexed
<1> QED
  BY <1>3, <1>4, <1>5, <1>8

\* A set of numbers up to n has a largest one.
LEMMA LargestNumber ==
  ASSUME NEW n \in Nat, NEW S \in SUBSET (1 .. n), S # {}
  PROVE  \E m \in S : \A k \in S : k <= m
<1> DEFINE T == {n - k : k \in S}
<1>1. T \subseteq Nat /\ T # {}
  <2>1. \A k \in S : n - k \in Nat
    OBVIOUS
  <2>2. \A k \in S : n - k \in T
    OBVIOUS
  <2>3. T \subseteq Nat
    BY <2>1
  <2> HIDE DEF T
  <2> QED
    BY <2>2, <2>3
<1>2. PICK l \in T : \A k \in T : l <= k
  <2> HIDE DEF T
  <2> QED
    BY <1>1, LeastNumber
<1>3. PICK m \in S : l = n - m
  BY <1>2
<1>4. \A k \in S : n - m <= n - k
  BY <1>2, <1>3
<1> QED
  BY <1>3, <1>4

\* A source is found by the key of a citation without a note.
LEMMA SourceIsOfKey ==
  ASSUME NEW domain, NEW result, Citable(result), NEW citation, citation.noted \in BOOLEAN,
         SourceOf(domain, result, citation) # None
  PROVE  \E i \in DOMAIN result.sources :
           /\ SourceOf(domain, result, citation) = <<domain, i>>
           /\ result.sources[i] = citation.key /\ ~citation.noted
<1> DEFINE of == {i \in DOMAIN result.sources : result.sources[i] = citation.key}
           i0 == CHOOSE i \in of : \A j \in of : j <= i
<1>1. ~citation.noted /\ of # {} /\ SourceOf(domain, result, citation) = <<domain, i0>>
  BY DEF SourceOf
<1>2. DOMAIN result.sources = 1 .. Len(result.sources) /\ Len(result.sources) \in Nat
  BY DEF Citable
<1>3. of \in SUBSET (1 .. Len(result.sources))
  BY <1>2
<1> HIDE DEF of
<1>4. \E i \in of : \A j \in of : j <= i
  BY <1>1, <1>2, <1>3, LargestNumber
<1>5. i0 \in of
  BY <1>4
<1> HIDE DEF i0
<1> QED
  BY <1>1, <1>5 DEF of

\* Equal citations are told apart by how often they came before.
LEMMA TimesDiffer ==
  ASSUME NEW A, NEW citations \in Seq(A), NEW n \in 1 .. Len(citations), NEW k \in 1 .. n - 1,
         citations[k] = citations[n]
  PROVE  Times(citations, k) # Times(citations, n)
<1> DEFINE early == {i \in 1 .. k - 1 : citations[i] = citations[k]}
           late == {i \in 1 .. n - 1 : citations[i] = citations[n]}
<1>1. early \subseteq late /\ k \in late /\ k \notin early
  OBVIOUS
<1>2. IsFiniteSet(late)
  <2>1. IsFiniteSet(1 .. n - 1)
    BY FS_Interval
  <2> QED
    BY <2>1, FS_Subset
<1> HIDE DEF early, late
<1>3. IsFiniteSet(early) /\ Cardinality(early) <= Cardinality(late) /\ early # late
  BY <1>1, <1>2, FS_Subset
<1>4. Cardinality(early) # Cardinality(late)
  BY <1>1, <1>2, <1>3, FS_Subset
<1> QED
  BY <1>4 DEF Times, early, late

\* The sources of a result, and what they are labelled.
SourcesOf(domain, result) == {<<domain, i>> : i \in DOMAIN result.sources}

\* After n citations of a result: each is there, and those of its own sources are numbered.
Citing(index, base, domain, result, n) ==
  /\ Indexed(index)
  /\ SourcesOf(domain, result) \subseteq DOMAIN index.sources
  /\ Cardinality(DOMAIN index.citations) = base + n
  /\ \A c \in DOMAIN index.citations :
       c[1][1] = domain =>
         \E k \in 1 .. n :
           /\ SourceOf(domain, result, result.citations[k]) # None
           /\ c[1] = SourceOf(domain, result, result.citations[k])
           /\ c[2] = Times(result.citations, k)

\* No source is labelled with one of these.
Lack(index, labels) == \A s \in DOMAIN index.sources : s[1] \notin labels

\* One more citation: it is new, whether its source was found or made up for it.
LEMMA CiteKeeps ==
  ASSUME NEW domain \in Domains, NEW result, Citable(result), NEW base \in Nat,
         NEW n \in Nat, n + 1 \in DOMAIN result.citations,
         NEW index, Citing(index, base, domain, result, n),
         NEW labels \in SUBSET Domains, Lack(index, labels),
         NEW made, made = Cite(index, domain, result, n + 1)
  PROVE  Citing(made, base, domain, result, n + 1) /\ Lack(made, labels)
<1> DEFINE citation == result.citations[n + 1]
           found == SourceOf(domain, result, citation)
           times == Times(result.citations, n + 1)
           id == IF found = None THEN <<"citation_source", Cardinality(DOMAIN index.sources)>> ELSE found
           sourced == IF found = None THEN Register(index, {id}, "citation_only") ELSE index
           c == <<id, times>>
<1>1. made = Attach(sourced, c, id)
  BY DEF Cite, Attach
<1>2. domain # "citation_source" /\ "citation_source" \notin labels
  BY DEF Domains
<1>3. \A k \in DOMAIN result.citations :
        /\ result.citations[k] \in [key : {l.key : l \in ToSet(result.citations)}, noted : BOOLEAN]
        /\ result.citations[k].noted \in BOOLEAN
  <2> DEFINE seq == result.citations
             K == [key : {l.key : l \in ToSet(result.citations)}, noted : BOOLEAN]
  <2>1. seq \in Seq(K)
    BY DEF Citable
  <2>2. \A l \in K : l.noted \in BOOLEAN
    OBVIOUS
  <2> HIDE DEF seq, K
  <2>3. \A k \in DOMAIN seq : seq[k] \in K
    BY <2>1
  <2> QED
    BY <2>2, <2>3 DEF seq, K
<1>4. /\ IsFiniteSet(DOMAIN index.sources) /\ Cardinality(DOMAIN index.sources) \in Nat
      /\ IsFiniteSet(DOMAIN index.citations) /\ Indexed(index)
  BY FS_CardinalityType DEF Citing, Indexed
<1>5. c[1] = id /\ c[2] = times
  OBVIOUS
<1>6. CASE found = None
  <2>1. id = <<"citation_source", Cardinality(DOMAIN index.sources)>>
        /\ id[1] = "citation_source" /\ id[2] = Cardinality(DOMAIN index.sources)
        /\ sourced = Register(index, {id}, "citation_only")
    BY <1>6
  <2>2. id \notin DOMAIN index.sources
    BY <1>4, <2>1 DEF Indexed
  <2> HIDE DEF id, sourced, c
  <2>3. /\ IsFiniteSet({id}) /\ {id} \cap DOMAIN index.sources = {}
        /\ Cardinality(DOMAIN index.sources \cup {id}) = Cardinality(DOMAIN index.sources) + 1
    <3> DEFINE S == DOMAIN index.sources
    <3>1. IsFiniteSet(S) /\ id \notin S
      BY <1>4, <2>2
    <3> HIDE DEF S
    <3>2. Cardinality(S \cup {id}) = Cardinality(S) + 1
      BY <3>1, FS_AddElement
    <3>3. IsFiniteSet({id})
      BY FS_Singleton
    <3> QED
      BY <3>1, <3>2, <3>3 DEF S
  <2>4. /\ Indexed(sourced) /\ DOMAIN sourced.sources = DOMAIN index.sources \cup {id}
        /\ sourced.citations = index.citations
    <3> DEFINE ids == {id}
               kind == "citation_only"
    <3>1. Fresh(index, ids) /\ sourced = Register(index, ids, kind)
      BY <1>4, <2>1, <2>3 DEF Fresh
    <3> HIDE DEF ids, kind
    <3>2. /\ Indexed(sourced) /\ DOMAIN sourced.sources = DOMAIN index.sources \cup ids
          /\ sourced.citations = index.citations
      BY <1>4, <3>1, RegisterIndexes
    <3> QED
      BY <3>2 DEF ids
  <2>5. c \notin DOMAIN sourced.citations
    BY <1>4, <1>5, <2>2, <2>4 DEF Indexed
  <2>6. /\ Indexed(made) /\ DOMAIN made.sources = DOMAIN sourced.sources
        /\ DOMAIN made.citations = DOMAIN sourced.citations \cup {c}
        /\ Cardinality(DOMAIN made.citations) = Cardinality(DOMAIN sourced.citations) + 1
    BY <1>1, <1>5, <2>4, <2>5, CitationIndexes
  <2>7. Lack(made, labels)
    BY <1>2, <2>1, <2>4, <2>6 DEF Lack
  <2>8. Cardinality(DOMAIN made.citations) = base + (n + 1)
    BY <2>4, <2>6 DEF Citing
  <2>9. SourcesOf(domain, result) \subseteq DOMAIN made.sources
    BY <2>4, <2>6 DEF Citing
  <2>10. ASSUME NEW d \in DOMAIN made.citations, d[1][1] = domain
         PROVE  \E k \in 1 .. n + 1 :
                  /\ SourceOf(domain, result, result.citations[k]) # None
                  /\ d[1] = SourceOf(domain, result, result.citations[k])
                  /\ d[2] = Times(result.citations, k)
    <3>1. d \in DOMAIN index.citations
      BY <1>2, <1>5, <2>1, <2>4, <2>6, <2>10
    <3> QED
      BY <2>10, <3>1 DEF Citing
  <2> QED
    BY <2>6, <2>7, <2>8, <2>9, <2>10 DEF Citing
<1>7. CASE found # None
  <2>1. id = found /\ sourced = index
    BY <1>7
  <2>2. PICK i \in DOMAIN result.sources :
          found = <<domain, i>> /\ result.sources[i] = citation.key /\ ~citation.noted
    BY <1>3, <1>7, SourceIsOfKey
  <2>3. id \in DOMAIN index.sources /\ id[1] = domain
    BY <2>1, <2>2 DEF Citing, SourcesOf
  <2>4. c \notin DOMAIN index.citations
    <3> SUFFICES ASSUME c \in DOMAIN index.citations PROVE FALSE
      OBVIOUS
    <3>1. PICK k \in 1 .. n : /\ SourceOf(domain, result, result.citations[k]) # None
                              /\ c[1] = SourceOf(domain, result, result.citations[k])
                              /\ c[2] = Times(result.citations, k)
      BY <1>5, <2>3 DEF Citing
    <3>2. k \in DOMAIN result.citations /\ k \in 1 .. (n + 1) - 1 /\ n + 1 \in 1 .. Len(result.citations)
      BY DEF Citable
    <3>3. PICK j \in DOMAIN result.sources :
            /\ SourceOf(domain, result, result.citations[k]) = <<domain, j>>
            /\ result.sources[j] = result.citations[k].key /\ ~result.citations[k].noted
      BY <1>3, <3>1, <3>2, SourceIsOfKey
    <3>4. j = i
      BY <1>5, <2>1, <2>2, <3>1, <3>3
    <3>5. result.citations[k] = result.citations[n + 1]
      BY <1>3, <2>2, <3>2, <3>3, <3>4
    <3> DEFINE K == [key : {l.key : l \in ToSet(result.citations)}, noted : BOOLEAN]
    <3>6. result.citations \in Seq(K)
      BY DEF Citable
    <3> HIDE DEF K
    <3>7. Times(result.citations, k) # Times(result.citations, n + 1)
      BY <3>2, <3>5, <3>6, TimesDiffer
    <3> QED
      BY <1>5, <3>1, <3>7
  <2>5. /\ Indexed(made) /\ DOMAIN made.sources = DOMAIN index.sources
        /\ DOMAIN made.citations = DOMAIN index.citations \cup {c}
        /\ Cardinality(DOMAIN made.citations) = Cardinality(DOMAIN index.citations) + 1
    <3>1. made = Attach(index, c, id)
      BY <1>1, <2>1
    <3> HIDE DEF id, sourced, c
    <3> QED
      BY <1>4, <1>5, <2>3, <2>4, <3>1, CitationIndexes
  <2> HIDE DEF c
  <2>6. Lack(made, labels)
    BY <2>5 DEF Lack
  <2>7. Cardinality(DOMAIN made.citations) = base + (n + 1)
    BY <2>5 DEF Citing
  <2>8. SourcesOf(domain, result) \subseteq DOMAIN made.sources
    BY <2>5 DEF Citing
  <2>9. ASSUME NEW d \in DOMAIN made.citations, d[1][1] = domain
        PROVE  \E k \in 1 .. n + 1 :
                 /\ SourceOf(domain, result, result.citations[k]) # None
                 /\ d[1] = SourceOf(domain, result, result.citations[k])
                 /\ d[2] = Times(result.citations, k)
    <3>1. CASE d = c
      BY <1>5, <1>7, <2>1, <3>1
    <3>2. CASE d \in DOMAIN index.citations
      BY <2>9, <3>2 DEF Citing
    <3> QED
      BY <2>5, <3>1, <3>2
  <2> QED
    BY <2>5, <2>6, <2>7, <2>8, <2>9 DEF Citing
<1> QED
  BY <1>6, <1>7

\* F has the index after each of the first citations.
Research(index, domain, result, F) ==
  F = [n \in 0 .. Len(result.citations) |->
        IF n = 0 THEN Register(index, SourcesOf(domain, result), "research")
        ELSE Cite(F[n - 1], domain, result, n)]

\* The function by which a domain is indexed is there.
LEMMA ResearchExists ==
  ASSUME NEW index, NEW domain, NEW result, Len(result.citations) \in Nat
  PROVE  \E F : Research(index, domain, result, F)
                /\ IndexResearch(index, domain, result) = F[Len(result.citations)]
<1> DEFINE L == Len(result.citations)
           Step(F, n) == IF n = 0 THEN Register(index, SourcesOf(domain, result), "research")
                         ELSE Cite(F[n - 1], domain, result, n)
           Good(F, m) == \A n \in 0 .. L : n <= m => F[n] = Step(F, n)
           N == {m \in Nat : \E F : Good(F, m)}
<1>1. ASSUME NEW F, NEW m \in Nat, Good(F, m)
      PROVE  Good([n \in 0 .. L |-> Step(F, n)], m + 1)
  <2> DEFINE G == [n \in 0 .. L |-> Step(F, n)]
  <2> SUFFICES ASSUME NEW n \in 0 .. L, n <= m + 1
               PROVE  G[n] = Step(G, n)
    OBVIOUS
  <2>1. CASE n = 0
    BY <2>1
  <2>2. CASE n # 0
    <3>1. n - 1 \in 0 .. L /\ n - 1 <= m
      BY <2>2
    <3>2. F[n - 1] = Step(F, n - 1)
      BY <1>1, <3>1
    <3>3. G[n - 1] = Step(F, n - 1)
      BY <3>1
    <3>4. G[n] = Cite(F[n - 1], domain, result, n)
      BY <2>2
    <3>5. G[n - 1] = F[n - 1]
      BY <3>2, <3>3
    <3> HIDE DEF G
    <3> QED
      BY <2>2, <3>4, <3>5
  <2> QED
    BY <2>1, <2>2
<1>2. 0 \in N
  <2>1. Good([n \in 0 .. L |-> Register(index, SourcesOf(domain, result), "research")], 0)
    OBVIOUS
  <2> QED
    BY <2>1
<1>3. ASSUME NEW m \in Nat, m \in N
      PROVE  m + 1 \in N
  <2>1. PICK F : Good(F, m)
    BY <1>3
  <2>2. Good([n \in 0 .. L |-> Step(F, n)], m + 1)
    BY <1>1, <2>1
  <2> HIDE DEF Good
  <2> QED
    BY <2>2
<1>4. Nat \subseteq N
  <2> HIDE DEF N
  <2> QED
    BY <1>2, <1>3, Induction
<1>5. PICK F : Good(F, L)
  BY <1>4
<1> DEFINE G == [n \in 0 .. L |-> F[n]]
<1>6. Research(index, domain, result, G)
  <2>1. \A n \in 0 .. L : G[n] = Step(G, n)
    <3> SUFFICES ASSUME NEW n \in 0 .. L PROVE G[n] = Step(G, n)
      OBVIOUS
    <3>1. F[n] = Step(F, n)
      BY <1>5
    <3>2. CASE n = 0
      BY <3>1, <3>2
    <3>3. CASE n # 0
      <4>1. n - 1 \in 0 .. L
        BY <3>3
      <4>2. G[n - 1] = F[n - 1]
        BY <4>1
      <4>3. G[n] = Cite(F[n - 1], domain, result, n)
        BY <3>1, <3>3
      <4> HIDE DEF G
      <4> QED
        BY <3>3, <4>2, <4>3
    <3> QED
      BY <3>2, <3>3
  <2>2. G = [n \in 0 .. L |-> Step(G, n)]
    BY <2>1
  <2> QED
    BY <2>2 DEF Research
<1> HIDE DEF G
<1>7. Research(index, domain, result, CHOOSE H : Research(index, domain, result, H))
  BY <1>6
<1>8. IndexResearch(index, domain, result) = (CHOOSE H : Research(index, domain, result, H))[L]
  BY DEF IndexResearch, Research, SourcesOf
<1> QED
  BY <1>7, <1>8

\* The research of a domain adds each of its citations.
LEMMA ResearchIsIndexed ==
  ASSUME NEW domain \in Domains, NEW result, Citable(result),
         NEW index, Indexed(index), Lack(index, {domain}),
         NEW labels \in SUBSET Domains, domain \notin labels, Lack(index, labels),
         NEW made, made = IndexResearch(index, domain, result)
  PROVE  /\ Indexed(made) /\ Lack(made, labels)
         /\ Cardinality(DOMAIN made.citations)
              = Cardinality(DOMAIN index.citations) + Len(result.citations)
<1> DEFINE L == Len(result.citations)
           base == Cardinality(DOMAIN index.citations)
           ids == SourcesOf(domain, result)
           kind == "research"
<1>1. L \in Nat /\ DOMAIN result.citations = 1 .. L
      /\ DOMAIN result.sources = 1 .. Len(result.sources) /\ Len(result.sources) \in Nat
  BY DEF Citable
<1>2. PICK F : Research(index, domain, result, F) /\ made = F[L]
  BY <1>1, ResearchExists
<1>3. F[0] = Register(index, ids, kind)
      /\ \A n \in 0 .. L : n # 0 => F[n] = Cite(F[n - 1], domain, result, n)
  BY <1>1, <1>2 DEF Research
<1>4. domain # "citation_source" /\ "citation_source" \notin labels
  BY DEF Domains
<1>5. IsFiniteSet(ids)
  <2> DEFINE S == DOMAIN result.sources
             f == [i \in S |-> <<domain, i>>]
  <2>1. IsFiniteSet(S)
    BY <1>1, FS_Interval
  <2>2. f \in [S -> ids] /\ \A x \in ids : \E i \in S : f[i] = x
    BY DEF SourcesOf
  <2>3. f \in Surjection(S, ids)
    BY <2>2 DEF Surjection
  <2> HIDE DEF S, f
  <2> QED
    BY <2>1, <2>3, FS_Surjection
<1>6. \A s \in ids : s[1] = domain
  BY DEF SourcesOf
<1>7. ids \cap DOMAIN index.sources = {}
  BY <1>6 DEF Lack
<1>8. base \in Nat
  BY FS_CardinalityType DEF Indexed
<1> HIDE DEF ids, kind
<1>9. /\ Indexed(F[0]) /\ DOMAIN F[0].sources = DOMAIN index.sources \cup ids
      /\ F[0].citations = index.citations
  <2>1. Fresh(index, ids)
    BY <1>4, <1>5, <1>6, <1>7 DEF Fresh
  <2> DEFINE first == F[0]
  <2>2. first = Register(index, ids, kind)
    BY <1>3
  <2> HIDE DEF first
  <2>3. /\ Indexed(first) /\ DOMAIN first.sources = DOMAIN index.sources \cup ids
        /\ first.citations = index.citations
    BY <2>1, <2>2, RegisterIndexes
  <2> QED
    BY <2>3 DEF first
<1> DEFINE Good(n) == Citing(F[n], base, domain, result, n) /\ Lack(F[n], labels)
           N == {n \in Nat : n <= L => Good(n)}
<1>10. 0 \in N
  <2>1. \A c \in DOMAIN F[0].citations : c[1][1] # domain
    BY <1>9 DEF Indexed, Lack
  <2>2. Cardinality(DOMAIN F[0].citations) = base + 0
    BY <1>8, <1>9
  <2>3. Citing(F[0], base, domain, result, 0)
    BY <1>9, <2>1, <2>2 DEF Citing, ids
  <2>4. Lack(F[0], labels)
    BY <1>6, <1>9 DEF Lack
  <2> QED
    BY <2>3, <2>4
<1>11. ASSUME NEW n \in Nat, n \in N
       PROVE  n + 1 \in N
  <2> SUFFICES ASSUME n + 1 <= L PROVE Good(n + 1)
    OBVIOUS
  <2>1. Good(n) /\ n + 1 \in DOMAIN result.citations
    BY <1>1, <1>11
  <2>2. F[n + 1] = Cite(F[n], domain, result, n + 1)
    <3>1. n + 1 \in 0 .. L /\ n + 1 # 0 /\ (n + 1) - 1 = n
      BY <1>1
    <3> QED
      BY <1>3, <3>1
  <2> HIDE DEF base
  <2> QED
    BY <1>8, <2>1, <2>2, CiteKeeps
<1>12. Nat \subseteq N
  <2> HIDE DEF N
  <2> QED
    BY <1>10, <1>11, Induction
<1>13. Good(L)
  BY <1>1, <1>12
<1> QED
  BY <1>2, <1>13 DEF Citing

\* Before the research is indexed there are sources without citations, none of them of a domain.
Fine(index) ==
  Indexed(index) /\ Lack(index, Domains \cup {"citation_source"}) /\ index.citations = <<>>

Adds(index, id, more) == DOMAIN more.sources = DOMAIN index.sources \cup {id}

\* Registering a source that is not of the research keeps it so.
LEMMA FineStays ==
  ASSUME NEW index, Fine(index), NEW id, id \notin DOMAIN index.sources,
         id[1] \notin Domains \cup {"citation_source"}, NEW kind, NEW paths,
         NEW more, more = [Register(index, {id}, kind) EXCEPT !.paths = paths]
  PROVE  Fine(more) /\ Adds(index, id, more)
<1> DEFINE ids == {id}
           made == Register(index, ids, kind)
<1>1. Fresh(index, ids)
  BY FS_Singleton DEF Fresh
<1>2. Indexed(index) /\ index.citations = <<>> /\ Lack(index, Domains \cup {"citation_source"})
  BY DEF Fine
<1>3. made = Register(index, ids, kind) /\ more = [made EXCEPT !.paths = paths]
  OBVIOUS
<1> HIDE DEF ids, made
<1>4. Indexed(made) /\ DOMAIN made.sources = DOMAIN index.sources \cup ids
      /\ made.citations = index.citations
  BY <1>1, <1>2, <1>3, RegisterIndexes
<1>5. DOMAIN more = DOMAIN made /\ more.sources = made.sources /\ more.citations = made.citations
  BY <1>3, <1>4 DEF Indexed
<1>6. Indexed(more)
  BY <1>4, <1>5 DEF Indexed
<1>7. Lack(more, Domains \cup {"citation_source"})
  BY <1>2, <1>4, <1>5 DEF Lack, ids
<1> QED
  BY <1>2, <1>4, <1>5, <1>6, <1>7 DEF ids, Fine, Adds

\* Before the research there is no citation.
LEMMA OwnIsIndexed ==
  ASSUME NEW known
  PROVE  /\ Indexed(OwnEvidence(known)) /\ Lack(OwnEvidence(known), Domains)
         /\ Cardinality(DOMAIN OwnEvidence(known).citations) = 0
<1>1. Fine(Empty)
  <2>1. /\ DOMAIN Empty.sources = {} /\ DOMAIN Empty.citations = {} /\ Empty.citations = <<>>
        /\ {"sources", "citations"} \subseteq DOMAIN Empty
    BY DEF Empty
  <2> QED
    BY <2>1, FS_EmptySet DEF Indexed, Lack, Fine
<1> DEFINE base == <<"listing_extraction", 0>>
           property == [Register(Empty, {Verified}, "verified_property")
                          EXCEPT !.paths = {"verified_property", "unresolved_verified_fields"}]
           more(index) == [Register(index, {base}, "listing_extraction")
                             EXCEPT !.paths = @ \cup {"listing", "listing_snapshot", "listing_history"}]
           listing == IF ~known.listing THEN property ELSE more(property)
           own == [Register(listing, {Underwriting}, "underwriting") EXCEPT !.paths = @ \cup {"underwriting"}]
<1>2. OwnEvidence(known) = IF ~known.underwriting THEN listing ELSE own
  BY DEF OwnEvidence
<1>3. /\ Verified[1] \notin Domains \cup {"citation_source"}
      /\ base[1] \notin Domains \cup {"citation_source"}
      /\ Underwriting[1] \notin Domains \cup {"citation_source"}
      /\ base # Verified /\ Underwriting # Verified /\ Underwriting # base
  BY DEF Verified, Underwriting, Domains
<1> HIDE DEF base
<1>4. Fine(property) /\ DOMAIN property.sources = {Verified}
  <2>1. DOMAIN Empty.sources = {}
    BY DEF Empty
  <2> DEFINE made == property
             kind == "verified_property"
             paths == {"verified_property", "unresolved_verified_fields"}
  <2>2. made = [Register(Empty, {Verified}, kind) EXCEPT !.paths = paths]
    OBVIOUS
  <2> HIDE DEF made, kind, paths
  <2> DEFINE index == Empty
             id == Verified
  <2>3. /\ Fine(index) /\ id \notin DOMAIN index.sources /\ id[1] \notin Domains \cup {"citation_source"}
        /\ made = [Register(index, {id}, kind) EXCEPT !.paths = paths]
    BY <1>1, <1>3, <2>1, <2>2
  <2> HIDE DEF index, id
  <2>4. Fine(made)
    BY FineStays, <2>3
  <2>5. Adds(index, id, made)
    BY FineStays, <2>3
  <2> QED
    BY <2>1, <2>4, <2>5 DEF made, index, id, Adds
<1> HIDE DEF property
<1>5. Fine(more(property)) /\ DOMAIN more(property).sources = {Verified, base}
  <2> DEFINE made == more(property)
             kind == "listing_extraction"
             paths == Register(property, {base}, kind).paths \cup {"listing", "listing_snapshot", "listing_history"}
  <2>1. made = [Register(property, {base}, kind) EXCEPT !.paths = paths]
    OBVIOUS
  <2> HIDE DEF made, kind, paths
  <2>2. base \notin DOMAIN property.sources
    BY <1>3, <1>4
  <2>3. Fine(made)
    BY FineStays, <1>3, <1>4, <2>1, <2>2
  <2>4. Adds(property, base, made)
    BY FineStays, <1>3, <1>4, <2>1, <2>2
  <2> QED
    BY <1>4, <2>3, <2>4 DEF made, Adds
<1> HIDE DEF more
<1>6. Fine(listing) /\ Underwriting \notin DOMAIN listing.sources
  BY <1>3, <1>4, <1>5
<1> HIDE DEF listing
<1>7. Fine(own)
  <2> DEFINE made == own
             kind == "underwriting"
             paths == Register(listing, {Underwriting}, kind).paths \cup {"underwriting"}
  <2>1. made = [Register(listing, {Underwriting}, kind) EXCEPT !.paths = paths]
    OBVIOUS
  <2> HIDE DEF made, kind, paths
  <2>2. Fine(made)
    BY FineStays, <1>3, <1>6, <2>1
  <2> QED
    BY <2>2 DEF made
<1> HIDE DEF own
<1>8. Fine(OwnEvidence(known))
  BY <1>2, <1>6, <1>7
<1>9. Cardinality({}) = 0 /\ DOMAIN <<>> = {}
  BY FS_EmptySet
<1> QED
  BY <1>8, <1>9 DEF Fine, Lack

\* A term can be taken out of a sum.
LEMMA SumsSplit ==
  ASSUME NEW f, NEW F, Sums(f, F), IsFiniteSet(DOMAIN f), \A x \in DOMAIN f : f[x] \in Nat
  PROVE  \A s \in SUBSET DOMAIN f : F[s] \in Nat /\ \A x \in s : F[s] = f[x] + F[s \ {x}]
<1> DEFINE D == DOMAIN f
           Splits(s) == F[s] \in Nat /\ \A x \in s : F[s] = f[x] + F[s \ {x}]
           B == {s \in SUBSET D : \A t \in SUBSET s : Splits(t)}
<1>1. \A s \in SUBSET D : F[s] = IF s = {} THEN 0 ELSE f[Chosen(s)] + F[s \ {Chosen(s)}]
  BY DEF Sums
<1>2. {} \in B
  <2>1. F[{}] = 0 /\ {} \in SUBSET D
    BY <1>1
  <2> QED
    BY <2>1
<1>3. ASSUME NEW s \in SUBSET D, s # {}, \A x \in s : s \ {x} \in B
      PROVE  s \in B
  <2> DEFINE c == Chosen(s)
  <2>1. c \in s
    BY <1>3, AnyIsMember
  <2>2. F[s] = f[c] + F[s \ {c}]
    BY <1>1, <1>3
  <2>3. Splits(s \ {c})
    BY <1>3, <2>1
  <2>4. f[c] \in Nat
    BY <2>1
  <2> HIDE DEF c
  <2>5. F[s] \in Nat
    BY <2>2, <2>3, <2>4
  <2>6. ASSUME NEW x \in s
        PROVE  F[s] = f[x] + F[s \ {x}]
    <3>1. CASE x = c
      BY <2>2, <3>1
    <3>2. CASE x # c
      <4> DEFINE both == s \ {c, x}
      <4>1. (s \ {c}) \ {x} = both /\ (s \ {x}) \ {c} = both
        OBVIOUS
      <4>2. x \in s \ {c} /\ c \in s \ {x}
        BY <2>1, <3>2
      <4>3. Splits(s \ {x}) /\ Splits(both)
        BY <1>3
      <4>4. F[s \ {c}] = f[x] + F[both]
        BY <2>3, <4>1, <4>2
      <4>5. F[s \ {x}] = f[c] + F[both]
        BY <4>1, <4>2, <4>3
      <4>6. f[x] \in Nat /\ F[both] \in Nat
        BY <4>3
      <4> HIDE DEF both
      <4> QED
        BY <2>2, <2>4, <4>4, <4>5, <4>6
    <3> QED
      BY <3>1, <3>2
  <2>7. ASSUME NEW t \in SUBSET s
        PROVE  Splits(t)
    <3>1. CASE t = s
      BY <2>5, <2>6, <3>1
    <3>2. CASE t # s
      <4>1. PICK x \in s : t \in SUBSET (s \ {x})
        BY <3>2
      <4>2. s \ {x} \in B
        BY <1>3
      <4> QED
        BY <4>1, <4>2
    <3> QED
      BY <3>1, <3>2
  <2> HIDE DEF Splits
  <2> QED
    BY <2>7
<1>4. D \in B
  <2> HIDE DEF B
  <2> QED
    BY <1>2, <1>3, SubsetInduction
<1> HIDE DEF Splits
<1>5. \A s \in SUBSET D : Splits(s)
  BY <1>4
<1> QED
  BY <1>5 DEF Splits

\* The domains whose research there is, and how much each cites.
Researched(known) == {d \in Domains : known.research[d] # None}
CitedBy(known) == [d \in Researched(known) |-> Len(known.research[d].citations)]

\* The index has the research of the domains that are done, and of no other.
Built(index, done, known, F) ==
  /\ Indexed(index)
  /\ Lack(index, Domains \ done)
  /\ Cardinality(DOMAIN index.citations) = F[Researched(known) \cap done]

LEMMA DomainsAreFour ==
  /\ Domains = {"public_records", "sales_comps", "rental_comps", "neighborhood"}
  /\ IsFiniteSet(Domains)
<1> DEFINE D == {"public_records", "sales_comps", "rental_comps", "neighborhood"}
<1>1. IsFiniteSet({}) /\ IsFiniteSet({} \cup {"public_records"})
  BY FS_EmptySet, FS_AddElement
<1>2. IsFiniteSet(({} \cup {"public_records"}) \cup {"sales_comps"})
  BY <1>1, FS_AddElement
<1>3. IsFiniteSet((({} \cup {"public_records"}) \cup {"sales_comps"}) \cup {"rental_comps"})
  BY <1>2, FS_AddElement
<1>4. IsFiniteSet(((({} \cup {"public_records"}) \cup {"sales_comps"}) \cup {"rental_comps"})
                    \cup {"neighborhood"})
  BY <1>3, FS_AddElement
<1>5. D = ((({} \cup {"public_records"}) \cup {"sales_comps"}) \cup {"rental_comps"}) \cup {"neighborhood"}
  OBVIOUS
<1> HIDE DEF D
<1>6. IsFiniteSet(D)
  BY <1>4, <1>5
<1> QED
  BY <1>6 DEF D, Domains

LEMMA CountsAreNatural ==
  ASSUME NEW known, Readable(known)
  PROVE  /\ DOMAIN CitedBy(known) = Researched(known) /\ IsFiniteSet(Researched(known))
         /\ \A d \in DOMAIN CitedBy(known) : CitedBy(known)[d] \in Nat
<1>1. IsFiniteSet(Researched(known))
  BY DomainsAreFour, FS_Subset DEF Researched
<1>2. \A d \in Researched(known) : Len(known.research[d].citations) \in Nat
  BY DEF Researched, Readable, Citable
<1> QED
  BY <1>1, <1>2 DEF CitedBy

\* One more domain.
LEMMA ResearchIsAdded ==
  ASSUME NEW known, Readable(known), NEW F, Sums(CitedBy(known), F),
         NEW done \in SUBSET Domains, NEW d \in Domains \ done,
         NEW index, Built(index, done, known, F),
         NEW made, made = WithResearch(index, d, known.research[d])
  PROVE  Built(made, done \cup {d}, known, F)
<1> DEFINE result == known.research[d]
           labels == Domains \ (done \cup {d})
           before == Researched(known) \cap done
           after == Researched(known) \cap (done \cup {d})
<1>1. Lack(index, {d}) /\ Lack(index, labels)
  BY DEF Built, Lack
<1>2. CASE result = None
  <2>1. made = index
    BY <1>2 DEF WithResearch
  <2>2. after = before
    BY <1>2 DEF Researched
  <2> QED
    BY <1>1, <2>1, <2>2 DEF Built
<1>3. CASE result # None
  <2>1. Citable(result) /\ d \in Researched(known)
    BY <1>3 DEF Readable, Researched
  <2>2. made = IndexResearch(index, d, result)
    BY <1>3 DEF WithResearch
  <2>3. d \in after /\ after \ {d} = before /\ after \in SUBSET DOMAIN CitedBy(known)
    BY <2>1, CountsAreNatural
  <2>4. CitedBy(known)[d] = Len(result.citations) /\ Len(result.citations) \in Nat
    BY <2>1 DEF CitedBy, Citable
  <2>5. F[after] = Len(result.citations) + F[before] /\ F[before] \in Nat
    <3>1. \A s \in SUBSET DOMAIN CitedBy(known) :
            F[s] \in Nat /\ \A x \in s : F[s] = CitedBy(known)[x] + F[s \ {x}]
      BY CountsAreNatural, SumsSplit
    <3>2. before \in SUBSET DOMAIN CitedBy(known)
      BY CountsAreNatural
    <3>3. F[after] = CitedBy(known)[d] + F[after \ {d}]
      BY <2>3, <3>1
    <3> QED
      BY <2>3, <2>4, <3>1, <3>2, <3>3
  <2> HIDE DEF result, labels, before, after
  <2>6. labels \in SUBSET Domains /\ d \notin labels /\ Indexed(index)
    BY DEF labels, Built
  <2>7. /\ Indexed(made) /\ Lack(made, labels)
        /\ Cardinality(DOMAIN made.citations)
             = Cardinality(DOMAIN index.citations) + Len(result.citations)
    BY <1>1, <2>1, <2>2, <2>6, ResearchIsIndexed
  <2>8. Cardinality(DOMAIN index.citations) = F[before]
    BY DEF Built, before
  <2>9. Cardinality(DOMAIN made.citations) = F[after]
    BY <2>4, <2>5, <2>7, <2>8
  <2> QED
    BY <2>7, <2>9 DEF Built, labels, after
<1> QED
  BY <1>2, <1>3

\* Every citation of the research is in the index once.
LEMMA IndexIsBuilt ==
  ASSUME NEW known, Readable(known), NEW index, index = BuildIndex(known)
  PROVE  /\ Indexed(index)
         /\ Cardinality(DOMAIN index.citations) = SumFunction(CitedBy(known))
<1>1. PICK F : Sums(CitedBy(known), F) /\ SumFunction(CitedBy(known)) = F[Researched(known)]
  BY CountsAreNatural, SumsExist
<1> DEFINE own == OwnEvidence(known)
           public == WithResearch(own, "public_records", known.research["public_records"])
           sales == WithResearch(public, "sales_comps", known.research["sales_comps"])
           rental == WithResearch(sales, "rental_comps", known.research["rental_comps"])
           all == WithResearch(rental, "neighborhood", known.research["neighborhood"])
           two == {"public_records", "sales_comps"}
           three == two \cup {"rental_comps"}
<1>2. all = index
  BY DEF BuildIndex
<1>3. Built(own, {}, known, F)
  <2>1. Researched(known) \cap {} = {} /\ Domains \ {} = Domains
    OBVIOUS
  <2>2. F[{}] = 0
    BY <1>1 DEF Sums
  <2>3. Indexed(own) /\ Lack(own, Domains) /\ Cardinality(DOMAIN own.citations) = 0
    BY OwnIsIndexed
  <2> HIDE DEF own
  <2> QED
    BY <2>1, <2>2, <2>3 DEF Built
<1> HIDE DEF own
<1>4. Built(public, {"public_records"}, known, F)
  <2>1. {} \in SUBSET Domains /\ "public_records" \in Domains \ {}
        /\ {} \cup {"public_records"} = {"public_records"}
    BY DomainsAreFour
  <2> QED
    BY <1>1, <1>3, <2>1, ResearchIsAdded
<1> HIDE DEF public
<1>5. Built(sales, two, known, F)
  <2>1. {"public_records"} \in SUBSET Domains /\ "sales_comps" \in Domains \ {"public_records"}
        /\ {"public_records"} \cup {"sales_comps"} = two
    BY DomainsAreFour
  <2> HIDE DEF two
  <2> QED
    BY <1>1, <1>4, <2>1, ResearchIsAdded
<1> HIDE DEF sales
<1>6. Built(rental, three, known, F)
  <2>1. two \in SUBSET Domains /\ "rental_comps" \in Domains \ two
    BY DomainsAreFour
  <2> HIDE DEF two
  <2> QED
    BY <1>1, <1>5, <2>1, ResearchIsAdded
<1> HIDE DEF rental
<1>7. Built(all, Domains, known, F)
  <2>1. three \in SUBSET Domains /\ "neighborhood" \in Domains \ three
        /\ three \cup {"neighborhood"} = Domains
    BY DomainsAreFour
  <2> HIDE DEF three
  <2> QED
    BY <1>1, <1>6, <2>1, ResearchIsAdded
<1> HIDE DEF all
<1>8. Researched(known) \cap Domains = Researched(known)
  BY DEF Researched
<1> QED
  BY <1>1, <1>2, <1>7, <1>8 DEF Built

\* The caps leave the evidence of an answer alone.
LEMMA VettedReferences ==
  ASSUME NEW a \in Reviewers, NEW o, NEW known, Vetted(a, o, known), NEW index, index = BuildIndex(known)
  PROVE  AllValid(o.findings, index) /\ AllValid(o.risks, index) /\ AllValid(o.questions, index)
<1>1. PICK answer \in Answers[a] : Accepted(a, answer, index) /\ o = Capped(answer)
  BY DEF Vetted
<1>2. /\ \A part \in {"findings", "conflicts", "risks", "questions"} :
          part \in DOMAIN answer /\ answer[part] \in Seq(ToSet(answer[part]))
      /\ \A f \in ToSet(answer.findings) : "evidence" \in DOMAIN f
      /\ \A r \in ToSet(answer.risks) : "evidence" \in DOMAIN r
  BY AnswersAreOutputs DEF Reviewers
<1>3. {"findings", "risks", "questions"} \subseteq DOMAIN answer
  BY <1>2
<1>4. \A i \in DOMAIN answer.findings : "evidence" \in DOMAIN answer.findings[i]
  BY <1>2 DEF ToSet
<1>5. \A i \in DOMAIN answer.risks : "evidence" \in DOMAIN answer.risks[i]
  BY <1>2 DEF ToSet
<1>6. o.questions = answer.questions
  BY <1>1, <1>3 DEF Capped
<1>7. DOMAIN o.findings = DOMAIN answer.findings
      /\ \A i \in DOMAIN answer.findings : o.findings[i].evidence = answer.findings[i].evidence
  BY <1>1, <1>3, <1>4 DEF Capped
<1>8. DOMAIN o.risks = DOMAIN answer.risks
      /\ \A i \in DOMAIN answer.risks : o.risks[i].evidence = answer.risks[i].evidence
  BY <1>1, <1>3, <1>5 DEF Capped
<1>9. AllValid(answer.findings, index) /\ AllValid(answer.risks, index) /\ AllValid(answer.questions, index)
  BY <1>1 DEF Accepted
<1> QED
  BY <1>6, <1>7, <1>8, <1>9 DEF AllValid

\* A valid reference can be looked up.
LEMMA ValidResolves ==
  ASSUME NEW index, Indexed(index), NEW e, ValidReference(e, index)
  PROVE  /\ e.source \in DOMAIN index.sources
         /\ e.citation # None => e.citation \in index.sources[e.source].citations
BY DEF Indexed, ValidReference

\* What the package cites was held to the index.
LEMMA CitedIsValid ==
  ASSUME ReviewInv, stage = "done", NEW groups, NEW e \in Cited(Consolidated(groups)),
         NEW index, index = BuildIndex(context)
  PROVE  ValidReference(e, index)
<1>1. \A a \in Reviewers : outputs[a] # None =>
        AllValid(outputs[a].findings, index) /\ AllValid(outputs[a].risks, index)
          /\ AllValid(outputs[a].questions, index)
  BY VettedReferences DEF ReviewInv
<1>2. CASE \E f \in Consolidated(groups) : e \in ToSet(f.evidence)
  <2>1. PICK i \in DOMAIN AllFindings : e \in ToSet(AllFindings[i].evidence)
    BY <1>2 DEF Consolidated
  <2> DEFINE f == AllFindings[i]
             seqs == [k \in DOMAIN ReadOrder |-> FindingsBy(ReadOrder[k])]
  <2>2. seqs \in Seq(Seq(Found)) /\ DOMAIN seqs = 1 .. 5
    <3>1. \A k \in 1 .. 5 : ReadOrder[k] \in Reviewers
      BY ReadingOrder, FourSpecialists DEF Reviewers
    <3>2. seqs = [k \in 1 .. 5 |-> FindingsBy(ReadOrder[k])]
      BY ReadingOrder
    <3>3. \A k \in 1 .. 5 : FindingsBy(ReadOrder[k]) \in Seq(Found)
      BY <3>1, FindingsAreTyped
    <3> QED
      BY <3>2, <3>3
  <2>3. AllFindings = FlattenSeq(seqs)
    BY DEF AllFindings, FindingsBy
  <2>4. f \in ToSet(AllFindings)
    BY DEF ToSet
  <2>5. PICK k \in 1 .. 5 : f \in ToSet(seqs[k])
    <3> HIDE DEF seqs, f
    <3> QED
      BY <2>2, <2>3, <2>4, FlattenHasAll
  <2> DEFINE a == ReadOrder[k]
  <2>6. a \in Reviewers /\ seqs[k] = FindingsBy(a)
    BY ReadingOrder, FourSpecialists DEF Reviewers
  <2>7. outputs[a] # None /\ f \in ToSet(outputs[a].findings)
    <3>1. ToSet(<<>>) = {}
      BY DEF ToSet
    <3> HIDE DEF seqs, f, a
    <3> QED
      BY <2>5, <2>6, <3>1 DEF FindingsBy
  <2> HIDE DEF seqs, a
  <2>8. AllValid(outputs[a].findings, index)
    BY <1>1, <2>6, <2>7
  <2> QED
    BY <2>1, <2>7, <2>8 DEF AllValid, ToSet
<1>3. CASE outputs[Risk] # None /\ e \in References(outputs[Risk].risks)
  BY <1>1, <1>3 DEF References, AllValid, Reviewers
<1>4. CASE outputs[Risk] # None /\ e \in References(outputs[Risk].questions)
  BY <1>1, <1>4 DEF References, AllValid, Reviewers
<1>5. \/ \E f \in Consolidated(groups) : e \in ToSet(f.evidence)
      \/ outputs[Risk] # None /\ e \in References(outputs[Risk].risks)
      \/ outputs[Risk] # None /\ e \in References(outputs[Risk].questions)
  <2> DEFINE found == UNION {ToSet(f.evidence) : f \in Consolidated(groups)}
             asked == References(outputs[Risk].risks) \cup References(outputs[Risk].questions)
  <2>1. Cited(Consolidated(groups)) = found \cup (IF outputs[Risk] = None THEN {} ELSE asked)
    BY DEF Cited, found, asked
  <2>2. e \in found => \E f \in Consolidated(groups) : e \in ToSet(f.evidence)
    OBVIOUS
  <2>3. e \in asked => e \in References(outputs[Risk].risks) \/ e \in References(outputs[Risk].questions)
    OBVIOUS
  <2> HIDE DEF found, asked
  <2> QED
    BY <2>1, <2>2, <2>3
<1> QED
  BY <1>2, <1>3, <1>4, <1>5

\* What is cited was accepted against the index the package is made from.
LEMMA EvidenceIsSound == ReviewInv => EvidenceResolves
<1> SUFFICES ASSUME ReviewInv, package # None PROVE EvidenceResolves
  BY DEF EvidenceResolves
<1> DEFINE index == BuildIndex(context)
           groups == Analysis.groups
<1>1. stage = "done" /\ package.evidence = Cited(Consolidated(groups))
  BY DEF ReviewInv, Package
<1>2. Readable(context)
  BY DEF ReviewInv
<1> HIDE DEF groups
<1>3. \A e \in Cited(Consolidated(groups)) : ValidReference(e, index)
  BY <1>1, CitedIsValid
<1> HIDE DEF index
<1>4. /\ Indexed(index)
      /\ Cardinality(DOMAIN index.citations) = SumFunction(CitedBy(context))
  BY <1>2, IndexIsBuilt DEF index
<1>5. \A e \in package.evidence :
        /\ e.source \in DOMAIN index.sources
        /\ e.citation # None => e.citation \in index.sources[e.source].citations
  BY <1>1, <1>3, <1>4, ValidResolves
<1>6. \A c \in DOMAIN index.citations :
        {s \in DOMAIN index.sources : c \in index.sources[s].citations} = {index.citations[c]}
  BY <1>4 DEF Indexed
<1> QED
  BY <1>4, <1>5, <1>6 DEF EvidenceResolves, CitedBy, Researched, index

\* Whatever is in the context and whatever the agents answer, the evidence of the package is
\* of this property and can be looked up, and the index has each citation of the research once.
\* (validate_evidence_reference, _register_citations)
THEOREM EvidenceIsResolved == Spec => []EvidenceResolves
<1>1. ReviewInv => EvidenceResolves
  BY EvidenceIsSound
<1> QED
  BY <1>1, ReviewIsSound, PTL
===============================================================================
