------------------------------ MODULE DataFacts -----------------------------
(***************************************************************************)
(* Facts about data that the proofs share: induction over the natural      *)
(* numbers in the form of a fact about sets, the sizes of the subsets of a *)
(* finite set, sums over finite sets as the community operator             *)
(* MapThenSumSet computes them, ranks in an ordered finite set, and the    *)
(* elements of a sequence as the steps of a queue change them.             *)
(***************************************************************************)
EXTENDS Naturals, Sequences, SequencesExt, FiniteSetsExt,
        SequenceTheorems, FiniteSetTheorems, WellFoundedInduction, TLAPS

\* Induction: a set of natural numbers that has 0, and with a number the next
\* one, has them all.
LEMMA NatSetInduction ==
    ASSUME NEW P \in SUBSET Nat, 0 \in P, \A n \in P : n + 1 \in P
    PROVE  P = Nat
<1> SUFFICES ASSUME Nat \ P # {} PROVE FALSE
  OBVIOUS
<1>1. PICK x \in Nat \ P : \A y \in Nat \ P : <<y, x>> \notin OpToRel(<, Nat)
  <2>1. Nat \ P \subseteq Nat
    OBVIOUS
  <2> QED BY <2>1, WFMin, NatLessThanWellFounded, Zenon
<1>2. x # 0 /\ x - 1 \in Nat /\ x - 1 < x /\ (x - 1) + 1 = x
  OBVIOUS
<1>3. x - 1 \in Nat \ P
  BY <1>2
<1>4. <<x - 1, x>> \in OpToRel(<, Nat)
  BY <1>2 DEF OpToRel
<1> QED BY <1>1, <1>3, <1>4, Zenon

\* The subsets of a finite set have a size that gets smaller with every element
\* taken out, and none is larger than the set.
LEMMA FiniteSizes ==
    ASSUME NEW S, IsFiniteSet(S)
    PROVE  \E size \in [SUBSET S -> Nat] :
              \A s \in SUBSET S : size[s] <= size[S] /\ \A x \in s : size[s \ {x}] < size[s]
<1> DEFINE size == [s \in SUBSET S |-> Cardinality(s)]
<1>1. ASSUME NEW s \in SUBSET S
      PROVE  IsFiniteSet(s) /\ Cardinality(s) \in Nat /\ Cardinality(s) <= Cardinality(S)
  BY FS_Subset, FS_CardinalityType
<1>2. ASSUME NEW s \in SUBSET S, NEW x \in s
      PROVE  s \ {x} \in SUBSET S /\ Cardinality(s \ {x}) < Cardinality(s)
  <2>1. Cardinality(s \ {x}) = Cardinality(s) - 1
    BY <1>1, FS_RemoveElement
  <2> QED BY <1>1, <2>1
<1>3. size \in [SUBSET S -> Nat]
  BY <1>1
<1>4. \A s \in SUBSET S : size[s] <= size[S] /\ \A x \in s : size[s \ {x}] < size[s]
  BY <1>1, <1>2
<1> HIDE DEF size
<1> QED BY <1>3, <1>4

-----------------------------------------------------------------------------
(* How MapThenSumSet goes through a set *)

\* The element it takes out first.
Pick(s) == CHOOSE x \in s : TRUE

\* it sums the weights W over the sets in D.
IsSummation(it, W, D) ==
    it = [s \in D |-> IF s = {} THEN 0 ELSE W[Pick(s)] + it[s \ {Pick(s)}]]

\* The subsets with at most n elements.
UpToSize(n, S) == {s \in SUBSET S : Cardinality(s) <= n}

\* A set that is not empty has the element, and one element less without it.
LEMMA PickSmaller ==
    ASSUME NEW s, IsFiniteSet(s), s # {}
    PROVE  /\ Pick(s) \in s
           /\ IsFiniteSet(s \ {Pick(s)})
           /\ Cardinality(s \ {Pick(s)}) = Cardinality(s) - 1
           /\ Cardinality(s) \in Nat /\ Cardinality(s \ {Pick(s)}) \in Nat
<1>1. Pick(s) \in s
  BY DEF Pick
<1> QED BY <1>1, FS_RemoveElement, FS_CardinalityType

\* Induction over the finite subsets of a set, by their size.
LEMMA SubsetInduction ==
    ASSUME NEW S, IsFiniteSet(S), NEW P \in SUBSET SUBSET S, {} \in P,
           \A s \in SUBSET S : (s # {} /\ \A x \in s : s \ {x} \in P) => s \in P
    PROVE  P = SUBSET S
<1> DEFINE G == {n \in Nat : UpToSize(n, S) \subseteq P}
<1>0. \A s \in SUBSET S : IsFiniteSet(s) /\ Cardinality(s) \in Nat
  BY FS_Subset, FS_CardinalityType
<1>1. 0 \in G
  <2>1. \A s \in UpToSize(0, S) : s = {}
    BY <1>0, FS_EmptySet DEF UpToSize
  <2> QED BY <2>1
<1>2. ASSUME NEW n \in G PROVE n + 1 \in G
  <2>0. n \in Nat /\ UpToSize(n, S) \subseteq P
    OBVIOUS
  <2>1. SUFFICES ASSUME NEW s \in SUBSET S, Cardinality(s) <= n + 1, s # {}
                 PROVE  s \in P
    <3>1. UpToSize(n + 1, S) \subseteq P
      BY <2>1 DEF UpToSize
    <3> QED BY <2>0, <3>1
  <2>2. ASSUME NEW x \in s PROVE s \ {x} \in P
    <3>1. Cardinality(s \ {x}) = Cardinality(s) - 1
      BY <1>0, FS_RemoveElement
    <3>2. s \ {x} \in UpToSize(n, S)
      BY <1>0, <2>0, <2>1, <3>1 DEF UpToSize
    <3> QED BY <2>0, <3>2
  <2> QED BY <2>1, <2>2
<1>3. G = Nat
  <2> HIDE DEF G
  <2>1. G \in SUBSET Nat
    BY DEF G
  <2> QED BY <1>1, <1>2, <2>1, NatSetInduction
<1> QED BY <1>0, <1>3 DEF UpToSize

\* There is such a summation, with natural numbers as its values.
LEMMA SummationExists ==
    ASSUME NEW S, IsFiniteSet(S), NEW W \in [S -> Nat]
    PROVE  \E it \in [SUBSET S -> Nat] : IsSummation(it, W, SUBSET S)
<1> DEFINE G == {n \in Nat : \E it \in [UpToSize(n, S) -> Nat] : IsSummation(it, W, UpToSize(n, S))}
<1>0. \A s \in SUBSET S : IsFiniteSet(s) /\ Cardinality(s) \in Nat
  BY FS_Subset, FS_CardinalityType
<1>1. 0 \in G
  <2>1. \A s \in UpToSize(0, S) : s = {}
    BY <1>0, FS_EmptySet DEF UpToSize
  <2>2. IsSummation([s \in UpToSize(0, S) |-> 0], W, UpToSize(0, S))
    BY <2>1 DEF IsSummation
  <2>3. [s \in UpToSize(0, S) |-> 0] \in [UpToSize(0, S) -> Nat]
    OBVIOUS
  <2> QED BY <2>2, <2>3
<1>2. ASSUME NEW n \in G PROVE n + 1 \in G
  <2>0. n \in Nat
    OBVIOUS
  <2>1. PICK g \in [UpToSize(n, S) -> Nat] : IsSummation(g, W, UpToSize(n, S))
    OBVIOUS
  <2> DEFINE h == [s \in UpToSize(n + 1, S) |->
                     IF s = {} THEN 0 ELSE W[Pick(s)] + g[s \ {Pick(s)}]]
  <2>2. ASSUME NEW s \in UpToSize(n + 1, S), s # {}
        PROVE  Pick(s) \in S /\ s \ {Pick(s)} \in UpToSize(n, S)
    BY <1>0, <2>0, <2>2, PickSmaller DEF UpToSize
  <2>3. h \in [UpToSize(n + 1, S) -> Nat]
    BY <2>2
  <2>4. ASSUME NEW s \in UpToSize(n, S) PROVE s \in UpToSize(n + 1, S) /\ h[s] = g[s]
    <3>1. s \in UpToSize(n + 1, S)
      BY <1>0, <2>0 DEF UpToSize
    <3> QED BY <2>1, <3>1 DEF IsSummation
  <2>5. IsSummation(h, W, UpToSize(n + 1, S))
    <3>1. ASSUME NEW s \in UpToSize(n + 1, S)
          PROVE  h[s] = IF s = {} THEN 0 ELSE W[Pick(s)] + h[s \ {Pick(s)}]
      BY <2>2, <2>4
    <3> QED BY <3>1 DEF IsSummation
  <2> HIDE DEF h
  <2>6. \E it \in [UpToSize(n + 1, S) -> Nat] : IsSummation(it, W, UpToSize(n + 1, S))
    BY <2>3, <2>5
  <2> QED BY <2>0, <2>6
<1>3. G = Nat
  <2> HIDE DEF G
  <2>1. G \in SUBSET Nat
    BY DEF G
  <2> QED BY <1>1, <1>2, <2>1, NatSetInduction
<1>4. Cardinality(S) \in G
  BY <1>0, <1>3
<1>5. UpToSize(Cardinality(S), S) = SUBSET S
  BY FS_Subset, <1>0 DEF UpToSize
<1> QED BY <1>4, <1>5

\* A summation depends on the weights in the set only.
LEMMA SummationAgrees ==
    ASSUME NEW S, IsFiniteSet(S), NEW V, NEW W, \A x \in S : V[x] = W[x],
           NEW A, NEW B, SUBSET S \subseteq A, SUBSET S \subseteq B,
           NEW f, NEW g, IsSummation(f, V, A), IsSummation(g, W, B)
    PROVE  f[S] = g[S]
<1> DEFINE P == {s \in SUBSET S : f[s] = g[s]}
<1>0. P \in SUBSET SUBSET S
  OBVIOUS
<1>1. {} \in P
  BY DEF IsSummation
<1>2. ASSUME NEW s \in SUBSET S, s # {}, \A x \in s : s \ {x} \in P
      PROVE  s \in P
  <2>1. Pick(s) \in s
    BY <1>2 DEF Pick
  <2>2. f[s \ {Pick(s)}] = g[s \ {Pick(s)}] /\ V[Pick(s)] = W[Pick(s)]
    BY <1>2, <2>1
  <2>3. s \in A /\ s \in B
    OBVIOUS
  <2>4. /\ f[s] = V[Pick(s)] + f[s \ {Pick(s)}]
        /\ g[s] = W[Pick(s)] + g[s \ {Pick(s)}]
    BY <1>2, <2>3 DEF IsSummation
  <2> QED BY <2>2, <2>4
<1>3. P = SUBSET S
  <2> HIDE DEF P
  <2>1. \A s \in SUBSET S : (s # {} /\ \A x \in s : s \ {x} \in P) => s \in P
    BY <1>2
  <2> QED BY <1>0, <1>1, <2>1, SubsetInduction
<1> QED BY <1>3

\* A summation may begin with any element.
LEMMA SummationRemove ==
    ASSUME NEW S, IsFiniteSet(S), NEW W \in [S -> Nat],
           NEW it \in [SUBSET S -> Nat], IsSummation(it, W, SUBSET S)
    PROVE  \A x \in S : it[S] = W[x] + it[S \ {x}]
<1> DEFINE P == {s \in SUBSET S : \A x \in s : it[s] = W[x] + it[s \ {x}]}
<1>0. P \in SUBSET SUBSET S
  OBVIOUS
<1>1. {} \in P
  OBVIOUS
<1>2. ASSUME NEW s \in SUBSET S, s # {}, \A x \in s : s \ {x} \in P
      PROVE  s \in P
  <2> DEFINE p == Pick(s)
  <2>1. p \in s
    BY <1>2 DEF Pick
  <2>2. it[s] = W[p] + it[s \ {p}]
    BY <1>2 DEF IsSummation
  <2> HIDE DEF p
  <2>3. ASSUME NEW x \in s, x # p PROVE it[s] = W[x] + it[s \ {x}]
    <3> DEFINE t == (s \ {p}) \ {x}
    <3>1. t = (s \ {x}) \ {p} /\ t \in SUBSET S
      OBVIOUS
    <3>2. it[s \ {p}] = W[x] + it[t]
      BY <1>2, <2>1, <2>3
    <3>3. it[s \ {x}] = W[p] + it[t]
      BY <1>2, <2>1, <2>3, <3>1
    <3>4. W[p] \in Nat /\ W[x] \in Nat /\ it[t] \in Nat
      BY <2>1, <3>1
    <3> QED BY <2>2, <3>2, <3>3, <3>4
  <2>4. \A x \in s : it[s] = W[x] + it[s \ {x}]
    BY <2>2, <2>3
  <2> QED BY <2>4
<1>3. P = SUBSET S
  <2> HIDE DEF P
  <2> QED BY <1>0, <1>1, <1>2, SubsetInduction
<1> QED BY <1>3

-----------------------------------------------------------------------------
(* The sum of the sizes of some messages *)

\* The sum of the sizes of the messages S.
SizeSum(F, S) == MapThenSumSet(LAMBDA p : F[p].size, S)

\* Finitely many messages, each with a size.
Sized(F, S) == IsFiniteSet(S) /\ \A p \in S : F[p].size \in Nat

\* What MapThenSumSet iterates, its definition expanded.
SizeIteration(it, F, S) ==
    it = [s \in SUBSET S |-> IF s = {} THEN 0 ELSE F[Pick(s)].size + it[s \ {Pick(s)}]]

\* MapThenSumSet yields the value of an iteration, if there is one.
LEMMA SizeSumIterates ==
    ASSUME NEW F, NEW S, NEW it, SizeIteration(it, F, S)
    PROVE  \E jt : SizeIteration(jt, F, S) /\ SizeSum(F, S) = jt[S]
BY DEF SizeSum, MapThenSumSet, MapThenFoldSet, SizeIteration, Pick

\* It computes a summation of the sizes.
LEMMA SizeSumIsSummation ==
    ASSUME NEW F, NEW S, Sized(F, S)
    PROVE  \E it \in [SUBSET S -> Nat] :
              /\ IsSummation(it, [p \in S |-> F[p].size], SUBSET S)
              /\ SizeSum(F, S) = it[S]
<1> DEFINE W == [p \in S |-> F[p].size]
<1>1. W \in [S -> Nat] /\ IsFiniteSet(S)
  BY DEF Sized
<1>2. \A it : IsSummation(it, W, SUBSET S) <=> SizeIteration(it, F, S)
  <2>1. \A s \in SUBSET S : s # {} => W[Pick(s)] = F[Pick(s)].size
    BY DEF Pick
  <2> QED BY <2>1 DEF IsSummation, SizeIteration
<1> HIDE DEF W
<1>3. PICK g \in [SUBSET S -> Nat] : IsSummation(g, W, SUBSET S)
  BY <1>1, SummationExists
<1>4. PICK h : SizeIteration(h, F, S) /\ SizeSum(F, S) = h[S]
  BY <1>2, <1>3, SizeSumIterates
<1>5. h[S] = g[S]
  <2>1. IsSummation(h, W, SUBSET S)
    BY <1>2, <1>4
  <2> QED BY <1>1, <1>3, <2>1, SummationAgrees
<1> QED BY <1>3, <1>4, <1>5 DEF W

\* The sum over no message is 0.
LEMMA SizeSumEmpty == ASSUME NEW F PROVE SizeSum(F, {}) = 0
<1>1. Sized(F, {})
  BY FS_EmptySet DEF Sized
<1>2. PICK it \in [SUBSET {} -> Nat] :
              /\ IsSummation(it, [p \in {} |-> F[p].size], SUBSET {})
              /\ SizeSum(F, {}) = it[{}]
  BY <1>1, SizeSumIsSummation
<1> QED BY <1>2 DEF IsSummation

\* The sum depends on the sizes of the messages in the set only.
LEMMA SizeSumAgrees ==
    ASSUME NEW F, NEW G, NEW S, Sized(F, S), \A p \in S : F[p].size = G[p].size
    PROVE  SizeSum(F, S) = SizeSum(G, S)
<1>1. Sized(G, S)
  BY DEF Sized
<1> DEFINE V == [p \in S |-> F[p].size]
           W == [p \in S |-> G[p].size]
<1>2. \A p \in S : V[p] = W[p]
  OBVIOUS
<1>3. PICK f \in [SUBSET S -> Nat] :
              IsSummation(f, V, SUBSET S) /\ SizeSum(F, S) = f[S]
  BY SizeSumIsSummation
<1>4. PICK g \in [SUBSET S -> Nat] :
              IsSummation(g, W, SUBSET S) /\ SizeSum(G, S) = g[S]
  BY <1>1, SizeSumIsSummation
<1>5. f[S] = g[S]
  <2> HIDE DEF V, W
  <2>1. IsFiniteSet(S) /\ SUBSET S \subseteq SUBSET S
    BY DEF Sized
  <2> QED BY <1>2, <1>3, <1>4, <2>1, SummationAgrees
<1> QED BY <1>3, <1>4, <1>5

\* A message taken out takes its size out of the sum.
LEMMA SizeSumRemove ==
    ASSUME NEW F, NEW S, Sized(F, S), NEW x \in S
    PROVE  /\ SizeSum(F, S) = F[x].size + SizeSum(F, S \ {x})
           /\ SizeSum(F, S) \in Nat /\ SizeSum(F, S \ {x}) \in Nat
<1> DEFINE W == [p \in S |-> F[p].size]
           T == S \ {x}
           V == [p \in T |-> F[p].size]
<1>1. Sized(F, T)
  BY FS_RemoveElement DEF Sized
<1>2. PICK it \in [SUBSET S -> Nat] :
              IsSummation(it, W, SUBSET S) /\ SizeSum(F, S) = it[S]
  BY SizeSumIsSummation
<1>3. PICK jt \in [SUBSET T -> Nat] :
              IsSummation(jt, V, SUBSET T) /\ SizeSum(F, T) = jt[T]
  BY <1>1, SizeSumIsSummation
<1>4. W \in [S -> Nat] /\ IsFiniteSet(S)
  BY DEF Sized
<1>5. it[S] = F[x].size + it[T]
  <2>1. W[x] = F[x].size
    OBVIOUS
  <2> HIDE DEF W
  <2>2. \A y \in S : it[S] = W[y] + it[S \ {y}]
    BY <1>2, <1>4, SummationRemove
  <2> QED BY <2>1, <2>2
<1>6. it[T] = jt[T]
  <2>1. \A p \in T : W[p] = V[p]
    OBVIOUS
  <2>2. SUBSET T \subseteq SUBSET S /\ IsFiniteSet(T)
    BY <1>1 DEF Sized
  <2> HIDE DEF W, V, T
  <2> QED BY <1>2, <1>3, <2>1, <2>2, SummationAgrees
<1> QED BY <1>2, <1>3, <1>5, <1>6

\* The sum is a natural number.
LEMMA SizeSumType == ASSUME NEW F, NEW S, Sized(F, S) PROVE SizeSum(F, S) \in Nat
<1>1. PICK it \in [SUBSET S -> Nat] : SizeSum(F, S) = it[S]
  BY SizeSumIsSummation
<1> QED BY <1>1

\* A message put in adds its size to the sum.
LEMMA SizeSumAdd ==
    ASSUME NEW F, NEW S, NEW x, x \notin S, Sized(F, S), F[x].size \in Nat
    PROVE  /\ Sized(F, S \cup {x})
           /\ SizeSum(F, S \cup {x}) = F[x].size + SizeSum(F, S)
<1>1. Sized(F, S \cup {x})
  BY FS_AddElement DEF Sized
<1>2. (S \cup {x}) \ {x} = S
  OBVIOUS
<1> QED BY <1>1, <1>2, SizeSumRemove

-----------------------------------------------------------------------------
(* The sum of the sizes of the messages in a queue *)

\* A queue has finitely many messages, and they have sizes.
LEMMA QueueSized ==
    ASSUME NEW M, \A m \in M : m.size \in Nat, NEW q \in Seq(M)
    PROVE  /\ Sized(q, DOMAIN q) /\ SizeSum(q, DOMAIN q) \in Nat
           /\ Len(q) \in Nat /\ DOMAIN q = 1..Len(q)
<1>1. Len(q) \in Nat /\ DOMAIN q = 1..Len(q)
  OBVIOUS
<1>2. 1 \in Int /\ Len(q) \in Int
  BY <1>1
<1>3. IsFiniteSet(1..Len(q))
  BY <1>2, FS_Interval
<1>4. Sized(q, DOMAIN q)
  BY <1>1, <1>3 DEF Sized
<1> QED BY <1>1, <1>4, SizeSumType

\* A message added at the end adds its size.
LEMMA QueueSumAppend ==
    ASSUME NEW M, \A m \in M : m.size \in Nat, NEW q \in Seq(M), NEW e \in M
    PROVE  SizeSum(Append(q, e), DOMAIN Append(q, e)) = e.size + SizeSum(q, DOMAIN q)
<1> DEFINE n == Len(q) + 1
           S == DOMAIN q
           a == Append(q, e)
<1>0. Sized(q, S) /\ Len(q) \in Nat /\ S = 1..Len(q)
  BY QueueSized
<1>1. /\ DOMAIN a = S \cup {n} /\ n \notin S
      /\ a[n].size = e.size /\ a[n].size \in Nat
      /\ \A i \in S : q[i].size = a[i].size
  BY <1>0
<1> HIDE DEF n, S, a
<1>2. Sized(a, S) /\ SizeSum(q, S) = SizeSum(a, S)
  BY <1>0, <1>1, SizeSumAgrees DEF Sized
<1>3. SizeSum(a, S \cup {n}) = a[n].size + SizeSum(a, S)
  BY <1>1, <1>2, SizeSumAdd
<1> QED BY <1>1, <1>2, <1>3 DEF S, a

\* The head taken out takes its size out, although the others move up.
LEMMA QueueSumTail ==
    ASSUME NEW M, \A m \in M : m.size \in Nat, NEW q \in Seq(M), q # <<>>
    PROVE  SizeSum(q, DOMAIN q) = Head(q).size + SizeSum(Tail(q), DOMAIN Tail(q))
<1> DEFINE t == Tail(q)
           k == Len(t)
           G == {n \in Nat : n <= k => SizeSum(q, 1..(n + 1)) = q[1].size + SizeSum(t, 1..n)}
<1>0. /\ t \in Seq(M) /\ k \in Nat /\ Len(q) = k + 1 /\ q[1] = Head(q)
      /\ DOMAIN q = 1..(k + 1) /\ DOMAIN t = 1..k
      /\ \A i \in 1..k : t[i] = q[i + 1]
  OBVIOUS
<1>1. /\ \A i \in 1..(k + 1) : q[i].size \in Nat
      /\ \A i \in 1..k : t[i].size \in Nat
  BY <1>0
<1>2. \A n \in Nat : IsFiniteSet(1..n)
  <2>1. \A n \in Nat : n \in Int /\ 1 \in Int
    OBVIOUS
  <2> QED BY <2>1, FS_Interval
<1>3. ASSUME NEW n \in Nat, n <= k
      PROVE  /\ Sized(q, 1..(n + 1)) /\ SizeSum(q, 1..(n + 1)) \in Nat
             /\ Sized(t, 1..n) /\ SizeSum(t, 1..n) \in Nat
  <2>1. 1..(n + 1) \subseteq 1..(k + 1) /\ 1..n \subseteq 1..k
    BY <1>0, <1>3
  <2>2. IsFiniteSet(1..(n + 1)) /\ IsFiniteSet(1..n)
    BY <1>2
  <2>3. Sized(q, 1..(n + 1)) /\ Sized(t, 1..n)
    BY <1>1, <2>1, <2>2 DEF Sized
  <2> QED BY <2>3, SizeSumType
<1> HIDE DEF t, k
<1>4. 0 \in G
  <2>1. 1..(0 + 1) = {} \cup {1} /\ 1..0 = {} /\ 0 <= k /\ 0 \in Nat
    BY <1>0
  <2>2. Sized(q, {}) /\ q[1].size \in Nat
    BY <1>0, <1>1, FS_EmptySet DEF Sized
  <2>3. SizeSum(q, {} \cup {1}) = q[1].size + SizeSum(q, {})
    BY <2>2, SizeSumAdd
  <2>4. SizeSum(q, 1..(0 + 1)) = q[1].size + SizeSum(t, 1..0)
    BY <2>1, <2>3, SizeSumEmpty
  <2> QED BY <2>1, <2>4
<1>5. ASSUME NEW n \in G PROVE n + 1 \in G
  <2>0. n \in Nat /\ n + 1 \in Nat
    OBVIOUS
  <2>1. SUFFICES ASSUME n + 1 <= k
                 PROVE  SizeSum(q, 1..(n + 2)) = q[1].size + SizeSum(t, 1..(n + 1))
    BY <2>0
  <2>2. SizeSum(q, 1..(n + 1)) = q[1].size + SizeSum(t, 1..n)
    BY <1>0, <2>0, <2>1
  <2>3. /\ Sized(q, 1..(n + 1)) /\ Sized(t, 1..n) /\ SizeSum(t, 1..n) \in Nat
    BY <1>0, <1>3, <2>0, <2>1
  <2>4. /\ 1..(n + 2) = (1..(n + 1)) \cup {n + 2} /\ n + 2 \notin 1..(n + 1)
        /\ 1..(n + 1) = (1..n) \cup {n + 1} /\ n + 1 \notin 1..n
    BY <2>0
  <2>5. q[n + 2].size \in Nat /\ t[n + 1].size = q[n + 2].size /\ q[1].size \in Nat
    <3>1. n + 2 \in 1..(k + 1) /\ n + 1 \in 1..k /\ (n + 1) + 1 = n + 2
      BY <1>0, <2>0, <2>1
    <3>2. 1 \in 1..(k + 1)
      BY <1>0
    <3> QED BY <1>0, <1>1, <3>1, <3>2
  <2>6. SizeSum(q, 1..(n + 2)) = q[n + 2].size + SizeSum(q, 1..(n + 1))
    <3> DEFINE A == 1..(n + 1)
               x == n + 2
    <3>1. Sized(q, A) /\ x \notin A /\ q[x].size \in Nat /\ 1..x = A \cup {x}
      BY <2>3, <2>4, <2>5
    <3> HIDE DEF A, x
    <3>2. SizeSum(q, A \cup {x}) = q[x].size + SizeSum(q, A)
      BY <3>1, SizeSumAdd
    <3> QED BY <3>1, <3>2 DEF A, x
  <2>7. SizeSum(t, 1..(n + 1)) = t[n + 1].size + SizeSum(t, 1..n)
    <3> DEFINE A == 1..n
               x == n + 1
    <3>1. Sized(t, A) /\ x \notin A /\ t[x].size \in Nat /\ 1..x = A \cup {x}
      BY <2>3, <2>4, <2>5
    <3> HIDE DEF A, x
    <3>2. SizeSum(t, A \cup {x}) = t[x].size + SizeSum(t, A)
      BY <3>1, SizeSumAdd
    <3> QED BY <3>1, <3>2 DEF A, x
  <2> QED BY <2>2, <2>3, <2>5, <2>6, <2>7
<1>6. G = Nat
  <2> HIDE DEF G
  <2>1. G \in SUBSET Nat
    BY DEF G
  <2> QED BY <1>4, <1>5, <2>1, NatSetInduction
<1>7. SizeSum(q, 1..(k + 1)) = q[1].size + SizeSum(t, 1..k)
  BY <1>0, <1>6
<1> QED BY <1>0, <1>7 DEF t

-----------------------------------------------------------------------------
(* The sum of the values of a function *)

\* The sum of the values that W has on S.
WeightSum(W, S) == MapThenSumSet(LAMBDA x : W[x], S)

\* MapThenSumSet yields the value of a summation of W, if there is one.
LEMMA WeightSumIterates ==
    ASSUME NEW W, NEW S, NEW it, IsSummation(it, W, SUBSET S)
    PROVE  \E jt : IsSummation(jt, W, SUBSET S) /\ WeightSum(W, S) = jt[S]
BY DEF WeightSum, MapThenSumSet, MapThenFoldSet, IsSummation, Pick

\* It computes a summation of W.
LEMMA WeightSumIsSummation ==
    ASSUME NEW S, IsFiniteSet(S), NEW W \in [S -> Nat]
    PROVE  \E it \in [SUBSET S -> Nat] :
              IsSummation(it, W, SUBSET S) /\ WeightSum(W, S) = it[S]
<1>1. PICK g \in [SUBSET S -> Nat] : IsSummation(g, W, SUBSET S)
  BY SummationExists
<1>2. PICK h : IsSummation(h, W, SUBSET S) /\ WeightSum(W, S) = h[S]
  BY <1>1, WeightSumIterates
<1>3. h[S] = g[S]
  BY <1>1, <1>2, SummationAgrees
<1> QED BY <1>1, <1>2, <1>3

\* When one value changes, the sum changes by as much.
LEMMA WeightSumChange ==
    ASSUME NEW S, IsFiniteSet(S), NEW W \in [S -> Nat], NEW V \in [S -> Nat],
           NEW x \in S, \A y \in S \ {x} : V[y] = W[y]
    PROVE  /\ WeightSum(W, S) \in Nat /\ W[x] <= WeightSum(W, S)
           /\ WeightSum(V, S) = WeightSum(W, S) - W[x] + V[x]
<1> DEFINE T == S \ {x}
<1>0. IsFiniteSet(T) /\ \A y \in T : V[y] = W[y]
  BY FS_RemoveElement
<1>1. PICK f \in [SUBSET S -> Nat] : IsSummation(f, W, SUBSET S) /\ WeightSum(W, S) = f[S]
  BY WeightSumIsSummation
<1>2. PICK g \in [SUBSET S -> Nat] : IsSummation(g, V, SUBSET S) /\ WeightSum(V, S) = g[S]
  BY <1>0, WeightSumIsSummation
<1>3. f[S] = W[x] + f[T]
  BY <1>1, SummationRemove
<1>4. g[S] = V[x] + g[T]
  BY <1>0, <1>2, SummationRemove
<1>5. f[T] = g[T]
  <2>1. SUBSET T \subseteq SUBSET S
    OBVIOUS
  <2> HIDE DEF T
  <2> QED BY <1>0, <1>1, <1>2, <2>1, SummationAgrees
<1>6. f[T] \in Nat /\ W[x] \in Nat /\ V[x] \in Nat
  OBVIOUS
<1> QED BY <1>1, <1>2, <1>3, <1>4, <1>5, <1>6

\* A function that is 0 everywhere sums up to 0.
LEMMA WeightSumZero ==
    ASSUME NEW S, IsFiniteSet(S) PROVE WeightSum([x \in S |-> 0], S) = 0
<1> DEFINE W == [x \in S |-> 0]
<1>0. W \in [S -> Nat] /\ \A x \in S : W[x] = 0
  OBVIOUS
<1> HIDE DEF W
<1>1. PICK f \in [SUBSET S -> Nat] : IsSummation(f, W, SUBSET S) /\ WeightSum(W, S) = f[S]
  BY <1>0, WeightSumIsSummation
<1> DEFINE P == {s \in SUBSET S : f[s] = 0}
<1>2. {} \in P
  BY <1>1 DEF IsSummation
<1>3. ASSUME NEW s \in SUBSET S, s # {}, \A x \in s : s \ {x} \in P PROVE s \in P
  <2>1. Pick(s) \in s
    BY <1>3 DEF Pick
  <2>2. f[s] = W[Pick(s)] + f[s \ {Pick(s)}]
    BY <1>1, <1>3 DEF IsSummation
  <2> QED BY <1>0, <1>3, <2>1, <2>2
<1>4. P = SUBSET S
  <2>1. P \in SUBSET SUBSET S
    OBVIOUS
  <2>2. \A s \in SUBSET S : (s # {} /\ \A x \in s : s \ {x} \in P) => s \in P
    BY <1>3
  <2> HIDE DEF P
  <2> QED BY <1>2, <2>1, <2>2, SubsetInduction
<1> QED BY <1>1, <1>4 DEF W

-----------------------------------------------------------------------------
(* Finite sets of integers, and orders of finite sets *)

\* A finite set of integers that is not empty has a greatest and a least member.
LEMMA ExtremesExist ==
    ASSUME NEW S, IsFiniteSet(S), S \subseteq Int, S # {}
    PROVE  (\E x \in S : \A y \in S : x >= y) /\ (\E x \in S : \A y \in S : x <= y)
<1> DEFINE Has(s) == (\E x \in s : \A y \in s : x >= y) /\ (\E x \in s : \A y \in s : x <= y)
           P == {s \in SUBSET S : s # {} => Has(s)}
<1>1. {} \in P
  OBVIOUS
<1>2. ASSUME NEW s \in SUBSET S, s # {}, \A x \in s : s \ {x} \in P PROVE s \in P
  <2>1. PICK z \in s : TRUE
    BY <1>2
  <2>2. z \in Int /\ \A y \in s : y \in Int
    OBVIOUS
  <2>3. CASE s \ {z} = {}
    <3>1. \A y \in s : y = z
      BY <2>3
    <3>2. Has(s)
      BY <2>1, <2>2, <3>1
    <3> QED BY <3>2
  <2>4. CASE s \ {z} # {}
    <3>1. Has(s \ {z})
      BY <1>2, <2>4
    <3>2. PICK a \in s \ {z} : \A y \in s \ {z} : a >= y
      BY <3>1
    <3>3. PICK b \in s \ {z} : \A y \in s \ {z} : b <= y
      BY <3>1
    <3>4. \E x \in s : \A y \in s : x >= y
      <4>1. CASE a >= z
        BY <2>2, <3>2, <4>1
      <4>2. CASE z >= a
        BY <2>1, <2>2, <3>2, <4>2
      <4> QED BY <2>2, <4>1, <4>2
    <3>5. \E x \in s : \A y \in s : x <= y
      <4>1. CASE b <= z
        BY <2>2, <3>3, <4>1
      <4>2. CASE z <= b
        BY <2>1, <2>2, <3>3, <4>2
      <4> QED BY <2>2, <4>1, <4>2
    <3> QED BY <3>4, <3>5
  <2> QED BY <2>3, <2>4
<1>3. P = SUBSET S
  <2> HIDE DEF P
  <2>1. P \in SUBSET SUBSET S
    BY DEF P
  <2> QED BY <1>1, <1>2, <2>1, SubsetInduction
<1>4. S \in P
  BY <1>3
<1> QED BY <1>4

\* How many members come before one of them, R being the order.
Rank(R, S, x) == Cardinality({y \in S : <<y, x>> \in R})

\* R orders S: no member before itself, one of any two before the other, and
\* what is before a member is before all that come after it.
Orders(R, S) ==
    /\ \A x \in S : <<x, x>> \notin R
    /\ \A x, y \in S : x # y => <<x, y>> \in R \/ <<y, x>> \in R
    /\ \A x, y, z \in S : <<x, y>> \in R /\ <<y, z>> \in R => <<x, z>> \in R

\* The ranks of the members of a finite set of n are the numbers below n, each
\* that of one member.
LEMMA RanksCount ==
    ASSUME NEW S, IsFiniteSet(S), NEW R, Orders(R, S)
    PROVE  /\ Cardinality(S) \in Nat
           /\ \A x \in S : Rank(R, S, x) \in 0..(Cardinality(S) - 1)
           /\ \A x, y \in S : Rank(R, S, x) = Rank(R, S, y) => x = y
           /\ \A k \in 0..(Cardinality(S) - 1) : \E x \in S : Rank(R, S, x) = k
<1> DEFINE n == Cardinality(S)
           Down(x) == {y \in S : <<y, x>> \in R}
           T == 1..n
           f == [x \in S |-> Rank(R, S, x) + 1]
<1>1. n \in Nat
  BY FS_CardinalityType
<1>2. \A x \in S : IsFiniteSet(Down(x)) /\ Cardinality(Down(x)) \in Nat /\ Rank(R, S, x) = Cardinality(Down(x))
  BY FS_Subset, FS_CardinalityType DEF Rank
<1>3. ASSUME NEW x \in S, NEW y \in S, <<x, y>> \in R PROVE Rank(R, S, x) < Rank(R, S, y)
  <2>1. Down(x) \subseteq Down(y) /\ x \in Down(y) /\ x \notin Down(x)
    BY <1>3 DEF Orders
  <2>2. Cardinality(Down(x)) <= Cardinality(Down(y)) /\ Cardinality(Down(x)) # Cardinality(Down(y))
    BY <1>2, <2>1, FS_Subset
  <2>3. Cardinality(Down(x)) \in Nat /\ Cardinality(Down(y)) \in Nat
    BY <1>2
  <2>4. Rank(R, S, x) = Cardinality(Down(x)) /\ Rank(R, S, y) = Cardinality(Down(y))
    BY <1>2
  <2> HIDE DEF Down
  <2> QED BY <2>2, <2>3, <2>4
<1>4. ASSUME NEW x \in S PROVE Rank(R, S, x) \in 0..(n - 1)
  <2>1. Down(x) \subseteq S /\ x \notin Down(x)
    BY DEF Orders
  <2>2. Cardinality(Down(x)) <= n /\ Cardinality(Down(x)) # n
    BY <2>1, FS_Subset
  <2> QED BY <1>1, <1>2, <2>2
<1>5. \A x, y \in S : Rank(R, S, x) = Rank(R, S, y) => x = y
  <2>1. SUFFICES ASSUME NEW x \in S, NEW y \in S, x # y PROVE Rank(R, S, x) # Rank(R, S, y)
    OBVIOUS
  <2>2. <<x, y>> \in R \/ <<y, x>> \in R
    BY <2>1 DEF Orders
  <2>3. Rank(R, S, x) < Rank(R, S, y) \/ Rank(R, S, y) < Rank(R, S, x)
    BY <1>3, <2>2
  <2>4. Rank(R, S, x) \in Nat /\ Rank(R, S, y) \in Nat
    BY <1>2
  <2> QED BY <2>3, <2>4
<1> HIDE DEF Down, n
<1>6. f \in Injection(S, T)
  <2>1. f \in [S -> T]
    BY <1>1, <1>4
  <2>2. \A x, y \in S : f[x] = f[y] => x = y
    BY <1>1, <1>4, <1>5
  <2> QED BY <2>1, <2>2 DEF Injection, IsInjective
<1>7. IsFiniteSet(T) /\ Cardinality(T) = n
  BY <1>1, FS_Interval
<1>8. f \in Surjection(S, T)
  <2> HIDE DEF f, T
  <2> QED BY <1>6, <1>7, FS_Injection DEF n
<1>9. \A k \in 0..(n - 1) : \E x \in S : Rank(R, S, x) = k
  <2>1. SUFFICES ASSUME NEW k \in 0..(n - 1) PROVE \E x \in S : Rank(R, S, x) = k
    OBVIOUS
  <2>2. k + 1 \in T
    BY <1>1
  <2>3. \A t \in T : \E x \in S : f[x] = t
    BY <1>8 DEF Surjection
  <2>4. PICK x \in S : f[x] = k + 1
    BY <2>2, <2>3
  <2> QED BY <1>1, <1>4, <2>4
<1> QED BY <1>1, <1>4, <1>5, <1>9 DEF n

-----------------------------------------------------------------------------
(* Sequences without duplicates *)

\* No element occurs twice.
Distinct(s) == \A i, j \in 1..Len(s) : s[i] = s[j] => i = j

\* The elements, by their places.
LEMMA ToSetPlaces ==
    ASSUME NEW T, NEW s \in Seq(T)
    PROVE  /\ ToSet(s) = {s[i] : i \in 1..Len(s)}
           /\ ToSet(s) \subseteq T
           /\ \A x : x \in ToSet(s) <=> \E i \in 1..Len(s) : s[i] = x
           /\ \A i \in 1..Len(s) : s[i] \in ToSet(s)
<1>1. DOMAIN s = 1..Len(s) /\ \A i \in 1..Len(s) : s[i] \in T
  BY LenProperties, ElementOfSeq
<1> QED BY <1>1 DEF ToSet

\* The empty sequence.
LEMMA EmptyFacts == ToSet(<<>>) = {} /\ Distinct(<<>>) /\ Len(<<>>) = 0
<1>1. <<>> \in Seq({}) /\ Len(<<>>) = 0 /\ 1..0 = {}
  BY EmptySeq
<1>2. ToSet(<<>>) \subseteq {}
  BY <1>1, ToSetPlaces
<1> QED BY <1>1, <1>2 DEF Distinct

\* An element joins at the end.
LEMMA AppendFacts ==
    ASSUME NEW T, NEW s \in Seq(T), NEW x \in T
    PROVE  /\ Append(s, x) \in Seq(T)
           /\ ToSet(Append(s, x)) = ToSet(s) \cup {x}
           /\ Distinct(s) /\ x \notin ToSet(s) => Distinct(Append(s, x))
<1> DEFINE t == Append(s, x)
<1>1. /\ t \in Seq(T) /\ Len(t) = Len(s) + 1 /\ t[Len(s) + 1] = x /\ Len(s) \in Nat
      /\ \A i \in 1..Len(s) : t[i] = s[i]
  BY AppendProperties, LenProperties
<1> HIDE DEF t
<1>2. \A i \in 1..Len(t) : i \in 1..Len(s) \/ i = Len(s) + 1
  BY <1>1
<1>3. \A i \in 1..Len(s) : i \in 1..Len(t) /\ i # Len(s) + 1
  BY <1>1
<1>4. Len(s) + 1 \in 1..Len(t)
  BY <1>1
<1>5. ToSet(t) = {t[i] : i \in 1..Len(t)} /\ ToSet(s) = {s[i] : i \in 1..Len(s)}
  BY <1>1, ToSetPlaces
<1>6. ToSet(t) = ToSet(s) \cup {x}
  BY <1>1, <1>2, <1>3, <1>4, <1>5
<1>7. ASSUME Distinct(s), x \notin ToSet(s) PROVE Distinct(t)
  <2> SUFFICES ASSUME NEW i \in 1..Len(t), NEW j \in 1..Len(t), t[i] = t[j] PROVE i = j
    BY DEF Distinct
  <2>1. CASE i \in 1..Len(s) /\ j \in 1..Len(s)
    BY <2>1, <1>1, <1>7 DEF Distinct
  <2>2. CASE i \in 1..Len(s) /\ j = Len(s) + 1
    BY <2>2, <1>1, <1>5, <1>7
  <2>3. CASE i = Len(s) + 1 /\ j \in 1..Len(s)
    BY <2>3, <1>1, <1>5, <1>7
  <2> QED BY <2>1, <2>2, <2>3, <1>2
<1> QED BY <1>1, <1>6, <1>7 DEF t

\* The first element goes.
LEMMA TailFacts ==
    ASSUME NEW T, NEW s \in Seq(T), s # <<>>
    PROVE  /\ Head(s) \in T /\ Tail(s) \in Seq(T) /\ Head(s) = s[1]
           /\ Len(s) \in Nat \ {0} /\ Len(Tail(s)) = Len(s) - 1
           /\ \A i \in 1..(Len(s) - 1) : Tail(s)[i] = s[i + 1]
           /\ ToSet(s) = ToSet(Tail(s)) \cup {Head(s)}
           /\ Distinct(s) => Distinct(Tail(s)) /\ Head(s) \notin ToSet(Tail(s))
<1> DEFINE t == Tail(s)
<1>1. /\ t \in Seq(T) /\ Len(s) \in Nat \ {0} /\ Len(t) = Len(s) - 1 /\ Head(s) = s[1]
      /\ Head(s) \in T
      /\ \A i \in 1..(Len(s) - 1) : t[i] = s[i + 1]
  BY HeadTailProperties, EmptySeq
<1> HIDE DEF t
<1>2. \A i \in 1..Len(t) : i + 1 \in 1..Len(s) /\ i + 1 # 1
  BY <1>1
<1>3. \A i \in 1..Len(s) : i = 1 \/ (i - 1 \in 1..Len(t) /\ (i - 1) + 1 = i)
  BY <1>1
<1>4. 1 \in 1..Len(s)
  BY <1>1
<1>5. ToSet(t) = {t[i] : i \in 1..Len(t)} /\ ToSet(s) = {s[i] : i \in 1..Len(s)}
  BY <1>1, ToSetPlaces
<1>6. ToSet(s) = ToSet(t) \cup {Head(s)}
  <2>1. ASSUME NEW x \in ToSet(s) PROVE x \in ToSet(t) \cup {Head(s)}
    <3>1. PICK i \in 1..Len(s) : x = s[i]
      BY <2>1, <1>5
    <3>2. i # 1 => s[i] = t[i - 1] /\ i - 1 \in 1..Len(t)
      BY <3>1, <1>1, <1>3
    <3> QED BY <3>1, <3>2, <1>1, <1>5
  <2>2. ASSUME NEW x \in ToSet(t) PROVE x \in ToSet(s)
    BY <2>2, <1>1, <1>2, <1>5
  <2>3. Head(s) \in ToSet(s)
    BY <1>1, <1>4, <1>5
  <2> QED BY <2>1, <2>2, <2>3
<1>7. ASSUME Distinct(s) PROVE Distinct(t) /\ Head(s) \notin ToSet(t)
  <2>1. ASSUME NEW i \in 1..Len(t), NEW j \in 1..Len(t), t[i] = t[j] PROVE i = j
    <3>1. s[i + 1] = s[j + 1]
      BY <2>1, <1>1
    <3>2. i + 1 = j + 1
      BY <3>1, <1>2, <1>7 DEF Distinct
    <3> QED BY <3>2
  <2>2. ASSUME NEW i \in 1..Len(t), t[i] = s[1] PROVE FALSE
    <3>1. s[i + 1] = s[1]
      BY <2>2, <1>1
    <3> QED BY <3>1, <1>2, <1>4, <1>7 DEF Distinct
  <2> QED BY <2>1, <2>2, <1>1, <1>5 DEF Distinct
<1> QED BY <1>1, <1>6, <1>7 DEF t

\* Two sequences, one after the other.
LEMMA ConcatFacts ==
    ASSUME NEW T, NEW s \in Seq(T), NEW t \in Seq(T)
    PROVE  /\ s \o t \in Seq(T) /\ Len(s \o t) = Len(s) + Len(t)
           /\ ToSet(s \o t) = ToSet(s) \cup ToSet(t)
           /\ Distinct(s) /\ Distinct(t) /\ ToSet(s) \cap ToSet(t) = {} => Distinct(s \o t)
<1> DEFINE u == s \o t
<1>1. /\ u \in Seq(T) /\ Len(u) = Len(s) + Len(t) /\ Len(s) \in Nat /\ Len(t) \in Nat
      /\ \A i \in 1..Len(u) : u[i] = IF i <= Len(s) THEN s[i] ELSE t[i - Len(s)]
  BY ConcatProperties, LenProperties
<1> HIDE DEF u
<1>2. \A i \in 1..Len(u) : \/ i \in 1..Len(s) /\ u[i] = s[i]
                           \/ i - Len(s) \in 1..Len(t) /\ u[i] = t[i - Len(s)]
  BY <1>1
<1>3. \A i \in 1..Len(s) : i \in 1..Len(u) /\ u[i] = s[i]
  BY <1>1
<1>4. \A i \in 1..Len(t) : i + Len(s) \in 1..Len(u) /\ u[i + Len(s)] = t[i]
  BY <1>1
<1>5. /\ ToSet(s) = {s[i] : i \in 1..Len(s)} /\ ToSet(t) = {t[i] : i \in 1..Len(t)}
      /\ ToSet(u) = {u[i] : i \in 1..Len(u)}
  <2>1. ToSet(u) = {u[i] : i \in 1..Len(u)}
    BY <1>1, ToSetPlaces
  <2> QED BY <2>1, ToSetPlaces
<1>6. ToSet(u) = ToSet(s) \cup ToSet(t)
  <2>1. ToSet(u) \subseteq ToSet(s) \cup ToSet(t)
    BY <1>2, <1>5
  <2>2. ToSet(s) \subseteq ToSet(u)
    BY <1>3, <1>5
  <2>3. ToSet(t) \subseteq ToSet(u)
    BY <1>4, <1>5
  <2> QED BY <2>1, <2>2, <2>3
<1>7. ASSUME Distinct(s), Distinct(t), ToSet(s) \cap ToSet(t) = {} PROVE Distinct(u)
  <2> SUFFICES ASSUME NEW i \in 1..Len(u), NEW j \in 1..Len(u), u[i] = u[j] PROVE i = j
    BY DEF Distinct
  <2>1. CASE i <= Len(s) /\ j <= Len(s)
    <3>1. i \in 1..Len(s) /\ j \in 1..Len(s) /\ s[i] = s[j]
      BY <2>1, <1>1
    <3> QED BY <3>1, <1>7 DEF Distinct
  <2>2. CASE ~(i <= Len(s)) /\ ~(j <= Len(s))
    <3>1. i - Len(s) \in 1..Len(t) /\ j - Len(s) \in 1..Len(t) /\ t[i - Len(s)] = t[j - Len(s)]
      BY <2>2, <1>1
    <3>2. i - Len(s) = j - Len(s)
      BY <3>1, <1>7 DEF Distinct
    <3> QED BY <3>2, <1>1
  <2>3. CASE i <= Len(s) /\ ~(j <= Len(s))
    <3>1. i \in 1..Len(s) /\ j - Len(s) \in 1..Len(t) /\ s[i] = t[j - Len(s)]
      BY <2>3, <1>1
    <3> QED BY <3>1, <1>5, <1>7
  <2>4. CASE ~(i <= Len(s)) /\ j <= Len(s)
    <3>1. j \in 1..Len(s) /\ i - Len(s) \in 1..Len(t) /\ s[j] = t[i - Len(s)]
      BY <2>4, <1>1
    <3> QED BY <3>1, <1>5, <1>7
  <2> QED BY <2>1, <2>2, <2>3, <2>4
<1> QED BY <1>1, <1>6, <1>7 DEF u

\* A sequence, backwards.
LEMMA ReverseFacts ==
    ASSUME NEW T, NEW s \in Seq(T)
    PROVE  /\ Reverse(s) \in Seq(T)
           /\ ToSet(Reverse(s)) = ToSet(s)
           /\ Distinct(s) => Distinct(Reverse(s))
<1> DEFINE r == [i \in 1..Len(s) |-> s[(Len(s) - i) + 1]]
<1>1. Len(s) \in Nat /\ \A i \in 1..Len(s) : s[i] \in T
  BY LenProperties, ElementOfSeq
<1>2. \A i \in 1..Len(s) : (Len(s) - i) + 1 \in 1..Len(s)
                           /\ (Len(s) - ((Len(s) - i) + 1)) + 1 = i
  BY <1>1
<1>3. r \in Seq(T) /\ Len(r) = Len(s) /\ \A i \in 1..Len(s) : r[i] = s[(Len(s) - i) + 1]
  BY <1>1, <1>2
<1>4. Reverse(s) = r
  BY DEF Reverse
<1> HIDE DEF r
<1>5. ToSet(r) = {r[i] : i \in 1..Len(s)} /\ ToSet(s) = {s[i] : i \in 1..Len(s)}
  BY <1>3, ToSetPlaces
<1>6. ToSet(r) = ToSet(s)
  <2>1. ToSet(r) \subseteq ToSet(s)
    BY <1>2, <1>3, <1>5
  <2>2. ASSUME NEW i \in 1..Len(s) PROVE s[i] \in ToSet(r)
    <3>1. r[(Len(s) - i) + 1] = s[i]
      BY <1>2, <1>3
    <3> QED BY <3>1, <1>2, <1>5
  <2> QED BY <2>1, <2>2, <1>5
<1>7. ASSUME Distinct(s) PROVE Distinct(r)
  <2> SUFFICES ASSUME NEW i \in 1..Len(s), NEW j \in 1..Len(s), r[i] = r[j] PROVE i = j
    BY <1>3 DEF Distinct
  <2>1. (Len(s) - i) + 1 = (Len(s) - j) + 1
    BY <1>2, <1>3, <1>7 DEF Distinct
  <2> QED BY <2>1, <1>1
<1> QED BY <1>3, <1>4, <1>6, <1>7

\* What is left of a sequence from some place on.
LEMMA SuffixFacts ==
    ASSUME NEW T, NEW s \in Seq(T), NEW k \in 1..(Len(s) + 1)
    PROVE  /\ SubSeq(s, k, Len(s)) \in Seq(T)
           /\ ToSet(SubSeq(s, k, Len(s))) \subseteq ToSet(s)
           /\ Distinct(s) => Distinct(SubSeq(s, k, Len(s)))
<1> DEFINE n == Len(s)
           u == SubSeq(s, k, n)
<1>1. n \in Nat /\ \A i \in 1..n : s[i] \in T
  BY LenProperties, ElementOfSeq
<1>2. u \in Seq(T) /\ Len(u) = (IF k <= n THEN n - k + 1 ELSE 0)
      /\ \A i \in 1..(n - k + 1) : u[i] = s[k + i - 1]
  <2>1. k \in Int /\ n \in Int /\ \A i \in k..n : s[i] \in T
    BY <1>1
  <2> HIDE DEF n
  <2> QED BY <2>1, SubSeqProperties
<1> HIDE DEF u, n
<1>3. \A i \in 1..Len(u) : i \in 1..(n - k + 1) /\ k + i - 1 \in 1..n
  BY <1>1, <1>2
<1>4. ToSet(u) = {u[i] : i \in 1..Len(u)} /\ ToSet(s) = {s[i] : i \in 1..n}
  BY <1>2, ToSetPlaces DEF n
<1>5. ToSet(u) \subseteq ToSet(s)
  BY <1>2, <1>3, <1>4
<1>6. ASSUME Distinct(s) PROVE Distinct(u)
  <2> SUFFICES ASSUME NEW i \in 1..Len(u), NEW j \in 1..Len(u), u[i] = u[j] PROVE i = j
    BY DEF Distinct
  <2>1. k + i - 1 = k + j - 1
    BY <1>2, <1>3, <1>6 DEF Distinct, n
  <2> QED BY <2>1
<1> QED BY <1>2, <1>5, <1>6 DEF u, n

\* The rest of a log that grows, and of one that is read.
LEMMA SuffixSteps ==
    ASSUME NEW T, NEW s \in Seq(T), NEW k \in 1..(Len(s) + 1)
    PROVE  /\ \A x \in T : SubSeq(Append(s, x), k, Len(s) + 1)
                             = Append(SubSeq(s, k, Len(s)), x)
           /\ k <= Len(s) => /\ SubSeq(s, k, Len(s)) # <<>>
                             /\ Head(SubSeq(s, k, Len(s))) = s[k]
                             /\ Tail(SubSeq(s, k, Len(s))) = SubSeq(s, k + 1, Len(s))
           /\ k = Len(s) + 1 => SubSeq(s, k, Len(s)) = <<>>
<1>1. Len(s) \in Nat /\ k \in Nat /\ \A i \in 1..Len(s) : s[i] \in T
  BY LenProperties, ElementOfSeq
<1>2. ASSUME NEW x \in T
      PROVE  SubSeq(Append(s, x), k, Len(s) + 1) = Append(SubSeq(s, k, Len(s)), x)
  <2> DEFINE n == Len(s)
             t == Append(s, x)
  <2>1. t \in Seq(T) /\ Len(t) = n + 1 /\ t[n + 1] = x /\ \A i \in 1..n : t[i] = s[i]
    BY AppendProperties
  <2> HIDE DEF t
  <2>2. k \in 1..Len(t) /\ n + 1 \in k..Len(t)
    BY <1>1, <2>1
  <2>3. SubSeq(t, k, n + 1) = SubSeq(t, k, (n + 1) - 1) \o << t[n + 1] >>
    BY <2>1, <2>2, SubSeqRecursiveSecond
  <2>4. (n + 1) - 1 = n
    BY <1>1
  <2>5. SubSeq(t, k, n) = SubSeq(s, k, n)
    <3>1. \A i \in k..n : t[i] \in T /\ s[i] \in T
      BY <1>1, <2>1
    <3> DEFINE a == SubSeq(t, k, n)
               b == SubSeq(s, k, n)
    <3>2. a \in Seq(T) /\ Len(a) = (IF k <= n THEN n-k+1 ELSE 0) /\ \A i \in 1..(n-k+1) : a[i] = t[k+i-1]
      BY <1>1, <3>1, SubSeqProperties
    <3>3. b \in Seq(T) /\ Len(b) = (IF k <= n THEN n-k+1 ELSE 0) /\ \A i \in 1..(n-k+1) : b[i] = s[k+i-1]
      BY <1>1, <3>1, SubSeqProperties
    <3> HIDE DEF a, b
    <3>4. \A i \in 1..Len(a) : a[i] = b[i]
      <4> HIDE DEF n
      <4> SUFFICES ASSUME NEW i \in 1..Len(a) PROVE a[i] = b[i]
        OBVIOUS
      <4>1. i \in 1..(n - k + 1) /\ k + i - 1 \in 1..n
        BY <1>1, <3>2 DEF n
      <4> QED BY <4>1, <2>1, <3>2, <3>3
    <3>5. a = b
      BY <3>2, <3>3, <3>4, SeqEqual
    <3> QED BY <3>5 DEF a, b
  <2>6. SubSeq(s, k, n) \in Seq(T)
    BY SuffixFacts
  <2>7. Append(SubSeq(s, k, n), x) = SubSeq(s, k, n) \o <<x>>
    BY <2>6, AppendIsConcat
  <2> QED BY <2>1, <2>3, <2>4, <2>5, <2>7 DEF t
<1>3. ASSUME k <= Len(s)
      PROVE  /\ SubSeq(s, k, Len(s)) # <<>>
             /\ Head(SubSeq(s, k, Len(s))) = s[k]
             /\ Tail(SubSeq(s, k, Len(s))) = SubSeq(s, k + 1, Len(s))
  <2>1. k \in 1..Len(s) /\ Len(s) \in k..Len(s)
    BY <1>1, <1>3
  <2>2. Len(SubSeq(s, k, Len(s))) = Len(s) - k + 1
    <3>1. k \in Int /\ Len(s) \in Int /\ \A i \in k..Len(s) : s[i] \in T
      BY <1>1
    <3> QED BY <3>1, <1>3, SubSeqProperties
  <2>3. SubSeq(s, k, Len(s)) # <<>>
    BY <2>2, <1>1, <1>3, EmptyFacts
  <2> QED BY <2>1, <2>3, HeadTailOfSubSeq
<1>4. ASSUME k = Len(s) + 1 PROVE SubSeq(s, k, Len(s)) = <<>>
  BY <1>1, <1>4, SubSeqEmpty
<1> QED BY <1>2, <1>3, <1>4

\* A sequence without duplicates is as long as it has elements.
LEMMA DistinctCounts ==
    ASSUME NEW T, NEW s \in Seq(T), Distinct(s)
    PROVE  Len(s) = Cardinality(ToSet(s))
<1>1. Len(s) \in Nat /\ s \in [1..Len(s) -> T]
  BY LenProperties
<1>2. ToSet(s) = {s[i] : i \in 1..Len(s)}
  BY ToSetPlaces
<1>3. s \in Bijection(1..Len(s), ToSet(s))
  BY <1>1, <1>2 DEF Distinct, Bijection, Injection, Surjection, IsInjective
<1>4. ExistsBijection(1..Len(s), ToSet(s))
  BY <1>3 DEF ExistsBijection
<1> QED BY <1>1, <1>4, FS_CountingElements

\* The first element of the second sequence moves to the end of the first.
LEMMA MoveFirst ==
    ASSUME NEW T, NEW s \in Seq(T), NEW t \in Seq(T), t # <<>>
    PROVE  Append(s, Head(t)) \o Tail(t) = s \o t
<1>1. Head(t) \in T /\ Tail(t) \in Seq(T)
  BY HeadTailProperties
<1>2. Append(s, Head(t)) = s \o <<Head(t)>> /\ <<Head(t)>> \in Seq(T)
  BY <1>1, AppendIsConcat
<1>3. (s \o <<Head(t)>>) \o Tail(t) = s \o (<<Head(t)>> \o Tail(t))
  BY <1>1, <1>2, ConcatAssociative
<1>4. <<Head(t)>> \o Tail(t) = t
  BY <1>1
<1> QED BY <1>2, <1>3, <1>4

=============================================================================
