------------------------------ MODULE FoldFacts -----------------------------
(***************************************************************************)
(* Induction over the folds and the recursive functions of the models.     *)
(*                                                                         *)
(* A fold goes on with an operator, and what it keeps is a predicate:      *)
(* both are constants of this module, which a proof instantiates once for  *)
(* each fold it reasons about.  Op(cx, a, x) is the accumulator a after    *)
(* the element x, in the context cx; Inv(cx, done, a) holds of the         *)
(* accumulator once done is done: a number of elements, or a set of them.  *)
(*                                                                         *)
(* Each instance is a copy of the module and of all it extends, so it      *)
(* extends no theorems: induction over the natural numbers is a hypothesis *)
(* of its lemmas that an instance discharges (NatSetInduction of           *)
(* DataFacts), and so are the sizes of the subsets of a finite set.        *)
(***************************************************************************)
EXTENDS Integers

CONSTANTS Op(_, _, _), Inv(_, _, _)

\* Induction: a set of natural numbers that has 0, and with a number the next
\* one, has them all.
NatInduction == \A P \in SUBSET Nat : (0 \in P /\ \A n \in P : n + 1 \in P) => P = Nat

\* Any member of a set.
Pick(s) == CHOOSE x \in s : TRUE

-----------------------------------------------------------------------------
(* Folds over the subsets of a set that get smaller *)

\* Every subset of S that is not empty has a member to pick, and a smaller size
\* without it. No size exceeds that of S.
Shrinking(S, pick, size) ==
    /\ size \in [SUBSET S -> Nat]
    /\ \A s \in SUBSET S :
        /\ size[s] <= size[S]
        /\ s # {} => pick[s] \in s /\ size[s \ {pick[s]}] < size[s]

\* The subsets of size n at most.
UpToSize(n, S, size) == {s \in SUBSET S : size[s] <= n}

\* A set without the member picked is smaller.
LEMMA PickedSmaller ==
    ASSUME NEW S, NEW pick, NEW size, Shrinking(S, pick, size),
           NEW n \in Nat, NEW s \in UpToSize(n + 1, S, size), s # {}
    PROVE  s \ {pick[s]} \in UpToSize(n, S, size)
<1>1. s \in SUBSET S /\ size[s] <= n + 1 /\ s \ {pick[s]} \in SUBSET S
  BY DEF UpToSize
<1>2. size[s] \in Nat /\ size[s \ {pick[s]}] \in Nat /\ size[s \ {pick[s]}] < size[s]
  BY <1>1 DEF Shrinking
<1> QED BY <1>1, <1>2 DEF UpToSize

\* Only the empty set has size 0.
LEMMA SizeNothing ==
    ASSUME NEW S, NEW pick, NEW size, Shrinking(S, pick, size), NEW s \in UpToSize(0, S, size)
    PROVE  s = {}
<1>1. SUFFICES ASSUME s # {} PROVE FALSE
  OBVIOUS
<1>2. s \in SUBSET S /\ size[s] <= 0 /\ s \ {pick[s]} \in SUBSET S
  BY DEF UpToSize
<1>3. size[s] \in Nat /\ size[s \ {pick[s]}] \in Nat /\ size[s \ {pick[s]}] < size[s]
  BY <1>1, <1>2 DEF Shrinking
<1> QED BY <1>2, <1>3

\* All of them are of the size of S at most.
LEMMA SizeAll ==
    ASSUME NEW S, NEW pick, NEW size, Shrinking(S, pick, size)
    PROVE  UpToSize(size[S], S, size) = SUBSET S /\ size[S] \in Nat
<1>1. S \in SUBSET S
  OBVIOUS
<1> QED BY <1>1 DEF Shrinking, UpToSize

\* Induction over the subsets, by their size.
LEMMA SubsetInduction ==
    ASSUME NatInduction, NEW S, NEW pick, NEW size, Shrinking(S, pick, size),
           NEW P \in SUBSET SUBSET S, {} \in P,
           \A s \in SUBSET S : (s # {} /\ s \ {pick[s]} \in P) => s \in P
    PROVE  P = SUBSET S
<1> DEFINE G == {n \in Nat : UpToSize(n, S, size) \subseteq P}
<1>1. 0 \in G
  BY SizeNothing
<1>2. ASSUME NEW n \in G PROVE n + 1 \in G
  <2>1. n \in Nat /\ n + 1 \in Nat /\ UpToSize(n, S, size) \subseteq P
    OBVIOUS
  <2>2. ASSUME NEW s \in UpToSize(n + 1, S, size) PROVE s \in P
    <3>1. s \in SUBSET S
      BY DEF UpToSize
    <3>2. s # {} => s \ {pick[s]} \in UpToSize(n, S, size)
      BY <2>1, PickedSmaller
    <3> QED BY <2>1, <3>1, <3>2
  <2> QED BY <2>1, <2>2
<1>3. G = Nat
  <2> HIDE DEF G
  <2>1. G \in SUBSET Nat
    BY DEF G
  <2> QED BY <1>1, <1>2, <2>1 DEF NatInduction
<1>4. UpToSize(size[S], S, size) = SUBSET S /\ size[S] \in G
  BY <1>3, SizeAll
<1> QED BY <1>4

\* it folds the elements elem of the members of a set, pick choosing the
\* member that comes last, for all the sets of D.
IsFold(it, cx, base, pick, elem, D) ==
    it = [s \in D |-> IF s = {} THEN base ELSE Op(cx, it[s \ {pick[s]}], elem[pick[s]])]

\* Such a fold exists, whatever the operator.
LEMMA FoldExists ==
    ASSUME NatInduction, NEW S, NEW pick, NEW size, Shrinking(S, pick, size),
           NEW elem, NEW cx, NEW base
    PROVE  \E it : IsFold(it, cx, base, pick, elem, SUBSET S)
<1> DEFINE G == {n \in Nat : \E it : IsFold(it, cx, base, pick, elem, UpToSize(n, S, size))}
<1>0. \A s \in SUBSET S : size[s] \in Nat
  BY DEF Shrinking
<1>1. 0 \in G
  <2>1. \A s \in UpToSize(0, S, size) : s = {}
    BY SizeNothing
  <2>2. IsFold([s \in UpToSize(0, S, size) |-> base], cx, base, pick, elem, UpToSize(0, S, size))
    BY <2>1 DEF IsFold
  <2> QED BY <2>2
<1>2. ASSUME NEW n \in G PROVE n + 1 \in G
  <2>0. n \in Nat
    OBVIOUS
  <2>1. PICK g : IsFold(g, cx, base, pick, elem, UpToSize(n, S, size))
    OBVIOUS
  <2> DEFINE h == [s \in UpToSize(n + 1, S, size) |->
                     IF s = {} THEN base ELSE Op(cx, g[s \ {pick[s]}], elem[pick[s]])]
  <2>2. ASSUME NEW s \in UpToSize(n + 1, S, size), s # {} PROVE s \ {pick[s]} \in UpToSize(n, S, size)
    BY <2>0, <2>2, PickedSmaller
  <2>3. ASSUME NEW s \in UpToSize(n, S, size) PROVE s \in UpToSize(n + 1, S, size) /\ h[s] = g[s]
    <3>1. s \in UpToSize(n + 1, S, size)
      BY <1>0, <2>0 DEF UpToSize
    <3> QED BY <2>1, <3>1 DEF IsFold
  <2>4. IsFold(h, cx, base, pick, elem, UpToSize(n + 1, S, size))
    <3>1. ASSUME NEW s \in UpToSize(n + 1, S, size)
          PROVE  h[s] = IF s = {} THEN base ELSE Op(cx, h[s \ {pick[s]}], elem[pick[s]])
      <4>1. CASE s = {}
        BY <4>1
      <4>2. CASE s # {}
        <5>1. h[s \ {pick[s]}] = g[s \ {pick[s]}]
          BY <2>2, <2>3, <4>2
        <5>2. h[s] = Op(cx, g[s \ {pick[s]}], elem[pick[s]])
          BY <4>2
        <5> QED BY <4>2, <5>1, <5>2
      <4> QED BY <4>1, <4>2
    <3>2. h = [s \in UpToSize(n + 1, S, size) |-> h[s]]
      OBVIOUS
    <3> HIDE DEF h
    <3> QED BY <3>1, <3>2 DEF IsFold
  <2> HIDE DEF h
  <2> QED BY <2>0, <2>4
<1>3. G = Nat
  <2> HIDE DEF G
  <2>1. G \in SUBSET Nat
    BY DEF G
  <2> QED BY <1>1, <1>2, <2>1 DEF NatInduction
<1>4. UpToSize(size[S], S, size) = SUBSET S /\ size[S] \in G
  BY <1>3, SizeAll
<1>5. \E it : IsFold(it, cx, base, pick, elem, UpToSize(size[S], S, size))
  BY <1>4
<1> QED BY <1>4, <1>5

-----------------------------------------------------------------------------
(* Folds of sequences, from left to right *)

\* The largest of some numbers.
Top(s) == CHOOSE x \in s : \A y \in s : x >= y

\* What FoldLeft computes, its definition expanded.
LeftFold(cx, base, seq) ==
    (CHOOSE it : it = [s \in SUBSET DOMAIN seq |->
                         IF s = {} THEN base ELSE Op(cx, it[s \ {Top(s)}], seq[Top(s)])])[DOMAIN seq]

\* The greatest of the first numbers is the last one.
LEMMA TopOfFirst ==
    ASSUME NEW k \in Nat, k # 0
    PROVE  Top(1..k) = k /\ (1..k) \ {k} = 1..(k - 1)
<1>1. \E x \in 1..k : \A y \in 1..k : x >= y
  OBVIOUS
<1>2. Top(1..k) \in 1..k /\ \A y \in 1..k : Top(1..k) >= y
  BY <1>1 DEF Top
<1> QED BY <1>2

\* Every finite set of integers that is not empty has a greatest member.
LEMMA TopExists ==
    ASSUME NatInduction, NEW n \in Nat, NEW s \in SUBSET (1..n), s # {}
    PROVE  Top(s) \in s /\ \A y \in s : Top(s) >= y
<1> DEFINE G == {k \in Nat : (\E y \in s : y >= n - k) => \E x \in s : \A y \in s : x >= y}
<1>1. 0 \in G
  OBVIOUS
<1>2. ASSUME NEW k \in G PROVE k + 1 \in G
  <2>1. k \in Nat /\ k + 1 \in Nat
    OBVIOUS
  <2>2. SUFFICES ASSUME NEW z \in s, z >= n - (k + 1) PROVE \E x \in s : \A y \in s : x >= y
    BY <2>1
  <2>3. CASE \E y \in s : y >= n - k
    BY <2>3
  <2>4. CASE ~(\E y \in s : y >= n - k)
    <3>1. \A y \in s : y \in Int /\ y < n - k
      BY <2>4
    <3> QED BY <2>1, <2>2, <3>1
  <2> QED BY <2>3, <2>4
<1>3. G = Nat
  <2> HIDE DEF G
  <2>1. G \in SUBSET Nat
    BY DEF G
  <2> QED BY <1>1, <1>2, <2>1 DEF NatInduction
<1>4. n \in G
  BY <1>3
<1>5. \E x \in s : \A y \in s : x >= y
  <2>1. \E y \in s : y >= n - n
    <3>1. PICK y \in s : TRUE
      OBVIOUS
    <3>2. y \in 1..n /\ n - n = 0
      OBVIOUS
    <3>3. y >= n - n
      BY <3>2
    <3> QED BY <3>3
  <2> QED BY <1>4, <2>1
<1> QED BY <1>5 DEF Top

\* The accumulators of a fold, one after another.
IsTrace(tr, cx, base, seq, n) ==
    tr[0] = base /\ \A i \in 1..n : tr[i] = Op(cx, tr[i - 1], seq[i])

\* A fold has its accumulators, and the last one is its value.
LEMMA FoldTrace ==
    ASSUME NatInduction, NEW cx, NEW base, NEW seq, NEW n \in Nat, DOMAIN seq = 1..n
    PROVE  \E tr : IsTrace(tr, cx, base, seq, n) /\ LeftFold(cx, base, seq) = tr[n]
<1> DEFINE pick == [s \in SUBSET (1..n) |-> Top(s)]
           size == [s \in SUBSET (1..n) |-> IF s = {} THEN 0 ELSE Top(s)]
<1>1. \A s \in SUBSET (1..n) : s # {} => Top(s) \in s /\ \A y \in s : Top(s) >= y
  BY TopExists
<1>2. \A s \in SUBSET (1..n) : pick[s] = Top(s)
  OBVIOUS
<1>3. Shrinking(1..n, pick, size)
  <2>1. ASSUME NEW s \in SUBSET (1..n) PROVE size[s] = (IF s = {} THEN 0 ELSE Top(s)) /\ size[s] \in 0..n
    <3>1. size[s] = IF s = {} THEN 0 ELSE Top(s)
      OBVIOUS
    <3>2. s # {} => Top(s) \in 1..n
      BY <1>1
    <3> HIDE DEF size
    <3>3. s = {} => size[s] \in 0..n
      BY <3>1
    <3>4. s # {} => size[s] \in 0..n
      BY <3>1, <3>2
    <3> QED BY <3>1, <3>3, <3>4
  <2>2. size \in [SUBSET (1..n) -> Nat]
    <3>1. size = [s \in SUBSET (1..n) |-> size[s]]
      OBVIOUS
    <3>2. \A i \in 0..n : i \in Nat
      OBVIOUS
    <3> HIDE DEF size
    <3>3. \A s \in SUBSET (1..n) : size[s] \in Nat
      BY <2>1, <3>2
    <3> QED BY <3>1, <3>3
  <2> HIDE DEF size, pick
  <2>3. ASSUME NEW s \in SUBSET (1..n) PROVE size[s] <= size[1..n]
    <3>1. CASE s = {}
      BY <2>1, <3>1
    <3>2. CASE s # {}
      <4>1. Top(s) \in 1..n /\ 1..n # {} /\ 1..n \in SUBSET (1..n)
        BY <1>1, <3>2
      <4>2. Top(1..n) >= Top(s) /\ Top(1..n) \in 1..n
        BY <1>1, <4>1
      <4> QED BY <2>1, <3>2, <4>1, <4>2
    <3> QED BY <3>1, <3>2
  <2>4. ASSUME NEW s \in SUBSET (1..n), s # {}
        PROVE  pick[s] \in s /\ size[s \ {pick[s]}] < size[s]
    <3>1. pick[s] = Top(s) /\ Top(s) \in s /\ size[s] = Top(s) /\ Top(s) \in 1..n
      BY <1>1, <1>2, <2>1, <2>4
    <3> DEFINE r == s \ {Top(s)}
    <3>2. r \in SUBSET (1..n) /\ \A y \in r : y \in s /\ y # Top(s)
      OBVIOUS
    <3> HIDE DEF r
    <3>3. size[r] < Top(s)
      <4>1. CASE r = {}
        BY <2>1, <3>1, <3>2, <4>1
      <4>2. CASE r # {}
        <5>1. Top(r) \in r /\ size[r] = Top(r)
          BY <1>1, <2>1, <3>2, <4>2
        <5>2. Top(r) \in 1..n /\ Top(r) # Top(s) /\ Top(s) >= Top(r)
          BY <1>1, <2>4, <3>2, <5>1
        <5> QED BY <3>1, <5>1, <5>2
      <4> QED BY <4>1, <4>2
    <3> QED BY <3>1, <3>3 DEF r
  <2> QED BY <2>2, <2>3, <2>4 DEF Shrinking
<1> HIDE DEF pick, size
<1>4. PICK ft : IsFold(ft, cx, base, pick, seq, SUBSET (1..n))
  BY <1>3, FoldExists
<1> DEFINE Body(it) == [s \in SUBSET DOMAIN seq |->
                          IF s = {} THEN base ELSE Op(cx, it[s \ {Top(s)}], seq[Top(s)])]
<1>5. ft = Body(ft)
  <2>1. ft = [s \in SUBSET (1..n) |-> IF s = {} THEN base ELSE Op(cx, ft[s \ {pick[s]}], seq[pick[s]])]
    BY <1>4 DEF IsFold
  <2>2. \A s \in SUBSET (1..n) :
          (IF s = {} THEN base ELSE Op(cx, ft[s \ {pick[s]}], seq[pick[s]]))
             = (IF s = {} THEN base ELSE Op(cx, ft[s \ {Top(s)}], seq[Top(s)]))
    BY <1>2
  <2> QED BY <2>1, <2>2
<1>6. PICK it : it = Body(it) /\ LeftFold(cx, base, seq) = it[1..n]
  <2>1. LeftFold(cx, base, seq) = (CHOOSE it : it = Body(it))[DOMAIN seq]
    BY DEF LeftFold
  <2> HIDE DEF Body
  <2> QED BY <1>5, <2>1
<1> DEFINE tr == [i \in 0..n |-> it[1..i]]
<1>7. tr[0] = base
  <2>1. 1..0 = {} /\ {} \in SUBSET DOMAIN seq
    OBVIOUS
  <2>2. it[{}] = base
    BY <1>6, <2>1
  <2>3. it[1..0] = base
    BY <2>1, <2>2
  <2>4. tr[0] = it[1..0]
    OBVIOUS
  <2> QED BY <2>3, <2>4
<1>8. ASSUME NEW i \in 1..n PROVE tr[i] = Op(cx, tr[i - 1], seq[i])
  <2>1. i \in Nat /\ i # 0 /\ i - 1 \in 0..n /\ i \in 0..n
    OBVIOUS
  <2>2. Top(1..i) = i /\ (1..i) \ {i} = 1..(i - 1)
    BY <2>1, TopOfFirst
  <2>3. 1..i \in SUBSET DOMAIN seq /\ 1..i # {}
    <3>1. \A x \in 1..i : x \in 1..n
      BY <2>1
    <3>2. i \in 1..i
      BY <2>1
    <3> QED BY <3>1, <3>2
  <2>4. it[1..i] = Op(cx, it[1..(i - 1)], seq[i])
    BY <1>6, <2>2, <2>3
  <2>5. tr[i] = it[1..i] /\ tr[i - 1] = it[1..(i - 1)]
    BY <2>1
  <2> QED BY <2>4, <2>5
<1>9. tr[n] = it[1..n]
  OBVIOUS
<1> HIDE DEF tr
<1> QED BY <1>6, <1>7, <1>8, <1>9 DEF IsTrace

\* What every element keeps, the fold keeps.
THEOREM SeqFold ==
    ASSUME NatInduction, NEW cx, NEW base, NEW seq, NEW n \in Nat, DOMAIN seq = 1..n,
           Inv(cx, 0, base),
           \A a : \A i \in 1..n : Inv(cx, i - 1, a) => Inv(cx, i, Op(cx, a, seq[i]))
    PROVE  Inv(cx, n, LeftFold(cx, base, seq))
<1>1. PICK tr : IsTrace(tr, cx, base, seq, n) /\ LeftFold(cx, base, seq) = tr[n]
  BY FoldTrace
<1> DEFINE G == {k \in Nat : k <= n => Inv(cx, k, tr[k])}
<1>2. 0 \in G
  BY <1>1 DEF IsTrace
<1>3. ASSUME NEW k \in G PROVE k + 1 \in G
  <2>1. k \in Nat /\ k + 1 \in Nat /\ (k + 1) - 1 = k
    OBVIOUS
  <2>2. SUFFICES ASSUME k + 1 <= n PROVE Inv(cx, k + 1, tr[k + 1])
    BY <2>1
  <2>3. Inv(cx, k, tr[k]) /\ k + 1 \in 1..n
    BY <2>1, <2>2
  <2>4. tr[k + 1] = Op(cx, tr[k], seq[k + 1])
    BY <1>1, <2>1, <2>3 DEF IsTrace
  <2> QED BY <2>1, <2>3, <2>4
<1>4. G = Nat
  <2> HIDE DEF G
  <2>1. G \in SUBSET Nat
    BY DEF G
  <2> QED BY <1>2, <1>3, <2>1 DEF NatInduction
<1>5. n \in G /\ n <= n
  BY <1>4
<1> QED BY <1>1, <1>5

\* Whatever has the accumulators of the fold ends with its value.
LEMMA TraceIsFold ==
    ASSUME NatInduction, NEW cx, NEW base, NEW seq, NEW n \in Nat, DOMAIN seq = 1..n,
           NEW tr, IsTrace(tr, cx, base, seq, n)
    PROVE  LeftFold(cx, base, seq) = tr[n]
<1>1. PICK ft : IsTrace(ft, cx, base, seq, n) /\ LeftFold(cx, base, seq) = ft[n]
  BY FoldTrace
<1> DEFINE G == {k \in Nat : k <= n => ft[k] = tr[k]}
<1>2. 0 \in G
  BY <1>1 DEF IsTrace
<1>3. ASSUME NEW k \in G PROVE k + 1 \in G
  <2>1. k \in Nat /\ k + 1 \in Nat /\ (k + 1) - 1 = k
    OBVIOUS
  <2>2. SUFFICES ASSUME k + 1 <= n PROVE ft[k + 1] = tr[k + 1]
    BY <2>1
  <2>3. ft[k] = tr[k] /\ k + 1 \in 1..n
    BY <2>1, <2>2
  <2>4. ft[k + 1] = Op(cx, ft[k], seq[k + 1]) /\ tr[k + 1] = Op(cx, tr[k], seq[k + 1])
    BY <1>1, <2>1, <2>3 DEF IsTrace
  <2> QED BY <2>3, <2>4
<1>4. G = Nat
  <2> HIDE DEF G
  <2>1. G \in SUBSET Nat
    BY DEF G
  <2> QED BY <1>2, <1>3, <2>1 DEF NatInduction
<1>5. n \in G /\ n <= n
  BY <1>4
<1> QED BY <1>1, <1>5

\* Nothing, and one element more.
LEMMA FoldNothing ==
    ASSUME NatInduction, NEW cx, NEW base, NEW seq, DOMAIN seq = 1..0
    PROVE  LeftFold(cx, base, seq) = base
<1>1. PICK tr : IsTrace(tr, cx, base, seq, 0) /\ LeftFold(cx, base, seq) = tr[0]
  BY FoldTrace
<1> QED BY <1>1 DEF IsTrace

\* The fold of a single element is one step.
LEMMA FoldOne ==
    ASSUME NatInduction, NEW cx, NEW base, NEW seq, DOMAIN seq = 1..1
    PROVE  LeftFold(cx, base, seq) = Op(cx, base, seq[1])
<1>1. PICK tr : IsTrace(tr, cx, base, seq, 1) /\ LeftFold(cx, base, seq) = tr[1]
  BY FoldTrace
<1>2. 1 \in 1..1 /\ 1 - 1 = 0
  OBVIOUS
<1> QED BY <1>1, <1>2 DEF IsTrace

\* The fold of one sequence after another.
THEOREM FoldConcat ==
    ASSUME NatInduction, NEW cx, NEW base, NEW s, NEW m \in Nat, DOMAIN s = 1..m,
           NEW t, NEW n \in Nat, DOMAIN t = 1..n,
           NEW u, DOMAIN u = 1..(m + n),
           \A i \in 1..m : u[i] = s[i], \A i \in 1..n : u[m + i] = t[i]
    PROVE  LeftFold(cx, base, u) = LeftFold(cx, LeftFold(cx, base, s), t)
<1>0. m + n \in Nat
  OBVIOUS
<1>1. PICK tr : IsTrace(tr, cx, base, u, m + n) /\ LeftFold(cx, base, u) = tr[m + n]
  BY <1>0, FoldTrace
<1>2. IsTrace(tr, cx, base, s, m)
  <2>1. \A i \in 1..m : i \in 1..(m + n)
    OBVIOUS
  <2> QED BY <1>1, <2>1 DEF IsTrace
<1>3. LeftFold(cx, base, s) = tr[m]
  BY <1>2, TraceIsFold
<1> DEFINE rest == [i \in 0..n |-> tr[m + i]]
<1>4. IsTrace(rest, cx, tr[m], t, n)
  <2>1. rest[0] = tr[m]
    OBVIOUS
  <2>2. ASSUME NEW i \in 1..n PROVE rest[i] = Op(cx, rest[i - 1], t[i])
    <3>1. m + i \in 1..(m + n) /\ (m + i) - 1 = m + (i - 1) /\ i - 1 \in 0..n /\ i \in 0..n
      OBVIOUS
    <3>2. tr[m + i] = Op(cx, tr[m + (i - 1)], u[m + i])
      BY <1>1, <3>1 DEF IsTrace
    <3>3. rest[i] = tr[m + i] /\ rest[i - 1] = tr[m + (i - 1)]
      BY <3>1
    <3> QED BY <3>2, <3>3
  <2> QED BY <2>1, <2>2 DEF IsTrace
<1>5. rest[n] = tr[m + n]
  OBVIOUS
<1> HIDE DEF rest
<1>6. LeftFold(cx, tr[m], t) = rest[n]
  BY <1>4, TraceIsFold
<1> QED BY <1>1, <1>3, <1>5, <1>6

-----------------------------------------------------------------------------
(* Folds of finite sets, in any order *)

\* What FoldSet computes, its definition expanded.
AnyFold(cx, base, S) ==
    (CHOOSE it : it = [s \in SUBSET S |->
                         IF s = {} THEN base ELSE Op(cx, it[s \ {Pick(s)}], Pick(s))])[S]

\* What every element keeps, in whatever order they come, the fold keeps.
THEOREM SetFold ==
    ASSUME NatInduction, NEW cx, NEW base, NEW S, NEW size \in [SUBSET S -> Nat],
           \A s \in SUBSET S : size[s] <= size[S] /\ \A x \in s : size[s \ {x}] < size[s],
           Inv(cx, {}, base),
           \A a : \A s \in SUBSET S : \A x \in S \ s :
              Inv(cx, s, a) => Inv(cx, s \cup {x}, Op(cx, a, x))
    PROVE  Inv(cx, S, AnyFold(cx, base, S))
<1> DEFINE pick == [s \in SUBSET S |-> Pick(s)]
           elem == [x \in S |-> x]
<1>2. \A s \in SUBSET S : s # {} => pick[s] = Pick(s) /\ Pick(s) \in s /\ elem[pick[s]] = Pick(s)
  BY DEF Pick
<1>3. Shrinking(S, pick, size)
  <2> HIDE DEF pick, elem
  <2> QED BY <1>2 DEF Shrinking
<1> HIDE DEF pick, elem
<1>4. PICK ft : IsFold(ft, cx, base, pick, elem, SUBSET S)
  BY <1>3, FoldExists
<1> DEFINE Body(it) == [s \in SUBSET S |->
                          IF s = {} THEN base ELSE Op(cx, it[s \ {Pick(s)}], Pick(s))]
<1>5. ft = Body(ft)
  <2>1. ft = [s \in SUBSET S |-> IF s = {} THEN base ELSE Op(cx, ft[s \ {pick[s]}], elem[pick[s]])]
    BY <1>4 DEF IsFold
  <2>2. \A s \in SUBSET S :
          (IF s = {} THEN base ELSE Op(cx, ft[s \ {pick[s]}], elem[pick[s]]))
             = (IF s = {} THEN base ELSE Op(cx, ft[s \ {Pick(s)}], Pick(s)))
    BY <1>2
  <2> QED BY <2>1, <2>2
<1>6. PICK it : it = Body(it) /\ AnyFold(cx, base, S) = it[S]
  <2>1. AnyFold(cx, base, S) = (CHOOSE it : it = Body(it))[S]
    BY DEF AnyFold
  <2> HIDE DEF Body
  <2> QED BY <1>5, <2>1
<1> DEFINE P == {s \in SUBSET S : Inv(cx, s, it[s])}
<1>7. {} \in P
  <2>1. it[{}] = base
    BY <1>6
  <2> QED BY <2>1
<1>8. ASSUME NEW s \in SUBSET S, s # {}, s \ {pick[s]} \in P PROVE s \in P
  <2>1. Pick(s) \in s /\ pick[s] = Pick(s)
    BY <1>2, <1>8
  <2>2. Inv(cx, s \ {Pick(s)}, it[s \ {Pick(s)}])
    BY <1>8, <2>1
  <2>3. it[s] = Op(cx, it[s \ {Pick(s)}], Pick(s))
    BY <1>6, <1>8
  <2>4. /\ s \ {Pick(s)} \in SUBSET S /\ Pick(s) \in S \ (s \ {Pick(s)})
        /\ (s \ {Pick(s)}) \cup {Pick(s)} = s
    BY <2>1
  <2>5. Inv(cx, (s \ {Pick(s)}) \cup {Pick(s)}, Op(cx, it[s \ {Pick(s)}], Pick(s)))
    BY <2>2, <2>4
  <2> QED BY <2>3, <2>4, <2>5
<1>9. P = SUBSET S
  <2> HIDE DEF P
  <2>1. P \in SUBSET SUBSET S
    BY DEF P
  <2>2. \A s \in SUBSET S : (s # {} /\ s \ {pick[s]} \in P) => s \in P
    BY <1>8
  <2> QED BY <1>3, <1>7, <2>1, <2>2, SubsetInduction
<1>10. S \in P
  BY <1>9
<1> QED BY <1>6, <1>10

-----------------------------------------------------------------------------
(* Recursive functions of the natural numbers *)

\* The function with it[0] = base and it[n] = Op(cx, it[n - 1], n).
Recursion(cx, base) ==
    CHOOSE it : it = [n \in Nat |-> IF n = 0 THEN base ELSE Op(cx, it[n - 1], n)]

\* g is the recursive function up to m.
IsRun(g, cx, base, m) ==
    g = [n \in 0..m |-> IF n = 0 THEN base ELSE Op(cx, g[n - 1], n)]

\* The values of such a function, one by one.
LEMMA RunValues ==
    ASSUME NEW cx, NEW base, NEW m \in Nat, NEW g, IsRun(g, cx, base, m)
    PROVE  g[0] = base /\ \A n \in 1..m : g[n] = Op(cx, g[n - 1], n)
<1>1. \A n \in 0..m : g[n] = IF n = 0 THEN base ELSE Op(cx, g[n - 1], n)
  BY DEF IsRun
<1> QED BY <1>1

\* Two of them agree where both are defined.
LEMMA RunsAgree ==
    ASSUME NatInduction, NEW cx, NEW base, NEW m \in Nat, NEW k \in Nat, m <= k,
           NEW g, NEW h, IsRun(g, cx, base, m), IsRun(h, cx, base, k)
    PROVE  \A n \in 0..m : g[n] = h[n]
<1>a. g[0] = base /\ \A n \in 1..m : g[n] = Op(cx, g[n - 1], n)
  BY RunValues
<1>b. h[0] = base /\ \A n \in 1..k : h[n] = Op(cx, h[n - 1], n)
  <2>1. \A n \in 0..k : h[n] = IF n = 0 THEN base ELSE Op(cx, h[n - 1], n)
    BY DEF IsRun
  <2> QED BY <2>1
<1> DEFINE G == {n \in Nat : n <= m => g[n] = h[n]}
<1>1. 0 \in G
  <2>1. g[0] = h[0]
    BY <1>a, <1>b
  <2> QED BY <2>1
<1>2. ASSUME NEW n \in G PROVE n + 1 \in G
  <2>1. n \in Nat /\ n + 1 \in Nat /\ (n + 1) - 1 = n
    OBVIOUS
  <2>2. SUFFICES ASSUME n + 1 <= m PROVE g[n + 1] = h[n + 1]
    BY <2>1
  <2>3. g[n] = h[n] /\ n + 1 \in 1..m /\ n + 1 \in 1..k
    BY <2>1, <2>2
  <2>4. g[n + 1] = Op(cx, g[n], n + 1)
    <3>1. g[n + 1] = Op(cx, g[(n + 1) - 1], n + 1)
      BY <1>a, <2>3
    <3> QED BY <2>1, <3>1
  <2>5. h[n + 1] = Op(cx, h[n], n + 1)
    <3>1. h[n + 1] = Op(cx, h[(n + 1) - 1], n + 1)
      BY <1>b, <2>3
    <3> QED BY <2>1, <3>1
  <2> QED BY <2>3, <2>4, <2>5
<1>3. G = Nat
  <2> HIDE DEF G
  <2>1. G \in SUBSET Nat
    BY DEF G
  <2> QED BY <1>1, <1>2, <2>1 DEF NatInduction
<1> QED BY <1>3

\* There is one up to every number.
LEMMA RunExists ==
    ASSUME NatInduction, NEW cx, NEW base, NEW m \in Nat
    PROVE  \E g : IsRun(g, cx, base, m)
<1> DEFINE G == {n \in Nat : \E g : IsRun(g, cx, base, n)}
<1>1. 0 \in G
  <2>1. IsRun([n \in 0..0 |-> base], cx, base, 0)
    <3>1. \A n \in 0..0 : n = 0
      OBVIOUS
    <3> QED BY <3>1 DEF IsRun
  <2> QED BY <2>1
<1>2. ASSUME NEW k \in G PROVE k + 1 \in G
  <2>0. k \in Nat /\ k + 1 \in Nat
    OBVIOUS
  <2>1. PICK g : IsRun(g, cx, base, k)
    OBVIOUS
  <2> DEFINE h == [n \in 0..(k + 1) |-> IF n = 0 THEN base ELSE Op(cx, g[n - 1], n)]
  <2>2. \A n \in 0..k : h[n] = g[n]
    <3>1. \A n \in 0..k : n \in 0..(k + 1)
      BY <2>0
    <3>2. \A n \in 0..k : g[n] = IF n = 0 THEN base ELSE Op(cx, g[n - 1], n)
      BY <2>1 DEF IsRun
    <3> QED BY <3>1, <3>2
  <2>3. ASSUME NEW n \in 0..(k + 1)
        PROVE  h[n] = IF n = 0 THEN base ELSE Op(cx, h[n - 1], n)
    <3>1. CASE n = 0
      BY <3>1
    <3>2. CASE n # 0
      <4>1. n - 1 \in 0..k
        BY <2>0, <3>2
      <4>2. h[n - 1] = g[n - 1]
        BY <2>2, <4>1
      <4>3. h[n] = Op(cx, g[n - 1], n)
        BY <3>2
      <4> QED BY <3>2, <4>2, <4>3
    <3> QED BY <3>1, <3>2
  <2>4. h = [n \in 0..(k + 1) |-> h[n]]
    OBVIOUS
  <2> HIDE DEF h
  <2>5. IsRun(h, cx, base, k + 1)
    BY <2>3, <2>4 DEF IsRun
  <2> QED BY <2>0, <2>5
<1>3. G = Nat
  <2> HIDE DEF G
  <2>1. G \in SUBSET Nat
    BY DEF G
  <2> QED BY <1>1, <1>2, <2>1 DEF NatInduction
<1>4. m \in G
  BY <1>3
<1> QED BY <1>4

\* What every step keeps, the recursive function keeps.
THEOREM NatRecursion ==
    ASSUME NatInduction, NEW cx, NEW base, Inv(cx, 0, base),
           \A a : \A n \in Nat : Inv(cx, n, a) => Inv(cx, n + 1, Op(cx, a, n + 1))
    PROVE  \A n \in Nat : Inv(cx, n, Recursion(cx, base)[n])
<1> DEFINE Run(n) == CHOOSE g : IsRun(g, cx, base, n)
           ft == [n \in Nat |-> Run(n)[n]]
           Body(it) == [n \in Nat |-> IF n = 0 THEN base ELSE Op(cx, it[n - 1], n)]
<1>1. \A n \in Nat : IsRun(Run(n), cx, base, n)
  <2>1. \A n \in Nat : \E g : IsRun(g, cx, base, n)
    BY RunExists
  <2> QED BY <2>1
<1> HIDE DEF Run
<1>2. ASSUME NEW n \in Nat
      PROVE  ft[n] = IF n = 0 THEN base ELSE Op(cx, ft[n - 1], n)
  <2>1. CASE n = 0
    <3>1. 0 \in Nat /\ IsRun(Run(0), cx, base, 0)
      BY <1>1
    <3>2. PICK g : g = Run(0)
      OBVIOUS
    <3>3. IsRun(g, cx, base, 0)
      BY <3>1, <3>2
    <3>4. g[0] = base
      BY <3>1, <3>3, RunValues
    <3> QED BY <2>1, <3>2, <3>4
  <2>2. CASE n # 0
    <3>1. n - 1 \in Nat /\ n - 1 <= n /\ n - 1 \in 0..(n - 1) /\ n \in 1..n
      BY <2>2
    <3>2. IsRun(Run(n), cx, base, n) /\ IsRun(Run(n - 1), cx, base, n - 1)
      BY <1>1, <3>1
    <3>3. Run(n - 1)[n - 1] = Run(n)[n - 1]
      BY <3>1, <3>2, RunsAgree
    <3>4. Run(n)[n] = Op(cx, Run(n)[n - 1], n)
      BY <3>1, <3>2, RunValues
    <3>5. ft[n] = Run(n)[n] /\ ft[n - 1] = Run(n - 1)[n - 1]
      BY <3>1
    <3> QED BY <2>2, <3>3, <3>4, <3>5
  <2> QED BY <2>1, <2>2
<1>3. ft = Body(ft)
  <2>1. ft = [n \in Nat |-> ft[n]]
    OBVIOUS
  <2> HIDE DEF ft
  <2> QED BY <1>2, <2>1
<1>4. PICK it : it = Body(it) /\ Recursion(cx, base) = it
  <2>1. Recursion(cx, base) = CHOOSE it : it = Body(it)
    BY DEF Recursion
  <2> HIDE DEF Body, ft
  <2> QED BY <1>3, <2>1
<1>5. it[0] = base /\ \A n \in Nat : it[n + 1] = Op(cx, it[n], n + 1)
  <2>1. \A n \in Nat : it[n] = IF n = 0 THEN base ELSE Op(cx, it[n - 1], n)
    BY <1>4
  <2>2. it[0] = base
    BY <2>1
  <2>3. ASSUME NEW n \in Nat PROVE it[n + 1] = Op(cx, it[n], n + 1)
    <3>1. n + 1 \in Nat /\ n + 1 # 0 /\ (n + 1) - 1 = n
      OBVIOUS
    <3>2. it[n + 1] = Op(cx, it[(n + 1) - 1], n + 1)
      BY <2>1, <3>1
    <3> QED BY <3>1, <3>2
  <2> QED BY <2>2, <2>3
<1> DEFINE G == {n \in Nat : Inv(cx, n, it[n])}
<1>6. 0 \in G
  BY <1>5
<1>7. ASSUME NEW n \in G PROVE n + 1 \in G
  <2>1. n \in Nat /\ n + 1 \in Nat /\ Inv(cx, n, it[n])
    OBVIOUS
  <2>2. Inv(cx, n + 1, Op(cx, it[n], n + 1))
    BY <2>1
  <2>3. it[n + 1] = Op(cx, it[n], n + 1)
    BY <1>5, <2>1
  <2> QED BY <2>1, <2>2, <2>3
<1>8. G = Nat
  <2> HIDE DEF G
  <2>1. G \in SUBSET Nat
    BY DEF G
  <2> QED BY <1>6, <1>7, <2>1 DEF NatInduction
<1> QED BY <1>4, <1>8

=============================================================================
