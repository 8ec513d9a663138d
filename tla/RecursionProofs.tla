-------------------------- MODULE RecursionProofs --------------------------
(***************************************************************************)
(* Induction for recursive functions and for the folds of SequencesExt:    *)
(* the facts about Nat, functions and finite sets of numbers with which    *)
(* the other modules prove what their loops compute, whatever the length.  *)
(***************************************************************************)
EXTENDS SequencesExt, TLAPS, WellFoundedInduction

(* Every nonempty set of natural numbers has a least element.               *)

LEMMA LeastElement ==
  ASSUME NEW T \in SUBSET Nat, T # {}
  PROVE  \E n \in T : \A m \in T : n <= m
<1>1. \E n \in T : \A m \in T : ~(<<m, n>> \in OpToRel(<, Nat))
  BY NatLessThanWellFounded, WFMin, Zenon
<1>2. PICK n \in T : \A m \in T : ~(<<m, n>> \in OpToRel(<, Nat))
  BY <1>1, Zenon
<1>3. ASSUME NEW m \in T PROVE n <= m
  <2>1. <<m, n>> \notin OpToRel(<, Nat)
    BY <1>2, Zenon
  <2>2. ~(m < n)
    BY <2>1 DEF OpToRel
  <2> QED
    BY <2>2
<1> QED
  BY <1>3

(* Induction over the numbers up to n, for a property given as a set.       *)
LEMMA InductionUpTo ==
  ASSUME NEW n \in Nat, NEW P, 0 \in P,
         \A i \in 1..n : i - 1 \in P => i \in P
  PROVE  \A i \in 0..n : i \in P
<1> SUFFICES ASSUME NEW k \in 0..n, k \notin P PROVE FALSE
  OBVIOUS
<1> DEFINE T == {i \in 0..n : i \notin P}
<1>1. PICK i \in T : \A j \in T : i <= j
  <2>1. T \in SUBSET Nat /\ T # {}
    OBVIOUS
  <2> HIDE DEF T
  <2> QED
    BY <2>1, LeastElement
<1>2. i \in 1..n /\ i - 1 \in 0..n /\ i - 1 \notin T
  BY <1>1
<1> QED
  BY <1>1, <1>2

(* A function that each value of which is computed from the one before it.  *)
LEMMA RecursionExists ==
  ASSUME NEW V, NEW base \in V, NEW n \in Nat
  PROVE  \A step \in [1..n -> [V -> V]] :
            \E g \in [0..n -> V] : /\ g[0] = base
                                   /\ \A i \in 1..n : g[i] = step[i][g[i - 1]]
<1> TAKE step \in [1..n -> [V -> V]]
<1> DEFINE Computes(g, k) == /\ g \in [0..k -> V] /\ g[0] = base
                             /\ \A i \in 1..k : g[i] = step[i][g[i - 1]]
           P == {k \in 0..n : \E g : Computes(g, k)}
<1>1. 0 \in P
  <2> DEFINE g == [i \in 0..0 |-> base]
  <2>1. Computes(g, 0)
    OBVIOUS
  <2> HIDE DEF g, Computes
  <2> QED
    BY <2>1
<1>2. ASSUME NEW k \in 1..n, k - 1 \in P PROVE k \in P
  <2>1. PICK g : Computes(g, k - 1)
    BY <1>2
  <2> DEFINE h == [i \in 0..k |-> IF i = k THEN step[k][g[k - 1]] ELSE g[i]]
  <2>2. step[k][g[k - 1]] \in V
    BY <2>1
  <2>3. h \in [0..k -> V]
    BY <2>1, <2>2
  <2>4. h[0] = base
    BY <2>1
  <2>5. ASSUME NEW i \in 1..k PROVE h[i] = step[i][h[i - 1]]
    <3>1. CASE i = k
      BY <3>1
    <3>2. CASE i # k
      <4>1. i \in 1..(k - 1)
        BY <3>2
      <4> QED
        BY <2>1, <4>1
    <3> QED
      BY <3>1, <3>2
  <2>6. Computes(h, k)
    BY <2>3, <2>4, <2>5
  <2> HIDE DEF Computes
  <2> QED
    BY <2>6
<1>3. n \in P
  <2> HIDE DEF P
  <2>1. \A i \in 1..n : i - 1 \in P => i \in P
    BY <1>2
  <2>2. \A i \in 0..n : i \in P
    BY <1>1, <2>1, InductionUpTo
  <2> QED
    BY <2>2
<1> QED
  BY <1>3 DEF P


-----------------------------------------------------------------------------
(* FoldLeft goes through the sets of positions, taking away the greatest.   *)

(* A nonempty set of positions has a greatest, which Max finds.             *)
LEMMA MaxOfPositions ==
  ASSUME NEW n \in Nat, NEW s \in SUBSET (1..n), s # {}
  PROVE  Max(s) \in s /\ \A i \in s : i <= Max(s)
<1> DEFINE T == {k \in 0..n : \A i \in s : i <= k}
<1>1. PICK m \in T : \A k \in T : m <= k
  <2>1. n \in T  OBVIOUS
  <2>2. T \in SUBSET Nat /\ T # {}  BY <2>1
  <2> HIDE DEF T
  <2> QED  BY <2>2, LeastElement
<1>2. m \in s
  <2> SUFFICES ASSUME m \notin s PROVE FALSE
    OBVIOUS
  <2>1. \A i \in s : i <= m - 1  BY <1>1
  <2>2. PICK j \in s : j <= m - 1  BY <2>1
  <2>3. m - 1 \in 0..n  BY <2>2
  <2>4. m - 1 \in T  BY <2>1, <2>3
  <2> QED  BY <1>1, <2>4
<1>3. \A i \in s : m >= i  BY <1>1
<1>4. Max(s) \in s /\ \A i \in s : Max(s) >= i  BY <1>2, <1>3, Zenon DEF Max
<1>5. s \subseteq Int  OBVIOUS
<1> QED  BY <1>4, <1>5

LEMMA MaxOfInterval ==
  ASSUME NEW i \in Nat, i # 0
  PROVE  Max(1..i) = i /\ (1..i) \ {Max(1..i)} = 1..(i - 1)
<1>1. Max(1..i) \in 1..i /\ \A j \in 1..i : j <= Max(1..i)
  <2> DEFINE s == 1..i
  <2>1. s \in SUBSET (1..i) /\ s # {}  OBVIOUS
  <2> HIDE DEF s
  <2>2. Max(s) \in s /\ \A j \in s : j <= Max(s)  BY <2>1, MaxOfPositions
  <2> QED  BY <2>2 DEF s
<1>2. i \in 1..i  OBVIOUS
<1>3. Max(1..i) = i  BY <1>1, <1>2
<1> QED  BY <1>3

(* What a fold of SequencesExt computes: values at the sets of positions up *)
(* to n, each by its greatest position's step from the value at the rest.   *)
Folds(it, n, base, step) ==
    /\ it[{}] = base
    /\ \A s \in SUBSET (1..n) : s # {} => it[s] = step[Max(s)][it[s \ {Max(s)}]]

(* There is one, for all steps on values of V.                              *)
LEMMA FoldExists ==
  ASSUME NEW V, NEW base \in V, NEW n \in Nat
  PROVE  \A step \in [1..n -> [V -> V]] :
            \E it \in [SUBSET (1..n) -> V] : Folds(it, n, base, step)
<1>0. \A part \in [1..n -> [V -> V]] :
         \E g \in [0..n -> V] : /\ g[0] = base
                                /\ \A i \in 1..n : g[i] = part[i][g[i - 1]]
  BY RecursionExists
<1> TAKE step \in [1..n -> [V -> V]]
<1> DEFINE Chain(g, s) ==
             /\ g \in [0..n -> V] /\ g[0] = base
             /\ \A i \in 1..n : g[i] = IF i \in s THEN step[i][g[i - 1]] ELSE g[i - 1]
           chain(s) == CHOOSE g : Chain(g, s)
           it == [s \in SUBSET (1..n) |-> chain(s)[n]]
<1>1. ASSUME NEW s \in SUBSET (1..n) PROVE \E g : Chain(g, s)
  <2>1. \E part \in [1..n -> [V -> V]] :
          \A i \in 1..n, v \in V : part[i][v] = IF i \in s THEN step[i][v] ELSE v
    <3> DEFINE part == [i \in 1..n |-> IF i \in s THEN step[i] ELSE [v \in V |-> v]]
    <3>1. part \in [1..n -> [V -> V]]  OBVIOUS
    <3>2. \A i \in 1..n, v \in V : part[i][v] = IF i \in s THEN step[i][v] ELSE v
      OBVIOUS
    <3> QED  BY <3>1, <3>2
  <2>2. PICK part \in [1..n -> [V -> V]] :
          \A i \in 1..n, v \in V : part[i][v] = IF i \in s THEN step[i][v] ELSE v
    BY <2>1
  <2> HIDE DEF Chain
  <2>3. \E g \in [0..n -> V] :
          g[0] = base /\ \A i \in 1..n : g[i] = part[i][g[i - 1]]
    BY <1>0, Zenon
  <2>4. PICK g \in [0..n -> V] :
          g[0] = base /\ \A i \in 1..n : g[i] = part[i][g[i - 1]]
    BY <2>3
  <2>5. Chain(g, s)
    <3>1. \A i \in 1..n : g[i - 1] \in V  OBVIOUS
    <3> QED  BY <2>2, <2>4, <3>1 DEF Chain
  <2> QED  BY <2>5
<1>2. ASSUME NEW s \in SUBSET (1..n) PROVE Chain(chain(s), s)
  <2> HIDE DEF Chain
  <2> QED  BY <1>1
<1> HIDE DEF chain
<1>3. it \in [SUBSET (1..n) -> V]
  <2>1. ASSUME NEW s \in SUBSET (1..n) PROVE chain(s)[n] \in V  BY <1>2
  <2> QED  BY <2>1
<1>4. it[{}] = base
  <2> DEFINE g == chain({})
             P == {i \in 0..n : g[i] = base}
  <2>1. Chain(g, {})  BY <1>2
  <2> HIDE DEF g
  <2>2. 0 \in P  BY <2>1
  <2>3. \A i \in 1..n : i - 1 \in P => i \in P  BY <2>1
  <2>4. n \in P
    <3> HIDE DEF P
    <3>1. \A i \in 0..n : i \in P  BY <2>2, <2>3, InductionUpTo
    <3> QED  BY <3>1
  <2> QED  BY <2>4 DEF g
<1>5. ASSUME NEW s \in SUBSET (1..n), s # {}
      PROVE  it[s] = step[Max(s)][it[s \ {Max(s)}]]
  <2> DEFINE m == Max(s)
             r == s \ {m}
             g == chain(s)
             h == chain(r)
  <2>1. m \in s /\ m \in 1..n /\ \A i \in s : i <= m
    BY <1>5, MaxOfPositions
  <2>2. Chain(g, s) /\ Chain(h, r)  BY <1>2
  <2> HIDE DEF m, g, h
  <2>3. \A i \in 0..n : i < m => g[i] = h[i]
    <3> DEFINE P == {i \in 0..n : i < m => g[i] = h[i]}
    <3>1. 0 \in P  BY <2>2
    <3>2. ASSUME NEW i \in 1..n, i - 1 \in P PROVE i \in P
      <4> SUFFICES ASSUME i < m PROVE g[i] = h[i]
        OBVIOUS
      <4>1. g[i - 1] = h[i - 1]  BY <2>1, <3>2
      <4>2. i \in s <=> i \in r  BY <2>1
      <4> QED  BY <2>2, <4>1, <4>2
    <3> HIDE DEF P
    <3>3. \A i \in 1..n : i - 1 \in P => i \in P  BY <3>2
    <3>4. \A i \in 0..n : i \in P  BY <3>1, <3>3, InductionUpTo
    <3> QED  BY <3>4 DEF P
  <2>4. g[m] = step[m][h[m - 1]]  BY <2>1, <2>2, <2>3
  <2>5. \A i \in 0..n : i >= m => g[i] = g[m]
    <3> DEFINE P == {i \in 0..n : i >= m => g[i] = g[m]}
    <3>1. 0 \in P  BY <2>1
    <3>2. ASSUME NEW i \in 1..n, i - 1 \in P PROVE i \in P
      <4>1. CASE i > m
        <5>1. i \notin s  BY <2>1, <4>1
        <5> QED  BY <2>1, <2>2, <3>2, <4>1, <5>1
      <4>2. CASE i = m  BY <2>1, <4>2
      <4>3. CASE i < m  BY <2>1, <4>3
      <4> QED  BY <2>1, <4>1, <4>2, <4>3
    <3> HIDE DEF P
    <3>3. \A i \in 1..n : i - 1 \in P => i \in P  BY <3>2
    <3>4. \A i \in 0..n : i \in P  BY <3>1, <3>3, InductionUpTo
    <3> QED  BY <3>4 DEF P
  <2>6. \A i \in 0..n : i >= m => h[i] = h[m - 1]
    <3> DEFINE P == {i \in 0..n : i >= m - 1 => h[i] = h[m - 1]}
    <3>1. 0 \in P  BY <2>1
    <3>2. ASSUME NEW i \in 1..n, i - 1 \in P PROVE i \in P
      <4>1. CASE i >= m
        <5>1. i \notin r  BY <2>1, <4>1
        <5> QED  BY <2>1, <2>2, <3>2, <4>1, <5>1
      <4>2. CASE i = m - 1  BY <2>1, <4>2
      <4>3. CASE i < m - 1  BY <2>1, <4>3
      <4> QED  BY <2>1, <4>1, <4>2, <4>3
    <3> HIDE DEF P
    <3>3. \A i \in 1..n : i - 1 \in P => i \in P  BY <3>2
    <3>4. \A i \in 0..n : i \in P  BY <3>1, <3>3, InductionUpTo
    <3> QED  BY <2>1, <3>4 DEF P
  <2>7. g[n] = step[m][h[n]]  BY <2>1, <2>4, <2>5, <2>6
  <2>8. it[s] = g[n] /\ it[r] = h[n]  BY DEF g, h
  <2> QED  BY <2>7, <2>8 DEF m
<1> HIDE DEF it
<1>6. Folds(it, n, base, step)  BY <1>4, <1>5 DEF Folds
<1> QED  BY <1>3, <1>6

(* fold is such a function as far as its values are known to be in V.       *)
FoldsIn(V, fold, n, base, step) ==
    /\ fold[{}] = base
    /\ \A s \in SUBSET (1..n) : s # {} /\ fold[s \ {Max(s)}] \in V
                                  => fold[s] = step[Max(s)][fold[s \ {Max(s)}]]

(* The values it passes through on the way to that of all the positions.    *)
Leads(g, n, base, step, last) ==
    /\ g[0] = base /\ g[n] = last
    /\ \A i \in 1..n : g[i] = step[i][g[i - 1]]

LEMMA FoldChain ==
  ASSUME NEW V, NEW base \in V, NEW n \in Nat
  PROVE  \A step \in [1..n -> [V -> V]] : \A fold :
            FoldsIn(V, fold, n, base, step)
              => \E g \in [0..n -> V] : Leads(g, n, base, step, fold[1..n])
<1> TAKE step \in [1..n -> [V -> V]]
<1> TAKE fold
<1> SUFFICES ASSUME fold[{}] = base,
                    \A s \in SUBSET (1..n) : s # {} /\ fold[s \ {Max(s)}] \in V
                                             => fold[s] = step[Max(s)][fold[s \ {Max(s)}]]
             PROVE  \E g \in [0..n -> V] : Leads(g, n, base, step, fold[1..n])
  BY DEF FoldsIn
<1> DEFINE P == {i \in 0..n : fold[1..i] \in V}
<1>1. 1..0 = {}  OBVIOUS
<1>2. ASSUME NEW i \in 1..n, fold[1..(i - 1)] \in V
      PROVE  fold[1..i] = step[i][fold[1..(i - 1)]] /\ fold[1..i] \in V
  <2>1. Max(1..i) = i /\ (1..i) \ {Max(1..i)} = 1..(i - 1)  BY MaxOfInterval
  <2>2. 1..i \in SUBSET (1..n) /\ 1..i # {}
    <3>1. \A j \in 1..i : j \in 1..n  OBVIOUS
    <3>2. i \in 1..i  OBVIOUS
    <3> QED  BY <3>1, <3>2
  <2>3. fold[1..i] = step[i][fold[1..(i - 1)]]  BY <1>2, <2>1, <2>2
  <2>4. step[i] \in [V -> V]  OBVIOUS
  <2> QED  BY <1>2, <2>3, <2>4
<1>3. \A i \in 0..n : i \in P
  <2>1. 0 \in P  BY <1>1
  <2>2. \A i \in 1..n : i - 1 \in P => i \in P  BY <1>2
  <2> HIDE DEF P
  <2> QED  BY <2>1, <2>2, InductionUpTo
<1> DEFINE g == [i \in 0..n |-> fold[1..i]]
<1>4. g \in [0..n -> V] /\ g[0] = base /\ g[n] = fold[1..n]
  BY <1>1, <1>3
<1>5. ASSUME NEW i \in 1..n PROVE g[i] = step[i][g[i - 1]]
  <2>1. i \in 0..n /\ i - 1 \in 0..n  OBVIOUS
  <2>2. fold[1..(i - 1)] \in V  BY <1>3, <2>1
  <2> QED  BY <1>2, <2>1, <2>2
<1> HIDE DEF g
<1>6. Leads(g, n, base, step, fold[1..n])  BY <1>4, <1>5 DEF Leads
<1> QED  BY <1>4, <1>6

(* The same as a named fact, of the function f[0] = base, f[i] = step[i] of *)
(* f[i - 1].                                                                *)
Runs(g, V, n, base, step) ==
    /\ g \in [0..n -> V] /\ g[0] = base
    /\ \A i \in 1..n : g[i] = step[i][g[i - 1]]

LEMMA RunsExist ==
  \A V : \A base \in V : \A n \in Nat : \A step \in [1..n -> [V -> V]] :
     \E g : Runs(g, V, n, base, step)
<1> TAKE V
<1> TAKE base \in V
<1> TAKE n \in Nat
<1> TAKE step \in [1..n -> [V -> V]]
<1>1. \E g \in [0..n -> V] : g[0] = base /\ \A i \in 1..n : g[i] = step[i][g[i - 1]]
  BY RecursionExists
<1> QED  BY <1>1 DEF Runs

-----------------------------------------------------------------------------
(* Induction over sequences, one element at the end more.                   *)
LEMMA SequenceInduction ==
  ASSUME NEW V, NEW P, <<>> \in P,
         \A s \in Seq(V) : \A v \in V : s \in P => Append(s, v) \in P
  PROVE  \A s \in Seq(V) : s \in P
<1> SUFFICES ASSUME NEW s \in Seq(V) PROVE s \in P
  OBVIOUS
<1>1. PICK n \in Nat : n = Len(s)  OBVIOUS
<1> DEFINE Q == {i \in 0..n : SubSeq(s, 1, i) \in P}
<1>2. 0 \in Q
  <2>1. PICK e : e = SubSeq(s, 1, 0)  OBVIOUS
  <2>2. e = <<>>  BY <2>1
  <2>3. e \in P  BY <2>2
  <2>4. SubSeq(s, 1, 0) \in P  BY <2>1, <2>3, Zenon
  <2>5. 0 \in 0..n  OBVIOUS
  <2> QED  BY <2>4, <2>5, Zenon
<1>3. ASSUME NEW i \in 1..n, i - 1 \in Q PROVE i \in Q
  <2>1. /\ SubSeq(s, 1, i - 1) \in Seq(V) /\ s[i] \in V
        /\ SubSeq(s, 1, i) = Append(SubSeq(s, 1, i - 1), s[i])
    <3> HIDE DEF Q
    <3>1. i \in Nat /\ i - 1 \in 0..n  OBVIOUS
    <3> QED  BY <1>1, <3>1
  <2>2. SubSeq(s, 1, i - 1) \in P  BY <1>3
  <2>3. SubSeq(s, 1, i) \in P  BY <2>1, <2>2, Zenon
  <2> QED  BY <2>3
<1>4. n \in Q
  <2> HIDE DEF Q
  <2>1. \A i \in 1..n : i - 1 \in Q => i \in Q  BY <1>3
  <2>2. \A i \in 0..n : i \in Q  BY <1>2, <2>1, InductionUpTo
  <2> QED  BY <2>2
<1>5. SubSeq(s, 1, n) = s  BY <1>1
<1> QED  BY <1>4, <1>5

=============================================================================
