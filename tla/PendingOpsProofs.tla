---------------------------- MODULE PendingOpsProofs ----------------------------
(***************************************************************************)
(* What is proved of the processor of pending operations, for every set of *)
(* indexes, keys and batches, every size of a batch and any number of      *)
(* stops: QueueInv; and, for the runs that stop only when what they know   *)
(* to be done is recorded, that the processor is the serial queue that its *)
(* producers rely on.  The first run is such a run.                        *)
(***************************************************************************)
EXTENDS PendingOpsProps, FiniteSetTheorems, TLAPS

-------------------------------------------------------------------------------
(***************************************************************************)
(* The order of operations                                                 *)
(***************************************************************************)
Pair == Nat \X Nat

LEMMA Ordered ==
  ASSUME NEW o \in Pair, NEW p \in Pair
  PROVE  /\ ~ Before(o, o)
         /\ o = p \/ Before(o, p) \/ Before(p, o)
         /\ Before(o, p) => o # p /\ ~ Before(p, o)
         /\ \A q \in Pair : Before(o, p) /\ Before(p, q) => Before(o, q)
<1>1. o = << o[1], o[2] >> /\ p = << p[1], p[2] >>
  BY DEF Pair
<1>2. o[1] \in Nat /\ o[2] \in Nat /\ p[1] \in Nat /\ p[2] \in Nat
  BY DEF Pair
<1>3. \A q \in Pair : q[1] \in Nat /\ q[2] \in Nat
  BY DEF Pair
<1> QED
  BY <1>1, <1>2, <1>3 DEF Before, Serial!Before

\* Induction on the subsets of a finite set.
LEMMA SubsetInduction ==
  ASSUME NEW S, IsFiniteSet(S), NEW B,
         \A T \in SUBSET S : (\A U \in SUBSET S : U \subseteq T /\ U # T => U \in B) => T \in B
  PROVE  S \in B
<1> DEFINE M == {T \in SUBSET S : T \notin B}
           R == StrictSubsetOrdering(S)
<1> SUFFICES ASSUME S \notin B PROVE FALSE
  OBVIOUS
<1>1. IsWellFoundedOn(R, SUBSET S)
  <2>1. FiniteSubsetsOf(S) = SUBSET S
    BY FS_FiniteSubsetsOfFinite
  <2>2. IsWellFoundedOn(StrictSubsetOrdering(S), FiniteSubsetsOf(S))
    BY FS_StrictSubsetOrderingWellFounded
  <2> QED
    BY <2>1, <2>2
<1>2. PICK T \in M : \A U \in M : << U, T >> \notin R
  <2>1. M \subseteq SUBSET S /\ S \in M
    OBVIOUS
  <2> HIDE DEF M, R
  <2> QED
    BY <1>1, <2>1, WFMin
<1>3. \A U \in SUBSET S : U \subseteq T /\ U # T => U \in B
  BY <1>2 DEF StrictSubsetOrdering
<1> QED
  BY <1>2, <1>3

\* Some operation of a finite set is after all others, and one before them.
LEMMA Extremes ==
  ASSUME NEW T \in SUBSET Pair, IsFiniteSet(T), T # {}
  PROVE  /\ \E m \in T : \A p \in T : p = m \/ Before(p, m)
         /\ \E m \in T : \A p \in T : p = m \/ Before(m, p)
<1> DEFINE Has(U) == /\ \E m \in U : \A p \in U : p = m \/ Before(p, m)
                     /\ \E m \in U : \A p \in U : p = m \/ Before(m, p)
           B == {U \in SUBSET T : U # {} => Has(U)}
<1>1. ASSUME NEW U \in SUBSET T, \A W \in SUBSET T : W \subseteq U /\ W # U => W \in B,
             NEW x \in U
      PROVE  Has(U)
  <2>1. U \ {x} \in B
    BY <1>1
  <2>2. CASE U \ {x} = {}
    BY <2>2
  <2>3. CASE U \ {x} # {}
    <3>1. Has(U \ {x})
      BY <2>1, <2>3
    <3>2. PICK m \in U \ {x} : \A p \in U \ {x} : p = m \/ Before(p, m)
      BY <3>1
    <3>3. PICK n \in U \ {x} : \A p \in U \ {x} : p = n \/ Before(n, p)
      BY <3>1
    <3>4. U \subseteq Pair /\ x \in Pair /\ m \in Pair /\ n \in Pair
      BY <3>2, <3>3
    <3>5. \E z \in U : \A p \in U : p = z \/ Before(p, z)
      <4>1. CASE Before(x, m)
        BY <3>2, <4>1
      <4>2. CASE Before(m, x)
        <5>1. \A p \in U : p = x \/ Before(p, x)
          BY <3>2, <3>4, <4>2, Ordered
        <5> QED
          BY <5>1
      <4> QED
        BY <3>2, <3>4, <4>1, <4>2, Ordered
    <3>6. \E z \in U : \A p \in U : p = z \/ Before(z, p)
      <4>1. CASE Before(n, x)
        BY <3>3, <4>1
      <4>2. CASE Before(x, n)
        <5>1. \A p \in U : p = x \/ Before(x, p)
          BY <3>3, <3>4, <4>2, Ordered
        <5> QED
          BY <5>1
      <4> QED
        BY <3>3, <3>4, <4>1, <4>2, Ordered
    <3> QED
      BY <3>5, <3>6
  <2> QED
    BY <2>2, <2>3
<1> HIDE DEF Has
<1>2. \A U \in SUBSET T : (\A W \in SUBSET T : W \subseteq U /\ W # U => W \in B) => U \in B
  BY <1>1
<1> HIDE DEF B
<1>3. T \in B
  BY <1>2, SubsetInduction
<1> QED
  BY <1>3 DEF B, Has

LEMMA LatestOfSet ==
  ASSUME NEW T \in SUBSET Pair, IsFiniteSet(T), T # {}
  PROVE  /\ Serial!Latest(T) \in T
         /\ \A p \in T : p = Serial!Latest(T) \/ Before(p, Serial!Latest(T))
         /\ IsFiniteSet(T \ {Serial!Latest(T)})
<1>1. \E m \in T : \A p \in T : p = m \/ Serial!Before(p, m)
  BY Extremes DEF Before
<1>2. /\ Serial!Latest(T) \in T
      /\ \A p \in T : p = Serial!Latest(T) \/ Serial!Before(p, Serial!Latest(T))
  BY <1>1 DEF Serial!Latest
<1> QED
  BY <1>2, FS_Subset DEF Before

LEMMA FirstOfSet ==
  ASSUME NEW T \in SUBSET Pair, IsFiniteSet(T), T # {}
  PROVE  /\ FirstOf(T) \in T
         /\ \A p \in T : p = FirstOf(T) \/ Before(FirstOf(T), p)
<1>1. \E m \in T : \A p \in T : p = m \/ Before(m, p)
  BY Extremes
<1> QED
  BY <1>1 DEF FirstOf

\* The operation after all others of a set is so in the subsets that have it.
LEMMA LatestIsUnique ==
  ASSUME NEW T \in SUBSET Pair, IsFiniteSet(T), NEW m \in T,
         \A p \in T : p = m \/ Before(p, m)
  PROVE  Serial!Latest(T) = m
<1>1. Serial!Latest(T) \in T /\ (m = Serial!Latest(T) \/ Before(m, Serial!Latest(T)))
  BY LatestOfSet
<1>2. Serial!Latest(T) = m \/ Before(Serial!Latest(T), m)
  BY <1>1
<1>3. Serial!Latest(T) \in Pair /\ m \in Pair
  BY <1>1
<1> QED
  BY <1>1, <1>2, <1>3, Ordered

-------------------------------------------------------------------------------
(***************************************************************************)
(* Folds.  A fold is defined by recursion over the subsets of a finite set *)
(* from which one member after the other is picked.                        *)
(***************************************************************************)
Recursion(g, S, b, pick, step) ==
  \A T \in SUBSET S :
    g[T] = IF T = {} THEN b ELSE step[g[T \ {pick[T]}], pick[T]]

Picks(pick, S) == IsFiniteSet(S) /\ \A T \in SUBSET S : T # {} => pick[T] \in T

LEMMA RecursionExists ==
  ASSUME NEW S, NEW V, NEW b \in V, NEW step \in [V \X S -> V], NEW pick, Picks(pick, S)
  PROVE  \E g \in [SUBSET S -> V] : Recursion(g, S, b, pick, step)
<1> DEFINE D == SUBSET S
           Value(g, s) == IF s = {} THEN b ELSE step[g[s \ {pick[s]}], pick[s]]
           UpTo(g, k) == \A s \in D : Cardinality(s) <= k => g[s] = Value(g, s)
           B == {T \in D : \E g \in [D -> V] : UpTo(g, Cardinality(T))}
<1>1. IsFiniteSet(S) /\ \A T \in SUBSET S : T # {} => pick[T] \in T
  BY DEF Picks
<1>2. ASSUME NEW s \in D
      PROVE  /\ IsFiniteSet(s) /\ Cardinality(s) \in Nat /\ Cardinality(S) \in Nat
             /\ Cardinality(s) <= Cardinality(S)
  <2>1. IsFiniteSet(s) /\ Cardinality(s) <= Cardinality(S)
    BY <1>1, FS_Subset
  <2> QED
    BY <1>1, <2>1, FS_CardinalityType
<1>3. ASSUME NEW s \in D, s # {}
      PROVE  /\ pick[s] \in s /\ pick[s] \in S /\ s \ {pick[s]} \in D
             /\ Cardinality(s \ {pick[s]}) = Cardinality(s) - 1
             /\ s \ {pick[s]} \subseteq s /\ s \ {pick[s]} # s
  <2>1. pick[s] \in s /\ IsFiniteSet(s)
    BY <1>1, <1>2, <1>3
  <2> DEFINE m == pick[s]
  <2> HIDE DEF m
  <2>2. m \in s => Cardinality(s \ {m}) = Cardinality(s) - 1
    BY <2>1, FS_RemoveElement
  <2> QED
    BY <2>1, <2>2 DEF m
<1>4. \A g \in [D -> V], s \in D : Value(g, s) \in V
  <2> SUFFICES ASSUME NEW g \in [D -> V], NEW s \in D, s # {}
               PROVE  step[g[s \ {pick[s]}], pick[s]] \in V
    OBVIOUS
  <2> DEFINE t == s \ {pick[s]}
             m == pick[s]
  <2>1. t \in D /\ m \in S
    BY <1>3
  <2> HIDE DEF t, m
  <2>2. step[g[t], m] \in V
    BY <2>1
  <2> QED
    BY <2>2 DEF t, m
<1>5. \E g \in [D -> V] : UpTo(g, 0)
  <2> DEFINE g == [s \in D |-> b]
  <2>1. ASSUME NEW s \in D, Cardinality(s) <= 0 PROVE s = {}
    BY <1>2, <2>1, FS_EmptySet
  <2>2. UpTo(g, 0)
    BY <2>1
  <2>3. g \in [D -> V]
    OBVIOUS
  <2> QED
    BY <2>2, <2>3
<1>6. ASSUME NEW g \in [D -> V], NEW k \in Nat, UpTo(g, k)
      PROVE  \E h \in [D -> V] : UpTo(h, k + 1)
  <2> DEFINE h == [s \in D |-> Value(g, s)]
  <2>1. h \in [D -> V]
    BY <1>4
  <2>2. \A s \in D : Cardinality(s) <= k => h[s] = g[s]
    BY <1>6
  <2>3. ASSUME NEW s \in D, Cardinality(s) <= k + 1 PROVE h[s] = Value(h, s)
    <3>1. CASE s = {}
      BY <3>1
    <3>2. CASE s # {}
      <4> DEFINE t == s \ {pick[s]}
      <4>1. t \in D /\ Cardinality(t) = Cardinality(s) - 1 /\ Cardinality(s) \in Nat
        BY <1>2, <1>3, <3>2
      <4>2. h[s] = step[g[t], pick[s]]
        BY <3>2
      <4> HIDE DEF h, t
      <4>3. h[t] = g[t]
        BY <2>2, <2>3, <4>1
      <4> QED
        BY <3>2, <4>2, <4>3 DEF t
    <3> QED
      BY <3>1, <3>2
  <2> HIDE DEF h
  <2> QED
    BY <2>1, <2>3
<1> HIDE DEF UpTo
<1>7. ASSUME NEW T \in D, \A U \in D : U \subseteq T /\ U # T => U \in B PROVE T \in B
  <2>1. CASE T = {}
    <3>1. Cardinality(T) = 0
      BY <2>1, FS_EmptySet
    <3> QED
      BY <1>5, <3>1
  <2>2. CASE T # {}
    <3> DEFINE U == T \ {pick[T]}
    <3>1. U \in D /\ U \subseteq T /\ U # T /\ Cardinality(U) = Cardinality(T) - 1
      BY <1>3, <2>2
    <3>2. Cardinality(T) \in Nat /\ Cardinality(U) \in Nat
      BY <1>2, <3>1
    <3> HIDE DEF U
    <3>3. PICK g \in [D -> V] : UpTo(g, Cardinality(U))
      BY <1>7, <3>1
    <3>4. Cardinality(T) = Cardinality(U) + 1
      BY <3>1, <3>2
    <3>5. \E h \in [D -> V] : UpTo(h, Cardinality(U) + 1)
      BY <1>6, <3>2, <3>3
    <3>6. \E h \in [D -> V] : UpTo(h, Cardinality(T))
      BY <3>4, <3>5
    <3> QED
      BY <3>6
  <2> QED
    BY <2>1, <2>2
<1>8. S \in B
  <2>1. \A T \in SUBSET S : (\A U \in SUBSET S : U \subseteq T /\ U # T => U \in B) => T \in B
    BY <1>7
  <2> HIDE DEF B
  <2> QED
    BY <1>1, <2>1, SubsetInduction
<1>9. PICK g \in [D -> V] : UpTo(g, Cardinality(S))
  BY <1>8
<1> QED
  BY <1>2, <1>9 DEF UpTo, Recursion

\* Where one set of members is part of another, so is the recursion.
LEMMA RecursionAgrees ==
  ASSUME NEW S, NEW W \in SUBSET S, NEW b, NEW step, NEW pick, Picks(pick, S), NEW g, NEW h,
         Recursion(g, S, b, pick, step), Recursion(h, W, b, pick, step)
  PROVE  h[W] = g[W]
<1> DEFINE B == {T \in SUBSET W : h[T] = g[T]}
<1>1. ASSUME NEW T \in SUBSET W, \A U \in SUBSET W : U \subseteq T /\ U # T => U \in B
      PROVE  T \in B
  <2>1. CASE T = {}
    BY <2>1 DEF Recursion
  <2>2. CASE T # {}
    <3>1. pick[T] \in T /\ T \in SUBSET S
      BY <2>2 DEF Picks
    <3>2. T \ {pick[T]} \in SUBSET W /\ T \ {pick[T]} \subseteq T /\ T \ {pick[T]} # T
      BY <3>1
    <3>3. h[T \ {pick[T]}] = g[T \ {pick[T]}]
      BY <1>1, <3>2
    <3>4. /\ h[T] = step[h[T \ {pick[T]}], pick[T]]
          /\ g[T] = step[g[T \ {pick[T]}], pick[T]]
      BY <2>2, <3>1 DEF Recursion
    <3> QED
      BY <3>3, <3>4
  <2> QED
    BY <2>1, <2>2
<1>2. IsFiniteSet(W)
  BY FS_Subset DEF Picks
<1> HIDE DEF B
<1>3. W \in B
  BY <1>1, <1>2, SubsetInduction
<1> QED
  BY <1>3 DEF B

-------------------------------------------------------------------------------
(***************************************************************************)
(* What a set of operations makes of a document.  The batches are a        *)
(* parameter here, for what is accepted later must not change the past.    *)
(***************************************************************************)
WhatIn(w, o) == w[o[1]][o[2]]

EffectIn(w, d, o) ==
  CASE WhatIn(w, o).kind = "replace" -> << o >>
    [] WhatIn(w, o).kind = "remove" -> Serial!Absent
    [] WhatIn(w, o).kind = "patch" -> IF d = Serial!Absent THEN Serial!Absent ELSE Append(d, o)
    [] WhatIn(w, o).kind = "count" ->
         IF d = Serial!Absent \/ WhatIn(w, o).key \notin Root THEN d ELSE Append(d, o)
    [] WhatIn(w, o).kind = "merge" -> Append(d, o)

DoneIn(w, d, T) ==
  LET effect(o, x) == EffectIn(w, x, o)
      same(o) == o
  IN MapThenFoldSet(effect, d, same, Serial!Latest, T)

NamedIn(w, i, k, S) ==
  {o \in S : /\ WhatIn(w, o).kind \in Serial!Simple
             /\ WhatIn(w, o).index = i /\ WhatIn(w, o).key = k}

LEMMA AfterIsDone ==
  ASSUME NEW d, NEW i, NEW k, NEW S
  PROVE  Serial!After(d, i, k, S) = DoneIn(sent, d, NamedIn(sent, i, k, S))
<1> DEFINE T == {o \in Serial!Of(S, i) : Serial!What(o).key = k}
<1>1. T = NamedIn(sent, i, k, S)
  BY DEF Serial!Of, Serial!What, NamedIn, WhatIn
<1>2. Serial!After(d, i, k, S) = DoneIn(sent, d, T)
  BY DEF Serial!After, DoneIn, MapThenFoldSet, Serial!MapThenFoldSet, EffectIn, Serial!Effect,
         Serial!What, WhatIn
<1> QED
  BY <1>1, <1>2

LEMMA AfterIsDoneNext ==
  ASSUME NEW CONSTANT d, NEW CONSTANT i, NEW CONSTANT k, NEW CONSTANT S
  PROVE  Serial!After(d, i, k, S)' = DoneIn(sent', d, NamedIn(sent', i, k, S))
<1> DEFINE T == {o \in Serial!Of(S, i)' : Serial!What(o)'.key = k}
<1>1. T = NamedIn(sent', i, k, S)
  BY DEF Serial!Of, Serial!What, NamedIn, WhatIn
<1>2. Serial!After(d, i, k, S)' = DoneIn(sent', d, T)
  BY DEF Serial!After, DoneIn, MapThenFoldSet, Serial!MapThenFoldSet, EffectIn, Serial!Effect,
         Serial!What, WhatIn
<1> QED
  BY <1>1, <1>2

Picked(T) == [U \in SUBSET T |-> Serial!Latest(U)]
EffectOf(w, O, T) == [x \in Seq(O) \X T |-> EffectIn(w, x[1], x[2])]

\* The document d of operations of O, and a set T of such operations.
Doable(w, O, d, T) ==
  /\ O \in SUBSET Pair /\ d \in Seq(O)
  /\ T \in SUBSET O /\ IsFiniteSet(T)
  /\ \A o \in T : WhatIn(w, o).kind \in Serial!Simple

\* How g comes to what T makes of d.
Comes(w, O, d, T, g) ==
  /\ g \in [SUBSET T -> Seq(O)]
  /\ Recursion(g, T, d, Picked(T), EffectOf(w, O, T))
  /\ DoneIn(w, d, T) = g[T]

LEMMA DoneRecurs ==
  ASSUME NEW w, NEW O, NEW d, NEW T, Doable(w, O, d, T)
  PROVE  \E g : Comes(w, O, d, T, g)
<1> DEFINE D == SUBSET T
           pick == Picked(T)
           step == EffectOf(w, O, T)
           E(g) == g = [U \in D |-> IF U = {} THEN d
                                    ELSE EffectIn(w, g[U \ {Serial!Latest(U)}], Serial!Latest(U))]
           fold == CHOOSE g : E(g)
<1> USE DEF Doable
<1>1. step \in [Seq(O) \X T -> Seq(O)]
  <2> SUFFICES ASSUME NEW x \in Seq(O), NEW o \in T PROVE EffectIn(w, x, o) \in Seq(O)
    BY DEF EffectOf
  <2>1. << o >> \in Seq(O) /\ << >> \in Seq(O) /\ Append(x, o) \in Seq(O)
    OBVIOUS
  <2> QED
    BY <2>1 DEF EffectIn, Serial!Absent, Serial!Simple
<1>2. \A U \in D : U # {} => /\ Serial!Latest(U) \in U /\ pick[U] = Serial!Latest(U)
                             /\ U \ {Serial!Latest(U)} \in D
  <2> SUFFICES ASSUME NEW U \in D, U # {} PROVE Serial!Latest(U) \in U
    BY DEF Picked
  <2>1. IsFiniteSet(U) /\ U \in SUBSET Pair
    BY FS_Subset
  <2> QED
    BY <2>1, LatestOfSet
<1>3. PICK g \in [D -> Seq(O)] : Recursion(g, T, d, pick, step)
  <2>1. Picks(pick, T)
    BY <1>2 DEF Picks
  <2> HIDE DEF step, pick
  <2> QED
    BY <1>1, <2>1, RecursionExists DEF Doable
<1>4. ASSUME NEW U \in D, U # {}, NEW x \in Seq(O)
      PROVE  step[x, pick[U]] = EffectIn(w, x, Serial!Latest(U))
  <2>1. pick[U] = Serial!Latest(U) /\ pick[U] \in T
    BY <1>2, <1>4
  <2>2. step[x, pick[U]] = EffectIn(w, x, pick[U])
    BY <2>1 DEF EffectOf
  <2> QED
    BY <2>1, <2>2
<1>5. \A U \in D : g[U] = IF U = {} THEN d
                          ELSE EffectIn(w, g[U \ {Serial!Latest(U)}], Serial!Latest(U))
  <2> SUFFICES ASSUME NEW U \in D, U # {}
               PROVE  g[U] = EffectIn(w, g[U \ {Serial!Latest(U)}], Serial!Latest(U))
    BY <1>3 DEF Recursion
  <2>1. g[U] = step[g[U \ {pick[U]}], pick[U]]
    BY <1>3 DEF Recursion
  <2>2. pick[U] = Serial!Latest(U) /\ g[U \ {pick[U]}] \in Seq(O)
    BY <1>2
  <2> HIDE DEF step, pick
  <2> QED
    BY <1>4, <2>1, <2>2
<1>6. E(g)
  BY <1>5
<1>7. E(fold)
  <2> HIDE DEF E
  <2> QED
    BY <1>6
<1>8. DoneIn(w, d, T) = fold[T]
  BY DEF DoneIn, MapThenFoldSet
<1> HIDE DEF fold
<1>9. \A U \in D : fold[U] = IF U = {} THEN d
                             ELSE EffectIn(w, fold[U \ {Serial!Latest(U)}], Serial!Latest(U))
  BY <1>7
<1> DEFINE B == {U \in D : fold[U] = g[U]}
<1>10. ASSUME NEW U \in D, \A W \in D : W \subseteq U /\ W # U => W \in B
       PROVE  U \in B
  <2>1. CASE U = {}
    BY <1>5, <1>9, <2>1
  <2>2. CASE U # {}
    <3> DEFINE W == U \ {Serial!Latest(U)}
    <3>1. W \in D /\ W \subseteq U /\ W # U
      BY <1>2, <2>2
    <3>2. fold[W] = g[W]
      BY <1>10, <3>1
    <3>3. fold[U] = EffectIn(w, fold[W], Serial!Latest(U)) /\ g[U] = EffectIn(w, g[W], Serial!Latest(U))
      BY <1>5, <1>9, <2>2
    <3> QED
      BY <3>2, <3>3
  <2> QED
    BY <2>1, <2>2
<1>11. T \in B
  <2> HIDE DEF B
  <2> QED
    BY <1>10, SubsetInduction
<1> QED
  BY <1>3, <1>8, <1>11 DEF Comes

\* A document after no operation,
LEMMA DoneNone ==
  ASSUME NEW w, NEW O, NEW d, Doable(w, O, d, {})
  PROVE  DoneIn(w, d, {}) = d
<1>1. PICK g : Comes(w, O, d, {}, g)
  BY DoneRecurs
<1> QED
  BY <1>1 DEF Comes, Recursion

\* and after the last of some.
LEMMA DoneStep ==
  ASSUME NEW w, NEW O, NEW d, NEW T, Doable(w, O, d, T)
  PROVE  /\ DoneIn(w, d, T) \in Seq(O)
         /\ T # {} => LET l == Serial!Latest(T)
                      IN DoneIn(w, d, T) = EffectIn(w, DoneIn(w, d, T \ {l}), l)
<1>1. PICK g : Comes(w, O, d, T, g)
  BY DoneRecurs
<1>2. DoneIn(w, d, T) \in Seq(O)
  BY <1>1 DEF Recursion, Comes
<1>3. ASSUME T # {}
      PROVE  LET l == Serial!Latest(T) IN DoneIn(w, d, T) = EffectIn(w, DoneIn(w, d, T \ {l}), l)
  <2> DEFINE l == Serial!Latest(T)
             W == T \ {l}
  <2>1. l \in T /\ IsFiniteSet(W) /\ T \in SUBSET Pair
    BY <1>3, LatestOfSet DEF Doable
  <2>2. Doable(w, O, d, W) /\ W \in SUBSET T
    BY <2>1 DEF Doable
  <2>3. PICK h : Comes(w, O, d, W, h)
    <3> HIDE DEF W, l
    <3> QED
      BY <2>2, DoneRecurs
  <2>4. \A U \in SUBSET T : U # {} => Serial!Latest(U) \in U
    <3> SUFFICES ASSUME NEW U \in SUBSET T, U # {} PROVE Serial!Latest(U) \in U
      OBVIOUS
    <3>1. IsFiniteSet(U) /\ U \in SUBSET Pair
      BY FS_Subset DEF Doable
    <3> QED
      BY <3>1, LatestOfSet
  <2>5. Recursion(h, W, d, Picked(T), EffectOf(w, O, T))
    <3> SUFFICES ASSUME NEW U \in SUBSET W, U # {}
                 PROVE  h[U] = EffectOf(w, O, T)[h[U \ {Picked(T)[U]}], Picked(T)[U]]
      BY <2>3 DEF Recursion, Comes
    <3> HIDE DEF W
    <3>1. /\ Picked(T)[U] = Serial!Latest(U) /\ Picked(W)[U] = Serial!Latest(U)
          /\ Serial!Latest(U) \in W /\ Serial!Latest(U) \in T
          /\ U \ {Serial!Latest(U)} \in SUBSET W
      BY <2>2, <2>4 DEF Picked
    <3>2. h[U \ {Serial!Latest(U)}] \in Seq(O)
      BY <2>3, <3>1 DEF Comes
    <3>3. h[U] = EffectOf(w, O, W)[h[U \ {Serial!Latest(U)}], Serial!Latest(U)]
      BY <2>3, <3>1 DEF Recursion, Comes
    <3> DEFINE x == h[U \ {Serial!Latest(U)}]
               m == Serial!Latest(U)
    <3> HIDE DEF x, m
    <3>4. x \in Seq(O) /\ m \in W /\ m \in T => EffectOf(w, O, W)[x, m] = EffectOf(w, O, T)[x, m]
      BY DEF EffectOf
    <3> QED
      BY <3>1, <3>2, <3>3, <3>4 DEF x, m
  <2>6. h[W] = g[W]
    <3>1. Picks(Picked(T), T)
      BY <2>4 DEF Picked, Picks, Doable
    <3> HIDE DEF W
    <3> QED
      BY <1>1, <2>2, <2>5, <3>1, RecursionAgrees DEF Comes
  <2>7. g[T] = EffectOf(w, O, T)[g[W], l] /\ g[W] \in Seq(O)
    BY <1>1, <1>3 DEF Recursion, Picked, Comes
  <2>8. EffectOf(w, O, T)[g[W], l] = EffectIn(w, g[W], l)
    BY <2>1, <2>7 DEF EffectOf
  <2> QED
    BY <1>1, <2>3, <2>6, <2>7, <2>8 DEF Comes
<1> QED
  BY <1>2, <1>3

-------------------------------------------------------------------------------
(***************************************************************************)
(* The batches                                                             *)
(***************************************************************************)
\* A finite set of numbers has a largest member.
LEMMA Largest ==
  ASSUME NEW n \in Nat, NEW T \in SUBSET (1 .. n), T # {}
  PROVE  Max(T) \in T
<1> DEFINE B == {U \in SUBSET T : U # {} => \E m \in U : \A y \in U : m >= y}
<1>1. IsFiniteSet(T)
  <2>1. IsFiniteSet(1 .. n)
    BY FS_Interval
  <2> QED
    BY <2>1, FS_Subset
<1>2. ASSUME NEW U \in SUBSET T, \A W \in SUBSET T : W \subseteq U /\ W # U => W \in B
      PROVE  U \in B
  <2> SUFFICES ASSUME NEW x \in U PROVE \E m \in U : \A y \in U : m >= y
    OBVIOUS
  <2>1. U \ {x} \in B
    BY <1>2
  <2>2. CASE U \ {x} = {}
    BY <2>2
  <2>3. CASE U \ {x} # {}
    <3>1. PICK m \in U \ {x} : \A y \in U \ {x} : m >= y
      BY <2>1, <2>3
    <3>2. CASE m >= x
      BY <3>1, <3>2
    <3>3. CASE ~ (m >= x)
      <4>1. \A y \in U : x >= y
        BY <3>1, <3>3
      <4> QED
        BY <4>1
    <3> QED
      BY <3>2, <3>3
  <2> QED
    BY <2>2, <2>3
<1> HIDE DEF B
<1>3. T \in B
  BY <1>1, <1>2, SubsetInduction
<1> QED
  BY <1>3 DEF B, Max

\* What a part of a batch holds.
PartOf(r, s, T, c) ==
  /\ r \in Seq(Serial!Shape)
  /\ \A m \in DOMAIN r : (r[m].kind = "check") = c /\ \E n \in T : r[m] = s[n]
  /\ (\E n \in T : (s[n].kind = "check") = c) => r # << >>

LEMMA PartFacts ==
  ASSUME NEW s \in Seq(Serial!Shape), NEW c \in BOOLEAN
  PROVE  PartOf(Part(s, c), s, DOMAIN s, c)
<1> DEFINE n == Len(s)
           V == Seq(Serial!Shape)
           D == SUBSET DOMAIN s
           Keep1(t, x) == IF (x.kind = "check") = c THEN Append(t, x) ELSE t
           step == [x \in V \X (1 .. n) |-> Keep1(x[1], s[x[2]])]
           pick == [T \in D |-> Max(T)]
           E(g) == g = [T \in D |-> IF T = {} THEN << >>
                                    ELSE Keep1(g[T \ {Max(T)}], s[Max(T)])]
           fold == CHOOSE g : E(g)
<1>1. n \in Nat /\ DOMAIN s = 1 .. n /\ \A m \in 1 .. n : s[m] \in Serial!Shape
  OBVIOUS
<1>2. \A T \in D : T # {} => Max(T) \in T /\ T \ {Max(T)} \in D /\ Max(T) \in 1 .. n
  BY <1>1, Largest
<1>3. IsFiniteSet(1 .. n)
  BY <1>1, FS_Interval
<1>4. step \in [V \X (1 .. n) -> V] /\ << >> \in V
  BY <1>1
<1>5. Picks(pick, 1 .. n)
  BY <1>1, <1>2, <1>3 DEF Picks
<1>6. PICK g \in [SUBSET (1 .. n) -> V] : Recursion(g, 1 .. n, << >>, pick, step)
  <2> HIDE DEF step, pick, V, n
  <2> QED
    BY <1>4, <1>5, RecursionExists
<1>7. \A T \in D : g[T] = IF T = {} THEN << >> ELSE Keep1(g[T \ {Max(T)}], s[Max(T)])
  <2> SUFFICES ASSUME NEW T \in D, T # {} PROVE g[T] = Keep1(g[T \ {Max(T)}], s[Max(T)])
    BY <1>1, <1>6 DEF Recursion
  <2>1. pick[T] = Max(T)
    OBVIOUS
  <2>2. g[T] = step[g[T \ {Max(T)}], Max(T)]
    BY <1>1, <1>6, <2>1 DEF Recursion
  <2>3. g[T \ {Max(T)}] \in V /\ Max(T) \in 1 .. n
    BY <1>1, <1>2, <1>6
  <2> DEFINE y == g[T \ {Max(T)}]
             m == Max(T)
  <2> HIDE DEF y, m
  <2>4. y \in V /\ m \in 1 .. n => step[y, m] = Keep1(y, s[m])
    OBVIOUS
  <2> QED
    BY <2>2, <2>3, <2>4 DEF y, m
<1>8. E(g)
  BY <1>1, <1>6, <1>7
<1>9. E(fold)
  <2> HIDE DEF E
  <2> QED
    BY <1>8
<1>10. Part(s, c) = fold[DOMAIN s]
  BY DEF Part, FoldLeft, MapThenFoldSet
<1> HIDE DEF fold
<1>11. \A T \in D : fold[T] = IF T = {} THEN << >> ELSE Keep1(fold[T \ {Max(T)}], s[Max(T)])
  BY <1>9
<1> DEFINE B == {T \in D : PartOf(fold[T], s, T, c)}
<1>12. ASSUME NEW T \in D, \A W \in D : W \subseteq T /\ W # T => W \in B
       PROVE  T \in B
  <2>1. CASE T = {}
    <3>1. fold[T] = << >>
      BY <1>11, <2>1
    <3>2. fold[T] \in Seq(Serial!Shape) /\ DOMAIN fold[T] = {}
      <4>1. << >> \in Seq(Serial!Shape) /\ DOMAIN << >> = {}
        OBVIOUS
      <4> QED
        BY <3>1, <4>1
    <3> QED
      BY <2>1, <3>2 DEF PartOf
  <2>2. CASE T # {}
    <3> DEFINE W == T \ {Max(T)}
               m == Max(T)
               y == fold[W]
    <3>1. W \in D /\ W \subseteq T /\ W # T /\ m \in T /\ m \in 1 .. n
      BY <1>2, <2>2
    <3>2. PartOf(y, s, W, c)
      BY <1>12, <3>1
    <3>3. fold[T] = Keep1(y, s[m]) /\ T = W \cup {m} /\ s[m] \in Serial!Shape
      BY <1>1, <1>11, <2>2, <3>1
    <3> HIDE DEF W, m, y
    <3>4. PartOf(Keep1(y, s[m]), s, T, c)
      <4>1. CASE (s[m].kind = "check") = c
        <5>1. Keep1(y, s[m]) = Append(y, s[m])
          BY <4>1
        <5>2. Append(y, s[m]) \in Seq(Serial!Shape) /\ Append(y, s[m]) # << >>
          BY <3>2, <3>3 DEF PartOf
        <5>3. ASSUME NEW q \in DOMAIN Append(y, s[m])
              PROVE  Append(y, s[m])[q] = s[m] \/ (q \in DOMAIN y /\ Append(y, s[m])[q] = y[q])
          BY <3>2, <3>3 DEF PartOf
        <5> QED
          BY <3>2, <3>3, <4>1, <5>1, <5>2, <5>3 DEF PartOf
      <4>2. CASE (s[m].kind = "check") # c
        BY <3>2, <3>3, <4>2 DEF PartOf
      <4> QED
        BY <4>1, <4>2
    <3> QED
      BY <3>3, <3>4
  <2> QED
    BY <2>1, <2>2
<1>13. DOMAIN s \in B
  <2> HIDE DEF B
  <2> QED
    BY <1>1, <1>3, <1>12, SubsetInduction
<1> QED
  BY <1>10, <1>13

\* A batch in the order of the queue: its own operations, checks last.
LEMMA DeferredFacts ==
  ASSUME NEW s \in Shapes
  PROVE  /\ Deferred(s) \in Seq(Serial!Shape) /\ Deferred(s) # << >>
         /\ \A m \in DOMAIN Deferred(s) : \E n \in DOMAIN s : Deferred(s)[m] = s[n]
         /\ \A m, n \in DOMAIN Deferred(s) :
              m < n /\ Deferred(s)[m].kind = "check" => Deferred(s)[n].kind = "check"
<1> DEFINE a == Part(s, FALSE)
           b == Part(s, TRUE)
<1>1. s \in Seq(Serial!Shape) /\ s # << >>
  BY ShapesAssumption
<1>2. PartOf(a, s, DOMAIN s, FALSE) /\ PartOf(b, s, DOMAIN s, TRUE)
  BY <1>1, PartFacts
<1>3. Deferred(s) = a \o b
  BY DEF Deferred
<1> HIDE DEF a, b
<1>4. a \in Seq(Serial!Shape) /\ b \in Seq(Serial!Shape)
  BY <1>2 DEF PartOf
<1>5. a # << >> \/ b # << >>
  <2>1. 1 \in DOMAIN s
    BY <1>1
  <2> QED
    BY <1>2, <2>1 DEF PartOf
<1>6. a \o b \in Seq(Serial!Shape) /\ a \o b # << >>
  BY <1>4, <1>5
<1>7. ASSUME NEW m \in DOMAIN (a \o b)
      PROVE  \/ m \in DOMAIN a /\ (a \o b)[m] = a[m]
             \/ m > Len(a) /\ m - Len(a) \in DOMAIN b /\ (a \o b)[m] = b[m - Len(a)]
  BY <1>4
<1>8. \A m \in DOMAIN a : m <= Len(a) /\ m \in Nat
  BY <1>4
<1>9. \A m \in DOMAIN (a \o b) : \E n \in DOMAIN s : (a \o b)[m] = s[n]
  BY <1>2, <1>7 DEF PartOf
<1>10. ASSUME NEW m \in DOMAIN (a \o b), NEW n \in DOMAIN (a \o b), m < n,
              (a \o b)[m].kind = "check"
       PROVE  (a \o b)[n].kind = "check"
  <2>1. m > Len(a)
    BY <1>2, <1>7, <1>10 DEF PartOf
  <2>2. n > Len(a)
    BY <1>4, <1>10, <2>1
  <2>3. n - Len(a) \in DOMAIN b /\ (a \o b)[n] = b[n - Len(a)]
    BY <1>4, <1>7, <1>8, <2>2
  <2> QED
    BY <1>2, <2>3 DEF PartOf
<1> QED
  BY <1>3, <1>6, <1>9, <1>10

-------------------------------------------------------------------------------
(***************************************************************************)
(* The inductive invariant                                                 *)
(***************************************************************************)
KindOf(o) == What(o).kind
Checks(S) == {o \in S : KindOf(o) = "check"}
Puts == UNION {[D -> Doc] : D \in SUBSET Key}
Plan == [stage : {"delete", "write", "done"}, dels : SUBSET Key, puts : Puts, ids : SUBSET Op]

\* A batch is accepted once, and never changes.
SentOnce ==
  /\ \A b \in Serial!Batch : sent[b] = << >> \/ \E s \in Shapes : sent[b] = Deferred(s)
  /\ \A b \in Serial!Batch : sent[b] # << >> <=> \E n \in DOMAIN arrived : arrived[n] = b
  /\ \A m, n \in DOMAIN arrived : arrived[m] = arrived[n] => m = n

\* What a run holds at which of its places.
Placed ==
  /\ pc # "fetch" => buffer = {}
  /\ pc \in {"off", "fetch"} => batch = {}
  /\ pc \in {"off", "fetch", "batch"} => segment = {}
  /\ pc # "checks" => spare = {}
  /\ pc \notin {"commit", "dequeue"} => consumed = {} /\ \A i \in Index : plan[i] = Idle
  /\ pc \in {"commit", "dequeue"} => consumed = Consumed(segment)
  /\ pc = "off" => seen = Nothing

\* A segment is the beginning of its batch, without workflows.
Segmented ==
  /\ \A o \in segment, p \in batch : Before(o, p)
  /\ \A o \in segment : KindOf(o) # "flow" /\ o \notin started
  /\ pc = "checks" => \A o \in segment : KindOf(o) = "check"
  /\ \A o \in spare : KindOf(o) = "check" /\ o \notin segment \cup batch \cup started
  /\ \A o \in started : KindOf(o) \in {"check", "flow"}

\* What is recorded as done, where.
Recorded ==
  /\ \A i \in Index : state[i] \cup seen[i] \cup plan[i].ids \subseteq Serial!Of(Op, i)
  /\ pc # "off" => \A i \in Index : queue \cap state[i] \subseteq seen[i] \cup plan[i].ids
  /\ pc = "commit" => \A i \in Index :
       /\ plan[i].ids = Serial!Of(segment, i) \ seen[i]
       /\ plan[i].stage = "done" => plan[i].ids \subseteq state[i]
       /\ plan[i].stage # "done" => plan[i].ids # {} /\ plan[i].ids \cap state[i] = {}
  /\ pc = "dequeue" => \A i \in Index :
       Serial!Of(segment, i) \cup plan[i].ids \subseteq seen[i] /\ plan[i].ids \subseteq state[i]

\* What a plan makes of the documents d of an index.
Planned(a, d, k) ==
  IF k \in DOMAIN a.puts THEN a.puts[k] ELSE IF k \in a.dels THEN Serial!Absent ELSE d[k]

\* A plan does what its operations do one after the other, before its removals
\* are carried out and after them.
Fits(a, d, i) ==
  /\ \A k \in a.dels :
       k \notin DOMAIN a.puts /\ \E o \in a.ids : KindOf(o) = "remove" /\ What(o).key = k
  /\ \A k \in Key : Serial!After(d[k], i, k, a.ids) = Planned(a, d, k)
PlanFits ==
  /\ plan \in [Index -> Plan]
  /\ \A i \in Index :
       /\ plan[i].stage # "done" => Fits(plan[i], docs[i], i)
       /\ plan[i].stage = "write" => \A k \in plan[i].dels : docs[i][k] = Serial!Absent

\* An operation that was done is in its document, or another one was accepted
\* that replaces or removes it.
Gone(o, i, k) ==
  \E p \in Op : /\ p # o /\ KindOf(p) \in {"replace", "remove"}
                /\ What(p).index = i /\ What(p).key = k
InDoc(o, d) == \E n \in DOMAIN d : d[n] = o
Applied(o) == o \notin queue \/ \E i \in Index : o \in state[i] \cup seen[i]
Marked ==
  \A o \in Op : KindOf(o) \in {"replace", "merge"} /\ Applied(o) =>
    \/ InDoc(o, docs[What(o).index][What(o).key])
    \/ Gone(o, What(o).index, What(o).key)

QueueIndInv == TypeOK /\ SentOnce /\ Placed /\ Segmented /\ Recorded /\ PlanFits /\ Marked

-------------------------------------------------------------------------------
(***************************************************************************)
(* Operations                                                              *)
(***************************************************************************)
LEMMA OpFacts ==
  ASSUME sent \in [Serial!Batch -> Seq(Serial!Shape)]
  PROVE  /\ Op \in SUBSET Pair /\ IsFiniteSet(Op)
         /\ \A o \in Op : /\ o[1] \in Serial!Batch /\ o[2] \in DOMAIN sent[o[1]]
                          /\ What(o) \in Serial!Shape
<1> DEFINE some == [b \in Serial!Batch |-> Serial!OpsOf(b, sent[b])]
           all == {Serial!OpsOf(b, sent[b]) : b \in Serial!Batch}
<1>1. Op = UNION all
  BY DEF Op, Serial!Op
<1>2. Serial!Batch \subseteq Nat /\ IsFiniteSet(Serial!Batch)
  BY ProcessorAssumption, FS_Interval DEF Serial!Batch
<1>3. ASSUME NEW b \in Serial!Batch
      PROVE  /\ Serial!OpsOf(b, sent[b]) \in SUBSET Pair /\ IsFiniteSet(Serial!OpsOf(b, sent[b]))
             /\ \A o \in Serial!OpsOf(b, sent[b]) :
                  o[1] = b /\ o[2] \in DOMAIN sent[b] /\ What(o) \in Serial!Shape
  <2> DEFINE n == Len(sent[b])
  <2>1. DOMAIN sent[b] = 1 .. n /\ n \in Nat /\ \A m \in 1 .. n : sent[b][m] \in Serial!Shape
    OBVIOUS
  <2>2. b \in Nat
    BY <1>2
  <2> HIDE DEF n
  <2>3. Serial!OpsOf(b, sent[b]) \subseteq {b} \X (1 .. n)
    BY <2>1 DEF Serial!OpsOf
  <2>4. IsFiniteSet({b} \X (1 .. n))
    <3>1. IsFiniteSet(1 .. n)
      BY <2>1, FS_Interval
    <3>2. IsFiniteSet({b})
      BY FS_Singleton
    <3> QED
      BY <3>1, <3>2, FS_Product
  <2>5. IsFiniteSet(Serial!OpsOf(b, sent[b]))
    BY <2>3, <2>4, FS_Subset
  <2> QED
    BY <2>1, <2>2, <2>3, <2>5 DEF Pair, Serial!OpsOf, What, Serial!What
<1>4. IsFiniteSet(all)
  <2>1. some \in Surjection(Serial!Batch, all)
    BY DEF Surjection
  <2> HIDE DEF some, all
  <2> QED
    BY <1>2, <2>1, FS_Surjection
<1>5. IsFiniteSet(UNION all)
  <2>1. \A T \in all : IsFiniteSet(T)
    BY <1>3
  <2> HIDE DEF all
  <2> QED
    BY <1>4, <2>1, FS_UNION
<1> QED
  BY <1>1, <1>3, <1>5

\* With no batch accepted, nothing that is said of operations changes.
LEMMA SameBatches ==
  ASSUME sent' = sent
  PROVE  /\ Op' = Op /\ Doc' = Doc /\ Plan' = Plan
         /\ \A o : What(o)' = What(o) /\ KindOf(o)' = KindOf(o)
         /\ \A S, i : Serial!Of(S, i)' = Serial!Of(S, i)
<1>1. Op' = Op
  BY DEF Op, Serial!Op
<1>2. \A o : What(o)' = What(o)
  BY DEF What, Serial!What
<1>3. \A S, i : Serial!Of(S, i)' = Serial!Of(S, i)
  BY DEF Serial!Of, Serial!What
<1> QED
  BY <1>1, <1>2, <1>3 DEF Doc, Plan, Puts, KindOf

\* What the operations of S that name the document k of index i make of it.
Named(i, k, S) ==
  {o \in S : KindOf(o) \in Serial!Simple /\ What(o).index = i /\ What(o).key = k}

LEMMA AfterStep ==
  ASSUME sent \in [Serial!Batch -> Seq(Serial!Shape)], NEW d \in Doc, NEW i, NEW k,
         NEW S \in SUBSET Op
  PROVE  /\ Serial!After(d, i, k, S) \in Doc
         /\ Serial!After(d, i, k, S) = DoneIn(sent, d, Named(i, k, S))
         /\ Named(i, k, S) = {} => Serial!After(d, i, k, S) = d
         /\ \A T \in SUBSET Named(i, k, S) : Doable(sent, Op, d, T)
<1>1. Named(i, k, S) = NamedIn(sent, i, k, S)
  BY DEF Named, NamedIn, KindOf, What, Serial!What, WhatIn
<1>2. \A T \in SUBSET Named(i, k, S) : Doable(sent, Op, d, T)
  <2> SUFFICES ASSUME NEW T \in SUBSET Named(i, k, S) PROVE Doable(sent, Op, d, T)
    OBVIOUS
  <2>1. T \in SUBSET Op
    BY DEF Named
  <2>2. IsFiniteSet(T) /\ Op \in SUBSET Pair
    BY <2>1, OpFacts, FS_Subset
  <2> QED
    BY <1>1, <2>1, <2>2 DEF Doable, Doc, NamedIn
<1>3. Serial!After(d, i, k, S) = DoneIn(sent, d, Named(i, k, S))
  BY <1>1, AfterIsDone
<1>4. Doable(sent, Op, d, Named(i, k, S))
  BY <1>2
<1>5. DoneIn(sent, d, Named(i, k, S)) \in Seq(Op)
  BY <1>4, DoneStep
<1>6. DoneIn(sent, d, {}) = d
  <2>1. Doable(sent, Op, d, {})
    BY <1>2
  <2> QED
    BY <2>1, DoneNone
<1> QED
  BY <1>2, <1>3, <1>5, <1>6 DEF Doc

\* Batches that are accepted later change nothing of it.
LEMMA AfterStays ==
  ASSUME NEW CONSTANT d, NEW CONSTANT i, NEW CONSTANT k, NEW CONSTANT S,
         sent \in [Serial!Batch -> Seq(Serial!Shape)], d \in Doc, S \subseteq Op,
         \A o \in Op : What(o)' = What(o)
  PROVE  Serial!After(d, i, k, S)' = Serial!After(d, i, k, S)
<1> DEFINE T == Named(i, k, S)
           v == sent
           w == sent'
           B == {U \in SUBSET T : DoneIn(w, d, U) = DoneIn(v, d, U)}
<1>1. T = NamedIn(sent', i, k, S)
  BY DEF Named, NamedIn, KindOf, What, Serial!What, WhatIn
<1>2. \A o \in T : WhatIn(w, o) = WhatIn(v, o)
  BY DEF Named, What, Serial!What, WhatIn
<1>3. \A U \in SUBSET T : Doable(v, Op, d, U)
  BY AfterStep
<1>4. \A U \in SUBSET T : Doable(w, Op, d, U)
  BY <1>2, <1>3 DEF Doable
<1>5. Serial!After(d, i, k, S) = DoneIn(v, d, T)
  BY AfterStep
<1>6. Serial!After(d, i, k, S)' = DoneIn(w, d, T)
  BY <1>1, AfterIsDoneNext
<1>7. IsFiniteSet(T) /\ T \in SUBSET Pair
  BY <1>3 DEF Doable
<1> HIDE DEF T, v, w
<1>8. ASSUME NEW U \in SUBSET T, \A W \in SUBSET T : W \subseteq U /\ W # U => W \in B
      PROVE  U \in B
  <2>1. Doable(v, Op, d, U) /\ Doable(w, Op, d, U)
    BY <1>3, <1>4
  <2>2. CASE U = {}
    <3>1. Doable(v, Op, d, {}) /\ Doable(w, Op, d, {})
      BY <2>1, <2>2
    <3>2. DoneIn(v, d, {}) = d /\ DoneIn(w, d, {}) = d
      BY <3>1, DoneNone
    <3> QED
      BY <2>2, <3>2
  <2>3. CASE U # {}
    <3> DEFINE l == Serial!Latest(U)
               W == U \ {l}
    <3>1. l \in U
      <4>1. IsFiniteSet(U) /\ U \in SUBSET Pair
        BY <1>7, FS_Subset
      <4> QED
        BY <2>3, <4>1, LatestOfSet
    <3>2. W \in SUBSET T /\ W \subseteq U /\ W # U
      BY <3>1
    <3>3. DoneIn(w, d, W) = DoneIn(v, d, W)
      BY <1>8, <3>2
    <3>4. /\ DoneIn(v, d, U) = EffectIn(v, DoneIn(v, d, W), l)
          /\ DoneIn(w, d, U) = EffectIn(w, DoneIn(w, d, W), l)
      BY <2>1, <2>3, DoneStep
    <3>5. WhatIn(w, l) = WhatIn(v, l)
      BY <1>2, <3>1
    <3> HIDE DEF l, W
    <3>6. \A x : EffectIn(w, x, l) = EffectIn(v, x, l)
      BY <3>5 DEF EffectIn
    <3> QED
      BY <3>3, <3>4, <3>6
  <2> QED
    BY <2>2, <2>3
<1> HIDE DEF B
<1>9. T \in B
  BY <1>7, <1>8, SubsetInduction
<1> QED
  BY <1>5, <1>6, <1>9 DEF B

Batches == sent \in [Serial!Batch -> Seq(Serial!Shape)]

\* The last of the operations that name a document is done to what the others
\* made of it.
LEMMA DoneLast ==
  ASSUME Batches, NEW d \in Doc, NEW i, NEW k, NEW S \in SUBSET Op,
         NEW T \in SUBSET Named(i, k, S), T # {}
  PROVE  LET l == Serial!Latest(T)
         IN /\ l \in T /\ KindOf(l) \in Serial!Simple
            /\ DoneIn(sent, d, T) = Serial!Effect(DoneIn(sent, d, T \ {l}), l)
            /\ DoneIn(sent, d, T \ {l}) \in Doc
<1>1. Doable(sent, Op, d, T)
  BY AfterStep DEF Batches
<1> DEFINE l == Serial!Latest(T)
<1>2. l \in T
  BY <1>1, LatestOfSet DEF Doable
<1>3. DoneIn(sent, d, T) = EffectIn(sent, DoneIn(sent, d, T \ {l}), l)
  BY <1>1, DoneStep
<1>4. Doable(sent, Op, d, T \ {l})
  BY <1>2, AfterStep DEF Batches
<1>5. DoneIn(sent, d, T \ {l}) \in Doc
  BY <1>4, DoneStep DEF Doc
<1>6. KindOf(l) \in Serial!Simple
  BY <1>2 DEF Named
<1> HIDE DEF l
<1>7. \A x : EffectIn(sent, x, l) = Serial!Effect(x, l)
  BY DEF EffectIn, Serial!Effect, WhatIn, Serial!What
<1> QED
  BY <1>2, <1>3, <1>5, <1>6, <1>7 DEF l

LEMMA AfterLast ==
  ASSUME Batches, NEW d \in Doc, NEW i, NEW k, NEW S \in SUBSET Op, NEW l \in S,
         KindOf(l) \in Serial!Simple, What(l).index = i, What(l).key = k,
         \A p \in S : p = l \/ Before(p, l)
  PROVE  Serial!After(d, i, k, S) = Serial!Effect(Serial!After(d, i, k, S \ {l}), l)
<1> DEFINE T == Named(i, k, S)
<1>1. T \in SUBSET S /\ l \in T /\ Named(i, k, S \ {l}) = T \ {l}
  BY DEF Named
<1>2. Serial!After(d, i, k, S) = DoneIn(sent, d, T)
  BY AfterStep DEF Batches
<1>3. Serial!After(d, i, k, S \ {l}) = DoneIn(sent, d, T \ {l})
  <2>1. S \ {l} \in SUBSET Op
    OBVIOUS
  <2>2. Serial!After(d, i, k, S \ {l}) = DoneIn(sent, d, Named(i, k, S \ {l}))
    BY <2>1, AfterStep DEF Batches
  <2> QED
    BY <1>1, <2>2
<1>4. Serial!Latest(T) = l
  <2>1. T \in SUBSET Pair /\ IsFiniteSet(T)
    BY <1>1, OpFacts, FS_Subset DEF Batches
  <2> HIDE DEF T
  <2> QED
    BY <1>1, <2>1, LatestIsUnique
<1>5. LET m == Serial!Latest(T)
      IN DoneIn(sent, d, T) = Serial!Effect(DoneIn(sent, d, T \ {m}), m)
  <2>1. T \in SUBSET Named(i, k, S) /\ T # {}
    BY <1>1
  <2> HIDE DEF T
  <2> QED
    BY <2>1, DoneLast
<1> QED
  BY <1>2, <1>3, <1>4, <1>5

\* Operations that do not name a document do nothing to it.
LEMMA AfterNamed ==
  ASSUME Batches, NEW d \in Doc, NEW i, NEW k, NEW S \in SUBSET Op, NEW U \in SUBSET Op,
         Named(i, k, S) = Named(i, k, U)
  PROVE  Serial!After(d, i, k, S) = Serial!After(d, i, k, U)
<1>1. Serial!After(d, i, k, S) = DoneIn(sent, d, Named(i, k, S))
  BY AfterStep DEF Batches
<1>2. Serial!After(d, i, k, U) = DoneIn(sent, d, Named(i, k, U))
  BY AfterStep DEF Batches
<1> QED
  BY <1>1, <1>2

LEMMA AfterNothing ==
  ASSUME Batches, NEW d \in Doc, NEW i, NEW k
  PROVE  Serial!After(d, i, k, {}) = d
<1>1. Named(i, k, {}) = {}
  BY DEF Named
<1> QED
  BY <1>1, AfterStep DEF Batches

\* After a removal it does not matter what the document was.
LEMMA AfterRemoval ==
  ASSUME Batches, NEW d \in Doc, NEW e \in Doc, NEW i, NEW k, NEW S \in SUBSET Op,
         NEW r \in Named(i, k, S), KindOf(r) = "remove"
  PROVE  Serial!After(d, i, k, S) = Serial!After(e, i, k, S)
<1> DEFINE T == Named(i, k, S)
           B == {U \in SUBSET T : r \in U => DoneIn(sent, d, U) = DoneIn(sent, e, U)}
<1>1. Serial!After(d, i, k, S) = DoneIn(sent, d, T)
  BY AfterStep DEF Batches
<1>2. Serial!After(e, i, k, S) = DoneIn(sent, e, T)
  BY AfterStep DEF Batches
<1>3. IsFiniteSet(T)
  BY OpFacts, FS_Subset DEF Batches, Named
<1>4. ASSUME NEW U \in SUBSET T, \A W \in SUBSET T : W \subseteq U /\ W # U => W \in B
      PROVE  U \in B
  <2> SUFFICES ASSUME r \in U PROVE DoneIn(sent, d, U) = DoneIn(sent, e, U)
    OBVIOUS
  <2> DEFINE l == Serial!Latest(U)
  <2>1. l \in U /\ DoneIn(sent, d, U) = Serial!Effect(DoneIn(sent, d, U \ {l}), l)
    BY DoneLast
  <2>2. DoneIn(sent, e, U) = Serial!Effect(DoneIn(sent, e, U \ {l}), l)
    BY DoneLast
  <2> HIDE DEF l
  <2>3. CASE l = r
    <3>1. Serial!What(l).kind = "remove"
      BY <2>3 DEF KindOf, What
    <3>2. \A x : Serial!Effect(x, l) = Serial!Absent
      BY <3>1 DEF Serial!Effect
    <3> QED
      BY <2>1, <2>2, <3>2
  <2>4. CASE l # r
    <3>1. U \ {l} \in SUBSET T /\ U \ {l} \subseteq U /\ U \ {l} # U /\ r \in U \ {l}
      BY <2>1, <2>4
    <3>2. DoneIn(sent, d, U \ {l}) = DoneIn(sent, e, U \ {l})
      BY <1>4, <3>1
    <3> QED
      BY <2>1, <2>2, <3>2
  <2> QED
    BY <2>3, <2>4
<1>5. T \in B
  <2> HIDE DEF B, T
  <2> QED
    BY <1>3, <1>4, SubsetInduction
<1> QED
  BY <1>1, <1>2, <1>5

\* What was done stays in a document, but for a replacement or a removal.
LEMMA AfterMarks ==
  ASSUME Batches, NEW d \in Doc, NEW i, NEW k, NEW S \in SUBSET Op, NEW o \in Op,
         KindOf(o) \in {"replace", "merge"},
         InDoc(o, d) \/ o \in Named(i, k, S)
  PROVE  \/ InDoc(o, Serial!After(d, i, k, S))
         \/ \E p \in Named(i, k, S) : p # o /\ KindOf(p) \in {"replace", "remove"}
<1> DEFINE T == Named(i, k, S)
           Kept(U) == \/ InDoc(o, DoneIn(sent, d, U))
                      \/ \E p \in U : p # o /\ KindOf(p) \in {"replace", "remove"}
           B == {U \in SUBSET T : InDoc(o, d) \/ o \in U => Kept(U)}
<1>1. Serial!After(d, i, k, S) = DoneIn(sent, d, T)
  BY AfterStep DEF Batches
<1>2. IsFiniteSet(T)
  BY OpFacts, FS_Subset DEF Batches, Named
<1>3. DoneIn(sent, d, {}) = d
  <2>1. Doable(sent, Op, d, {})
    BY AfterStep DEF Batches
  <2> QED
    BY <2>1, DoneNone
<1>4. \A x \in Doc : \A l : InDoc(l, Append(x, l)) /\ (InDoc(o, x) => InDoc(o, Append(x, l)))
  <2> SUFFICES ASSUME NEW x \in Doc, NEW l
               PROVE  InDoc(l, Append(x, l)) /\ (InDoc(o, x) => InDoc(o, Append(x, l)))
    OBVIOUS
  <2>1. Len(x) \in Nat /\ DOMAIN x = 1 .. Len(x)
    BY DEF Doc
  <2>2. DOMAIN Append(x, l) = 1 .. (Len(x) + 1) /\ Append(x, l)[Len(x) + 1] = l
    BY DEF Doc
  <2>3. \A n \in 1 .. Len(x) : Append(x, l)[n] = x[n]
    BY DEF Doc
  <2>4. Len(x) + 1 \in 1 .. (Len(x) + 1) /\ \A n \in 1 .. Len(x) : n \in 1 .. (Len(x) + 1)
    BY <2>1
  <2> QED
    BY <2>1, <2>2, <2>3, <2>4 DEF InDoc
<1>5. InDoc(o, << o >>)
  <2>1. 1 \in DOMAIN << o >> /\ << o >>[1] = o
    OBVIOUS
  <2> QED
    BY <2>1 DEF InDoc
<1>6. ASSUME NEW U \in SUBSET T, \A W \in SUBSET T : W \subseteq U /\ W # U => W \in B
      PROVE  U \in B
  <2> SUFFICES ASSUME InDoc(o, d) \/ o \in U PROVE Kept(U)
    OBVIOUS
  <2>1. CASE U = {}
    <3>1. InDoc(o, DoneIn(sent, d, {}))
      BY <1>3, <2>1
    <3> QED
      BY <2>1, <3>1
  <2>2. CASE U # {}
    <3> DEFINE l == Serial!Latest(U)
    <3>1. /\ l \in U /\ KindOf(l) \in Serial!Simple
          /\ DoneIn(sent, d, U) = Serial!Effect(DoneIn(sent, d, U \ {l}), l)
          /\ DoneIn(sent, d, U \ {l}) \in Doc
      BY <2>2, DoneLast
    <3> HIDE DEF l
    <3> DEFINE x == DoneIn(sent, d, U \ {l})
    <3>2. KindOf(l) = Serial!What(l).kind
      BY DEF KindOf, What
    <3>3. CASE l = o
      <4>1. Serial!Effect(x, l) = << o >> \/ Serial!Effect(x, l) = Append(x, l)
        BY <3>2, <3>3 DEF Serial!Effect
      <4> QED
        BY <1>4, <1>5, <3>1, <3>3, <4>1
    <3>4. CASE l # o
      <4>1. U \ {l} \in SUBSET T /\ U \ {l} \subseteq U /\ U \ {l} # U
        BY <3>1
      <4>2. Kept(U \ {l})
        BY <1>6, <3>4, <4>1
      <4>3. CASE KindOf(l) \in {"replace", "remove"}
        BY <3>1, <3>4, <4>3
      <4>4. CASE KindOf(l) \notin {"replace", "remove"}
        <5>1. Serial!Effect(x, l) = x \/ Serial!Effect(x, l) = Append(x, l)
          BY <3>1, <3>2, <4>4 DEF Serial!Effect, Serial!Simple
        <5>2. InDoc(o, x) => InDoc(o, Serial!Effect(x, l))
          BY <1>4, <3>1, <5>1
        <5> QED
          BY <3>1, <4>2, <5>2
      <4> QED
        BY <4>3, <4>4
    <3> QED
      BY <3>3, <3>4
  <2> QED
    BY <2>1, <2>2
<1>7. T \in B
  <2> HIDE DEF B, T
  <2> QED
    BY <1>2, <1>6, SubsetInduction
<1> QED
  BY <1>1, <1>7

-------------------------------------------------------------------------------
(***************************************************************************)
(* Plans: what the dispatch of operations one after the other makes of the *)
(* deletions and documents that are going to be written.                   *)
(***************************************************************************)
With(p, k, d) == [x \in DOMAIN p \cup {k} |-> IF x = k THEN d ELSE p[x]]
Without(p, k) == [x \in DOMAIN p \ {k} |-> p[x]]

LEMMA PutsFacts ==
  ASSUME NEW p \in Puts, NEW k \in Key
  PROVE  /\ DOMAIN p \in SUBSET Key /\ \A x \in DOMAIN p : p[x] \in Doc
         /\ Without(p, k) \in Puts /\ \A d \in Doc : With(p, k, d) \in Puts
<1>1. PICK D \in SUBSET Key : p \in [D -> Doc]
  BY DEF Puts
<1>2. Without(p, k) \in [D \ {k} -> Doc]
  BY <1>1 DEF Without
<1>3. \A d \in Doc : With(p, k, d) \in [D \cup {k} -> Doc]
  BY <1>1 DEF With
<1>4. D \ {k} \in SUBSET Key /\ D \cup {k} \in SUBSET Key
  BY <1>1
<1>5. \A E \in SUBSET Key : \A q : q \in [E -> Doc] => q \in Puts
  BY DEF Puts
<1>6. DOMAIN p = D /\ \A x \in D : p[x] \in Doc
  BY <1>1
<1> QED
  BY <1>1, <1>2, <1>3, <1>4, <1>5, <1>6

\* How the dispatch of o changes a plan.
Dispatched(a, r, o, k, x) ==
  /\ KindOf(o) = "replace" => r.dels = a.dels \ {k} /\ r.puts = With(a.puts, k, << o >>)
  /\ KindOf(o) = "remove" => r.dels = a.dels \cup {k} /\ r.puts = Without(a.puts, k)
  /\ KindOf(o) = "patch" =>
       IF x = Serial!Absent THEN r.dels = a.dels /\ r.puts = a.puts
       ELSE r.dels = a.dels \ {k} /\ r.puts = With(a.puts, k, Append(x, o))
  /\ KindOf(o) = "count" =>
       IF x = Serial!Absent \/ k \notin Root THEN r.dels = a.dels /\ r.puts = a.puts
       ELSE r.dels = a.dels /\ r.puts = With(a.puts, k, Append(x, o))
  /\ KindOf(o) = "merge" => r.dels = a.dels /\ r.puts = With(a.puts, k, Append(x, o))

LEMMA KnownFacts ==
  ASSUME docs \in [Index -> [Key -> Doc]], NEW i \in Index, NEW a \in Plan, NEW k \in Key
  PROVE  Known(i, a, k) \in Doc
<1>1. a.puts \in Puts
  BY DEF Plan
<1>2. \A x \in DOMAIN a.puts : a.puts[x] \in Doc
  BY <1>1, PutsFacts
<1>3. << >> \in Doc
  BY DEF Doc
<1> QED
  BY <1>2, <1>3 DEF Known, Serial!Absent

LEMMA DispatchFacts ==
  ASSUME Batches, docs \in [Index -> [Key -> Doc]], NEW i \in Index, NEW a \in Plan,
         NEW o \in Serial!Of(Op, i)
  PROVE  /\ Dispatch(a, o) \in Plan
         /\ Dispatch(a, o).stage = a.stage
         /\ Dispatch(a, o).ids = a.ids \cup {o}
         /\ Dispatched(a, Dispatch(a, o), o, What(o).key, Known(i, a, What(o).key))
<1> DEFINE k == What(o).key
           b == [a EXCEPT !.ids = @ \cup {o}]
           x == Known(i, a, k)
<1>1. o \in Op /\ KindOf(o) \in Serial!Simple /\ What(o).index = i
  BY DEF Serial!Of, KindOf, What
<1>2. k \in Key
  BY <1>1, OpFacts DEF Batches, Serial!Shape
<1>3. x \in Doc /\ Append(x, o) \in Doc /\ << o >> \in Doc
  <2>1. x \in Doc
    BY <1>2, KnownFacts
  <2> HIDE DEF x
  <2> QED
    BY <1>1, <2>1 DEF Doc
<1>4. /\ b \in Plan /\ b.stage = a.stage /\ b.ids = a.ids \cup {o}
      /\ b.dels = a.dels /\ b.puts = a.puts
  BY <1>1 DEF Plan
<1>5. Known(i, b, k) = x
  BY <1>4 DEF Known
<1> HIDE DEF k, x, b
<1>6. ASSUME NEW c \in Plan, NEW d \in Doc
      PROVE  /\ Put(c, k, d) \in Plan /\ Put(c, k, d).puts = With(c.puts, k, d)
             /\ Put(c, k, d).stage = c.stage /\ Put(c, k, d).ids = c.ids
             /\ Put(c, k, d).dels = c.dels
  <2>1. c.puts \in Puts
    BY DEF Plan
  <2>2. With(c.puts, k, d) \in Puts
    BY <1>2, <2>1, PutsFacts
  <2>3. Put(c, k, d) = [c EXCEPT !.puts = With(c.puts, k, d)]
    BY DEF Put, With, Plan
  <2> QED
    BY <2>2, <2>3 DEF Plan
<1>7. ASSUME NEW c \in Plan
      PROVE  /\ Keep(c, k) \in Plan /\ Keep(c, k).puts = c.puts
             /\ Keep(c, k).stage = c.stage /\ Keep(c, k).ids = c.ids
             /\ Keep(c, k).dels = c.dels \ {k}
  BY DEF Keep, Plan
<1> DEFINE r == Dispatch(a, o)
           Fine == /\ r \in Plan /\ r.stage = a.stage /\ r.ids = a.ids \cup {o}
                   /\ Dispatched(a, r, o, k, x)
<1> SUFFICES Fine
  BY DEF k, x
<1>8. CASE KindOf(o) = "replace"
  <2> DEFINE c == Put(b, k, << o >>)
  <2>1. r = Keep(c, k)
    BY <1>8 DEF Dispatch, Replacing, b, k, KindOf
  <2>2. c \in Plan /\ c.stage = b.stage /\ c.ids = b.ids /\ c.dels = b.dels
        /\ c.puts = With(b.puts, k, << o >>)
    BY <1>3, <1>4, <1>6
  <2> HIDE DEF c, r
  <2>3. /\ r \in Plan /\ r.stage = a.stage /\ r.ids = a.ids \cup {o}
        /\ r.dels = a.dels \ {k} /\ r.puts = With(a.puts, k, << o >>)
    BY <1>4, <1>7, <2>1, <2>2
  <2> QED
    BY <1>8, <2>3 DEF Dispatched
<1>9. CASE KindOf(o) = "remove"
  <2>1. r = [b EXCEPT !.dels = @ \cup {k}, !.puts = [y \in DOMAIN @ \ {k} |-> @[y]]]
    BY <1>9 DEF Dispatch, Removing, b, k, KindOf
  <2>2. r = [b EXCEPT !.dels = b.dels \cup {k}, !.puts = Without(b.puts, k)]
    BY <1>4, <2>1 DEF Plan, Without
  <2>3. Without(b.puts, k) \in Puts
    <3>1. b.puts \in Puts
      BY <1>4 DEF Plan
    <3> QED
      BY <1>2, <3>1, PutsFacts
  <2> HIDE DEF r
  <2>4. /\ r \in Plan /\ r.stage = b.stage /\ r.ids = b.ids
        /\ r.dels = b.dels \cup {k} /\ r.puts = Without(b.puts, k)
    BY <1>2, <1>4, <2>2, <2>3 DEF Plan
  <2> QED
    BY <1>4, <1>9, <2>4 DEF Dispatched
<1>10. CASE KindOf(o) = "patch"
  <2> DEFINE c == Put(b, k, Append(x, o))
  <2>1. r = IF x = Serial!Absent THEN b ELSE Keep(c, k)
    BY <1>1, <1>5, <1>10 DEF Dispatch, Patching, b, k, KindOf
  <2>2. c \in Plan /\ c.stage = b.stage /\ c.ids = b.ids /\ c.dels = b.dels
        /\ c.puts = With(b.puts, k, Append(x, o))
    BY <1>3, <1>4, <1>6
  <2> HIDE DEF c, r
  <2>3. CASE x = Serial!Absent
    BY <1>4, <1>10, <2>1, <2>3 DEF Dispatched
  <2>4. CASE x # Serial!Absent
    <3>1. /\ r \in Plan /\ r.stage = a.stage /\ r.ids = a.ids \cup {o}
          /\ r.dels = a.dels \ {k} /\ r.puts = With(a.puts, k, Append(x, o))
      BY <1>4, <1>7, <2>1, <2>2, <2>4
    <3> QED
      BY <1>10, <2>4, <3>1 DEF Dispatched
  <2> QED
    BY <2>3, <2>4
<1>11. CASE KindOf(o) = "count"
  <2> DEFINE c == Put(b, k, Append(x, o))
  <2>1. r = IF x = Serial!Absent \/ k \notin Root THEN b ELSE c
    BY <1>1, <1>5, <1>11 DEF Dispatch, Counting, b, k, KindOf
  <2>2. c \in Plan /\ c.stage = b.stage /\ c.ids = b.ids /\ c.dels = b.dels
        /\ c.puts = With(b.puts, k, Append(x, o))
    BY <1>3, <1>4, <1>6
  <2> HIDE DEF c, r
  <2> QED
    BY <1>4, <1>11, <2>1, <2>2 DEF Dispatched
<1>12. CASE KindOf(o) = "merge"
  <2> DEFINE c == Put(b, k, Append(x, o))
  <2>1. r = c
    BY <1>1, <1>5, <1>12 DEF Dispatch, Merging, b, k, KindOf
  <2>2. c \in Plan /\ c.stage = b.stage /\ c.ids = b.ids /\ c.dels = b.dels
        /\ c.puts = With(b.puts, k, Append(x, o))
    BY <1>3, <1>4, <1>6
  <2> HIDE DEF c, r
  <2> QED
    BY <1>4, <1>12, <2>1, <2>2 DEF Dispatched
<1> QED
  BY <1>1, <1>8, <1>9, <1>10, <1>11, <1>12 DEF Serial!Simple

\* No index has both merges and removals.
LEMMA NoMergeAfterRemoval ==
  ASSUME Batches, SentOnce, NEW o \in Op, NEW p \in Op,
         KindOf(o) = "merge", KindOf(p) = "remove"
  PROVE  What(o).index # What(p).index
<1>1. ASSUME NEW q \in Op PROVE \E s \in Shapes : \E n \in DOMAIN s : What(q) = s[n]
  <2>1. q[1] \in Serial!Batch /\ q[2] \in DOMAIN sent[q[1]] /\ What(q) = sent[q[1]][q[2]]
    BY OpFacts DEF Batches, What, Serial!What
  <2>2. sent[q[1]] # << >>
    BY <2>1
  <2>3. PICK s \in Shapes : sent[q[1]] = Deferred(s)
    BY <2>1, <2>2 DEF SentOnce
  <2> QED
    BY <2>1, <2>3, DeferredFacts
<1>2. PICK s \in Shapes : \E n \in DOMAIN s : What(o) = s[n]
  BY <1>1
<1>3. PICK t \in Shapes : \E n \in DOMAIN t : What(p) = t[n]
  BY <1>1
<1> QED
  BY <1>2, <1>3, ShapesAssumption DEF KindOf

\* A plan that fits still does so after the dispatch of a later operation.
LEMMA DispatchFits ==
  ASSUME Batches, SentOnce, docs \in [Index -> [Key -> Doc]], NEW i \in Index, NEW a \in Plan,
         a.ids \subseteq Serial!Of(Op, i), Fits(a, docs[i], i),
         NEW o \in Serial!Of(Op, i), \A p \in a.ids : Before(p, o)
  PROVE  Fits(Dispatch(a, o), docs[i], i)
<1> DEFINE k == What(o).key
           d == docs[i]
           x == Known(i, a, k)
           r == Dispatch(a, o)
           S == a.ids \cup {o}
<1>1. o \in Op /\ KindOf(o) \in Serial!Simple /\ What(o).index = i /\ a.ids \subseteq Op
  BY DEF Serial!Of, KindOf, What
<1>2. k \in Key /\ o \in Pair
  BY <1>1, OpFacts DEF Batches, Serial!Shape
<1>3. r \in Plan /\ r.ids = S /\ Dispatched(a, r, o, k, x)
  BY DispatchFacts
<1>4. o \notin a.ids
  BY <1>2, Ordered
<1>5. /\ \A z \in a.dels : /\ z \notin DOMAIN a.puts
                           /\ \E p \in a.ids : KindOf(p) = "remove" /\ What(p).key = z
      /\ \A z \in Key : Serial!After(d[z], i, z, a.ids) = Planned(a, d, z)
  BY DEF Fits
<1>6. x = Planned(a, d, k)
  BY <1>5 DEF Known, Planned
<1>7. Serial!After(d[k], i, k, S) = Serial!Effect(x, o)
  <2>1. \A p \in S : p = o \/ Before(p, o)
    OBVIOUS
  <2>2. S \ {o} = a.ids /\ S \in SUBSET Op /\ o \in S
    BY <1>1, <1>4
  <2>3. d[k] \in Doc
    BY <1>2
  <2> HIDE DEF S, d
  <2>4. Serial!After(d[k], i, k, S) = Serial!Effect(Serial!After(d[k], i, k, a.ids), o)
    BY <1>1, <2>1, <2>2, <2>3, AfterLast DEF k
  <2> QED
    BY <1>2, <1>5, <1>6, <2>4
<1>8. ASSUME NEW z \in Key, z # k PROVE Serial!After(d[z], i, z, S) = Planned(a, d, z)
  <2>1. Named(i, z, S) = Named(i, z, a.ids)
    BY <1>8 DEF Named
  <2>2. S \in SUBSET Op /\ a.ids \in SUBSET Op /\ d[z] \in Doc
    BY <1>1
  <2> HIDE DEF S, d
  <2>3. Serial!After(d[z], i, z, S) = Serial!After(d[z], i, z, a.ids)
    BY <2>1, <2>2, AfterNamed
  <2> QED
    BY <1>5, <2>3
<1>9. \A y : Serial!Effect(y, o) =
        CASE KindOf(o) = "replace" -> << o >>
          [] KindOf(o) = "remove" -> Serial!Absent
          [] KindOf(o) = "patch" -> IF y = Serial!Absent THEN Serial!Absent ELSE Append(y, o)
          [] KindOf(o) = "count" ->
               IF y = Serial!Absent \/ k \notin Root THEN y ELSE Append(y, o)
          [] KindOf(o) = "merge" -> Append(y, o)
  BY DEF Serial!Effect, KindOf, What
<1>10. k \in a.dels => KindOf(o) # "merge"
  <2> SUFFICES ASSUME k \in a.dels, KindOf(o) = "merge" PROVE FALSE
    OBVIOUS
  <2>1. PICK p \in a.ids : KindOf(p) = "remove"
    BY <1>5
  <2>2. p \in Op /\ What(p).index = i
    BY <1>1, <2>1 DEF Serial!Of, What
  <2> QED
    BY <1>1, <2>1, <2>2, NoMergeAfterRemoval
<1>11. k \in a.dels => x = Serial!Absent
  BY <1>5, <1>6 DEF Planned
<1> HIDE DEF k, d, x, r, S
\* What the dispatch did, and what comes of it.
<1> DEFINE Left == r.dels = a.dels /\ r.puts = a.puts
           Wrote(y) == /\ r.puts = With(a.puts, k, y)
                       /\ r.dels = a.dels \ {k} \/ (r.dels = a.dels /\ k \notin a.dels)
           Erased == r.dels = a.dels \cup {k} /\ r.puts = Without(a.puts, k)
<1>12. \/ Left /\ Serial!Effect(x, o) = x
       \/ Wrote(Serial!Effect(x, o))
       \/ Erased /\ Serial!Effect(x, o) = Serial!Absent /\ KindOf(o) = "remove"
  <2>1. CASE KindOf(o) = "replace"
    BY <1>3, <1>9, <2>1 DEF Dispatched
  <2>2. CASE KindOf(o) = "remove"
    BY <1>3, <1>9, <2>2 DEF Dispatched
  <2>3. CASE KindOf(o) = "patch"
    BY <1>3, <1>9, <2>3 DEF Dispatched
  <2>4. CASE KindOf(o) = "count"
    BY <1>3, <1>9, <1>11, <2>4 DEF Dispatched
  <2>5. CASE KindOf(o) = "merge"
    BY <1>3, <1>9, <1>10, <2>5 DEF Dispatched
  <2> QED
    BY <1>1, <2>1, <2>2, <2>3, <2>4, <2>5 DEF Serial!Simple
<1>13. /\ \A z \in r.dels :
            z \notin DOMAIN r.puts /\ (z \in a.dels \/ (z = k /\ KindOf(o) = "remove"))
       /\ Planned(r, d, k) = Serial!Effect(x, o)
       /\ \A z \in Key : z # k => Planned(r, d, z) = Planned(a, d, z)
  <2>1. CASE Left /\ Serial!Effect(x, o) = x
    BY <1>5, <1>6, <2>1 DEF Planned
  <2>2. CASE Wrote(Serial!Effect(x, o))
    <3> DEFINE y == Serial!Effect(x, o)
    <3>1. /\ DOMAIN r.puts = DOMAIN a.puts \cup {k} /\ r.puts[k] = y
          /\ \A v \in DOMAIN a.puts : v # k => r.puts[v] = a.puts[v]
      <4>1. r.puts = With(a.puts, k, y)
        BY <2>2
      <4> HIDE DEF y
      <4> QED
        BY <4>1 DEF With
    <3>2. k \notin r.dels /\ \A v : v # k => (v \in r.dels <=> v \in a.dels)
      BY <2>2
    <3> HIDE DEF y
    <3> QED
      BY <1>5, <3>1, <3>2 DEF Planned, y
  <2>3. CASE Erased /\ Serial!Effect(x, o) = Serial!Absent /\ KindOf(o) = "remove"
    <3>1. /\ DOMAIN r.puts = DOMAIN a.puts \ {k}
          /\ \A v \in DOMAIN a.puts : v # k => r.puts[v] = a.puts[v]
      <4>1. r.puts = Without(a.puts, k)
        BY <2>3
      <4> QED
        BY <4>1 DEF Without
    <3> QED
      BY <1>5, <2>3, <3>1 DEF Planned
  <2> QED
    BY <1>12, <2>1, <2>2, <2>3
<1>14. \A z \in r.dels :
         z \notin DOMAIN r.puts /\ \E p \in r.ids : KindOf(p) = "remove" /\ What(p).key = z
  BY <1>3, <1>5, <1>13 DEF S, k
<1>15. \A z \in Key : Serial!After(d[z], i, z, S) = Planned(r, d, z)
  BY <1>7, <1>8, <1>13
<1> QED
  BY <1>3, <1>14, <1>15 DEF Fits, r, d, S

Evaluated(b, T) ==
  LET dispatch(o, a) == Dispatch(a, o)
      same(o) == o
  IN MapThenFoldSet(dispatch, b, same, Serial!Latest, T)

\* A plan that holds the operations of U, and fits.
Sound(r, b, U, i) == r \in Plan /\ r.stage = b.stage /\ r.ids = U /\ Fits(r, docs[i], i)

LEMMA EvaluatedFits ==
  ASSUME Batches, SentOnce, docs \in [Index -> [Key -> Doc]], NEW i \in Index,
         NEW T \in SUBSET Serial!Of(Op, i), NEW b \in Plan,
         b.ids = {}, b.dels = {}, DOMAIN b.puts = {}
  PROVE  Sound(Evaluated(b, T), b, T, i)
<1> DEFINE D == SUBSET T
           pick == Picked(T)
           step == [x \in Plan \X T |-> Dispatch(x[1], x[2])]
           E(g) == g = [U \in D |-> IF U = {} THEN b
                                    ELSE Dispatch(g[U \ {Serial!Latest(U)}], Serial!Latest(U))]
           fold == CHOOSE g : E(g)
<1>1. T \subseteq Op /\ T \subseteq Pair /\ IsFiniteSet(T)
  <2>1. T \in SUBSET Op
    BY DEF Serial!Of
  <2> QED
    BY <2>1, OpFacts, FS_Subset DEF Batches
<1>2. step \in [Plan \X T -> Plan]
  BY DispatchFacts
<1>3. \A U \in D : U # {} => /\ Serial!Latest(U) \in U /\ pick[U] = Serial!Latest(U)
                             /\ U \ {Serial!Latest(U)} \in D
                             /\ \A p \in U : p = Serial!Latest(U) \/ Before(p, Serial!Latest(U))
  <2> SUFFICES ASSUME NEW U \in D, U # {}
               PROVE  /\ Serial!Latest(U) \in U
                      /\ \A p \in U : p = Serial!Latest(U) \/ Before(p, Serial!Latest(U))
    BY DEF Picked
  <2>1. IsFiniteSet(U) /\ U \in SUBSET Pair
    BY <1>1, FS_Subset
  <2> QED
    BY <2>1, LatestOfSet
<1>4. PICK g \in [D -> Plan] : Recursion(g, T, b, pick, step)
  <2>1. Picks(pick, T)
    BY <1>1, <1>3 DEF Picks
  <2> HIDE DEF step, pick
  <2> QED
    BY <1>2, <2>1, RecursionExists
<1>5. \A U \in D : g[U] = IF U = {} THEN b
                          ELSE Dispatch(g[U \ {Serial!Latest(U)}], Serial!Latest(U))
  <2> SUFFICES ASSUME NEW U \in D, U # {}
               PROVE  g[U] = Dispatch(g[U \ {Serial!Latest(U)}], Serial!Latest(U))
    BY <1>4 DEF Recursion
  <2> DEFINE l == Serial!Latest(U)
             x == g[U \ {l}]
  <2>1. g[U] = step[g[U \ {pick[U]}], pick[U]]
    BY <1>4 DEF Recursion
  <2>2. pick[U] = l /\ x \in Plan /\ l \in T
    BY <1>3, <1>4
  <2>3. g[U] = step[x, l]
    BY <2>1, <2>2
  <2> HIDE DEF x, l
  <2>4. step[x, l] = Dispatch(x, l)
    BY <2>2
  <2> QED
    BY <2>3, <2>4 DEF x, l
<1>6. E(g)
  BY <1>5
<1>7. E(fold)
  <2> HIDE DEF E
  <2> QED
    BY <1>6
<1>8. Evaluated(b, T) = fold[T]
  BY DEF Evaluated, MapThenFoldSet
<1> HIDE DEF fold
<1>9. \A U \in D : fold[U] = IF U = {} THEN b
                             ELSE Dispatch(fold[U \ {Serial!Latest(U)}], Serial!Latest(U))
  BY <1>7
<1> DEFINE B == {U \in D : Sound(fold[U], b, U, i)}
<1>10. ASSUME NEW U \in D, \A W \in D : W \subseteq U /\ W # U => W \in B
       PROVE  Sound(fold[U], b, U, i)
  <2>1. CASE U = {}
    <3>1. fold[U] = b
      BY <1>9, <2>1
    <3>2. \A k \in Key : Serial!After(docs[i][k], i, k, {}) = docs[i][k]
      BY AfterNothing
    <3>3. \A k \in Key : Planned(b, docs[i], k) = docs[i][k]
      BY DEF Planned
    <3>4. Fits(b, docs[i], i)
      BY <3>2, <3>3 DEF Fits
    <3> QED
      BY <2>1, <3>1, <3>4 DEF Sound
  <2>2. CASE U # {}
    <3> DEFINE l == Serial!Latest(U)
               W == U \ {l}
               a == fold[W]
    <3>1. l \in U /\ W \in D /\ W \subseteq U /\ W # U /\ U = W \cup {l} /\ l \in Serial!Of(Op, i)
      BY <1>3, <2>2
    <3>2. Sound(a, b, W, i)
      BY <1>10, <3>1
    <3>3. fold[U] = Dispatch(a, l)
      BY <1>9, <2>2
    <3>4. \A p \in W : Before(p, l)
      BY <1>3, <2>2
    <3> HIDE DEF l, W, a
    <3>5. a \in Plan /\ a.stage = b.stage /\ a.ids = W /\ Fits(a, docs[i], i)
      BY <3>2 DEF Sound
    <3>6. W \subseteq Serial!Of(Op, i)
      BY <3>1
    <3>7. Fits(Dispatch(a, l), docs[i], i)
      BY <3>1, <3>4, <3>5, <3>6, DispatchFits
    <3>8. /\ Dispatch(a, l) \in Plan /\ Dispatch(a, l).stage = a.stage
          /\ Dispatch(a, l).ids = a.ids \cup {l}
      BY <3>1, <3>5, DispatchFacts
    <3> QED
      BY <3>1, <3>3, <3>5, <3>7, <3>8 DEF Sound
  <2> QED
    BY <2>1, <2>2
<1>11. T \in B
  <2>1. \A U \in SUBSET T : (\A W \in SUBSET T : W \subseteq U /\ W # U => W \in B) => U \in B
    BY <1>10
  <2> HIDE DEF B
  <2> QED
    BY <1>1, <2>1, SubsetInduction
<1> QED
  BY <1>8, <1>11

-------------------------------------------------------------------------------
(***************************************************************************)
(* The invariant is kept.  First what the steps that accept no batch have  *)
(* in common.                                                              *)
(***************************************************************************)
LEMMA InvFacts ==
  ASSUME QueueIndInv
  PROVE  /\ Batches /\ Op \in SUBSET Pair /\ IsFiniteSet(Op)
         /\ \A o \in Op : What(o) \in Serial!Shape
         /\ \A o \in Op : ~ Before(o, o)
         /\ \A o, p \in Op : Before(o, p) => o # p /\ ~ Before(p, o)
         /\ \A S \in SUBSET Op : IsFiniteSet(S)
         /\ \A S \in SUBSET Op : S # {} => FirstOf(S) \in S
         /\ \A S \in SUBSET Op : \A p \in S : p = FirstOf(S) \/ Before(FirstOf(S), p)
         /\ docs \in [Index -> [Key -> Doc]]
         /\ plan \in [Index -> Plan]
         /\ queue \subseteq Op
<1>1. Batches
  BY DEF QueueIndInv, TypeOK, Batches
<1>2. Op \in SUBSET Pair /\ IsFiniteSet(Op) /\ \A o \in Op : What(o) \in Serial!Shape
  BY <1>1, OpFacts DEF Batches
<1>3. \A S \in SUBSET Op : IsFiniteSet(S) /\ S \in SUBSET Pair
  BY <1>2, FS_Subset
<1>4. \A S \in SUBSET Op : S # {} =>
        FirstOf(S) \in S /\ \A p \in S : p = FirstOf(S) \/ Before(FirstOf(S), p)
  BY <1>3, FirstOfSet
<1>5. \A o, p \in Op : ~ Before(o, o) /\ (Before(o, p) => o # p /\ ~ Before(p, o))
  BY <1>2, Ordered
<1>6. \A S \in SUBSET Op : \A p \in S : p = FirstOf(S) \/ Before(FirstOf(S), p)
  BY <1>4
<1> QED
  BY <1>1, <1>2, <1>3, <1>4, <1>5, <1>6 DEF QueueIndInv, TypeOK, PlanFits

LEMMA Quiet ==
  ASSUME QueueIndInv, UNCHANGED << sent, arrived >>
  PROVE  /\ Op' = Op /\ Doc' = Doc /\ Plan' = Plan /\ SentOnce'
         /\ \A o : What(o)' = What(o) /\ KindOf(o)' = KindOf(o)
         /\ \A S, i : Serial!Of(S, i)' = Serial!Of(S, i)
         /\ \A a \in Plan, d \in [Key -> Doc], i \in Index : Fits(a, d, i) => Fits(a, d, i)'
<1>1. /\ Op' = Op /\ Doc' = Doc /\ Plan' = Plan
      /\ \A o : What(o)' = What(o) /\ KindOf(o)' = KindOf(o)
      /\ \A S, i : Serial!Of(S, i)' = Serial!Of(S, i)
  BY SameBatches
<1>2. SentOnce'
  BY DEF QueueIndInv, SentOnce
<1>3. ASSUME NEW CONSTANT a, NEW CONSTANT d, NEW CONSTANT i \in Index,
             a \in Plan, d \in [Key -> Doc], Fits(a, d, i)
      PROVE  Fits(a, d, i)'
  <2>1. ASSUME NEW CONSTANT k \in Key
        PROVE  Serial!After(d[k], i, k, a.ids)' = Serial!After(d[k], i, k, a.ids)
    <3>1. d[k] \in Doc /\ a.ids \subseteq Op
      BY <1>3 DEF Plan
    <3>2. sent \in [Serial!Batch -> Seq(Serial!Shape)]
      BY DEF QueueIndInv, TypeOK
    <3> QED
      BY <1>1, <3>1, <3>2, AfterStays
  <2> QED
    BY <1>1, <1>3, <2>1 DEF Fits, Planned
<1> QED
  BY <1>1, <1>2, <1>3

LEMMA PlanStays ==
  ASSUME QueueIndInv, UNCHANGED << sent, arrived, docs, plan >>
  PROVE  PlanFits'
<1>1. \A a \in Plan, d \in [Key -> Doc], i \in Index : Fits(a, d, i) => Fits(a, d, i)'
  BY Quiet
<1>2. Plan' = Plan
  BY Quiet
<1>3. \A i \in Index : plan[i] \in Plan /\ docs[i] \in [Key -> Doc]
  BY InvFacts
<1> QED
  BY <1>1, <1>2, <1>3 DEF QueueIndInv, PlanFits

LEMMA MarksStay ==
  ASSUME QueueIndInv, UNCHANGED << sent, arrived, docs >>,
         \A o \in Op : Applied(o)' => Applied(o)
  PROVE  Marked'
<1>1. Op' = Op /\ \A o : What(o)' = What(o) /\ KindOf(o)' = KindOf(o)
  BY Quiet
<1> QED
  BY <1>1 DEF QueueIndInv, Marked, Gone, InDoc

LEMMA KeepLoadState ==
  ASSUME QueueIndInv, LoadState
  PROVE  QueueIndInv'
<1> USE DEF LoadState, queueVars, batchVars
<1>1. /\ Op' = Op /\ Doc' = Doc /\ SentOnce'
      /\ \A o : What(o)' = What(o) /\ KindOf(o)' = KindOf(o)
      /\ \A S, i : Serial!Of(S, i)' = Serial!Of(S, i)
  BY Quiet
<1>2. TypeOK'
  BY <1>1 DEF QueueIndInv, TypeOK
<1>3. Placed'
  BY DEF QueueIndInv, Placed
<1>4. Segmented'
  BY <1>1 DEF QueueIndInv, Segmented, Before, Serial!Before
<1>5. Recorded'
  BY <1>1 DEF QueueIndInv, Recorded
<1>6. PlanFits'
  BY PlanStays
<1>7. Marked'
  <2>1. \A o \in Op : Applied(o)' => Applied(o)
    BY DEF Applied
  <2> QED
    BY <2>1, MarksStay
<1> QED
  BY <1>1, <1>2, <1>3, <1>4, <1>5, <1>6, <1>7 DEF QueueIndInv

\* First keeps operations that come before one that it keeps.
LEMMA FirstIsDownward ==
  ASSUME QueueIndInv, NEW n \in Nat, NEW S \in SUBSET Op, NEW o \in S, NEW p \in First(n, S), Before(o, p)
  PROVE  o \in First(n, S)
<1> DEFINE A == {q \in S : Before(q, o)}
           B == {q \in S : Before(q, p)}
<1>1. A \in SUBSET B
  <2> SUFFICES ASSUME NEW q \in S, Before(q, o) PROVE Before(q, p)
    OBVIOUS
  <2>1. q \in Pair /\ o \in Pair /\ p \in Pair
    BY InvFacts DEF First
  <2> QED
    BY <2>1, Ordered
<1>2. IsFiniteSet(B)
  BY InvFacts
<1>3. Cardinality(A) <= Cardinality(B)
  <2> HIDE DEF A, B
  <2> QED
    BY <1>1, <1>2, FS_Subset
<1>4. Cardinality(A) \in Nat /\ Cardinality(B) \in Nat
  <2>1. IsFiniteSet(A)
    BY InvFacts
  <2> HIDE DEF A, B
  <2> QED
    BY <1>2, <2>1, FS_CardinalityType
<1>5. Cardinality(B) < n
  BY DEF First
<1>6. Cardinality(A) < n
  <2> HIDE DEF A, B
  <2> QED
    BY <1>3, <1>4, <1>5
<1> QED
  BY <1>6 DEF First

\* Where a run takes up operations.
LEMMA KeepResumeStarted ==
  ASSUME QueueIndInv, ResumeStarted
  PROVE  QueueIndInv'
<1> USE DEF ResumeStarted, TakeBatch, queueVars, batchVars
<1>1. /\ Op' = Op /\ Doc' = Doc /\ SentOnce'
      /\ \A o : What(o)' = What(o) /\ KindOf(o)' = KindOf(o)
      /\ \A S, i : Serial!Of(S, i)' = Serial!Of(S, i)
  BY Quiet
<1>2. TypeOK'
  BY <1>1 DEF QueueIndInv, TypeOK
<1>3. Placed'
  BY DEF QueueIndInv, Placed
<1>4. Segmented'
  BY <1>1 DEF QueueIndInv, Segmented, Placed
<1>5. Recorded'
  BY <1>1 DEF QueueIndInv, Recorded
<1>6. PlanFits'
  BY PlanStays
<1>7. Marked'
  BY MarksStay DEF Applied
<1> QED
  BY <1>1, <1>2, <1>3, <1>4, <1>5, <1>6, <1>7 DEF QueueIndInv

LEMMA KeepFill ==
  ASSUME QueueIndInv, Fill
  PROVE  QueueIndInv'
<1> USE DEF Fill, queueVars, batchVars
<1>1. /\ Op' = Op /\ Doc' = Doc /\ SentOnce'
      /\ \A o : What(o)' = What(o) /\ KindOf(o)' = KindOf(o)
      /\ \A S, i : Serial!Of(S, i)' = Serial!Of(S, i)
  BY Quiet
<1>2. buffer' \subseteq queue
  BY DEF First, QueueIndInv, TypeOK
<1> HIDE DEF Fill
<1>3. /\ pc = "fetch" /\ UNCHANGED << queueVars, docs, state, pc, seen, batchVars, stops, steps >>
  BY DEF Fill
<1>4. TypeOK'
  BY <1>1, <1>2, <1>3 DEF QueueIndInv, TypeOK
<1>5. Placed'
  BY <1>3 DEF QueueIndInv, Placed
<1>6. Segmented'
  BY <1>1, <1>3 DEF QueueIndInv, Segmented, Before, Serial!Before
<1>7. Recorded'
  BY <1>1, <1>3 DEF QueueIndInv, Recorded
<1>8. PlanFits'
  BY <1>3, PlanStays
<1>9. Marked'
  BY <1>3, MarksStay DEF Applied
<1> QED
  BY <1>1, <1>4, <1>5, <1>6, <1>7, <1>8, <1>9 DEF QueueIndInv

LEMMA KeepTake ==
  ASSUME QueueIndInv, Take
  PROVE  QueueIndInv'
<1> USE DEF Take, TakeBatch, queueVars, batchVars
<1>1. /\ Op' = Op /\ Doc' = Doc /\ SentOnce'
      /\ \A o : What(o)' = What(o) /\ KindOf(o)' = KindOf(o)
      /\ \A S, i : Serial!Of(S, i)' = Serial!Of(S, i)
  BY Quiet
<1>2. TypeOK'
  BY <1>1 DEF QueueIndInv, TypeOK
<1>3. Placed'
  BY DEF QueueIndInv, Placed
<1>4. Segmented'
  BY <1>1 DEF QueueIndInv, Segmented, Placed
<1>5. Recorded'
  BY <1>1 DEF QueueIndInv, Recorded
<1>6. PlanFits'
  BY PlanStays
<1>7. Marked'
  BY MarksStay DEF Applied
<1> QED
  BY <1>1, <1>2, <1>3, <1>4, <1>5, <1>6, <1>7 DEF QueueIndInv

LEMMA KeepFlushSegment ==
  ASSUME QueueIndInv, FlushSegment
  PROVE  QueueIndInv'
<1> DEFINE s == {o \in batch : \A p \in batch : Splits(p) => Before(o, p)}
<1>1. /\ Op' = Op /\ Doc' = Doc /\ SentOnce'
      /\ \A o : What(o)' = What(o) /\ KindOf(o)' = KindOf(o)
      /\ \A S, i : Serial!Of(S, i)' = Serial!Of(S, i)
  BY Quiet DEF FlushSegment, queueVars
<1>2. /\ pc = "batch" /\ pc' = "simple" /\ segment' = s /\ batch' = batch \ s
      /\ UNCHANGED << sent, arrived, queue, started, docs, state, seen, buffer, plan, consumed,
                      owners, spare, stops, steps >>
  BY DEF FlushSegment, queueVars
<1>3. segment = {} /\ spare = {} /\ consumed = {} /\ \A i \in Index : plan[i] = Idle
  BY <1>2 DEF QueueIndInv, Placed
<1>4. s \subseteq batch /\ batch \subseteq queue /\ queue \subseteq Op
  BY DEF QueueIndInv, TypeOK
<1>5. \A o \in s : ~ Splits(o)
  BY <1>4, InvFacts
<1>6. \A o \in s, p \in batch \ s : Before(o, p)
  <2> SUFFICES ASSUME NEW o \in s, NEW p \in batch \ s PROVE Before(o, p)
    OBVIOUS
  <2>1. PICK q \in batch : Splits(q) /\ ~ Before(p, q)
    OBVIOUS
  <2>2. Before(o, q)
    BY <2>1
  <2>3. o \in Pair /\ p \in Pair /\ q \in Pair
    BY <1>4, <2>1, InvFacts
  <2> QED
    BY <2>1, <2>2, <2>3, Ordered
<1> HIDE DEF s
<1>7. TypeOK'
  BY <1>1, <1>2, <1>3, <1>4 DEF QueueIndInv, TypeOK, Idle
<1>8. Placed'
  BY <1>2, <1>3 DEF QueueIndInv, Placed
<1>9. Segmented'
  <2>1. \A o \in segment', p \in batch' : Before(o, p)
    BY <1>2, <1>6
  <2>2. \A o \in segment' : KindOf(o)' # "flow" /\ o \notin started'
    BY <1>1, <1>2, <1>5 DEF Splits, Queued, KindOf, QueueIndInv, Segmented
  <2>3. \A o \in started' : KindOf(o)' \in {"check", "flow"}
    BY <1>1, <1>2 DEF QueueIndInv, Segmented
  <2> QED
    BY <1>2, <1>3, <2>1, <2>2, <2>3 DEF Segmented
<1>10. Recorded'
  BY <1>1, <1>2 DEF QueueIndInv, Recorded
<1>11. PlanFits'
  BY <1>2, PlanStays
<1>12. Marked'
  BY <1>2, MarksStay DEF Applied
<1> QED
  BY <1>1, <1>7, <1>8, <1>9, <1>10, <1>11, <1>12 DEF QueueIndInv

LEMMA KeepEndBatch ==
  ASSUME QueueIndInv, EndBatch
  PROVE  QueueIndInv'
<1> USE DEF EndBatch, queueVars, batchVars
<1>1. /\ Op' = Op /\ Doc' = Doc /\ SentOnce'
      /\ \A o : What(o)' = What(o) /\ KindOf(o)' = KindOf(o)
      /\ \A S, i : Serial!Of(S, i)' = Serial!Of(S, i)
  BY Quiet
<1>2. TypeOK'
  BY <1>1 DEF QueueIndInv, TypeOK
<1>3. Placed'
  BY DEF QueueIndInv, Placed
<1>4. Segmented'
  BY <1>1 DEF QueueIndInv, Segmented
<1>5. Recorded'
  BY <1>1 DEF QueueIndInv, Recorded
<1>6. PlanFits'
  BY PlanStays
<1>7. Marked'
  BY MarksStay DEF Applied
<1> QED
  BY <1>1, <1>2, <1>3, <1>4, <1>5, <1>6, <1>7 DEF QueueIndInv

LEMMA IdleFacts ==
  /\ Idle \in Plan /\ Idle.stage = "done" /\ Idle.ids = {} /\ Idle.dels = {}
  /\ Idle.puts \in Puts /\ DOMAIN Idle.puts = {}
<1>1. << >> \in [{} -> Doc]
  OBVIOUS
<1>2. << >> \in Puts
  BY <1>1 DEF Puts
<1> QED
  BY <1>2 DEF Idle, Plan

\* What a run works out for a segment.
LEMMA EvaluateFacts ==
  ASSUME QueueIndInv, Evaluate
  PROVE  /\ plan' \in [Index -> Plan]
         /\ \A i \in Index :
              /\ plan'[i].ids = Serial!Of(segment, i) \ seen[i]
              /\ plan'[i].stage = IF plan'[i].ids = {} THEN "done" ELSE "delete"
              /\ Fits(plan'[i], docs[i], i)
<1> DEFINE fresh(i) == Serial!Of(segment, i) \ seen[i]
           begin(i) == [Idle EXCEPT !.stage = IF fresh(i) = {} THEN "done" ELSE "delete"]
<1>1. plan' = [i \in Index |-> Evaluated(begin(i), fresh(i))]
  BY DEF Evaluate, Evaluated
<1>2. ASSUME NEW i \in Index
      PROVE  Sound(Evaluated(begin(i), fresh(i)), begin(i), fresh(i), i)
  <2> DEFINE b == begin(i)
             T == fresh(i)
  <2>1. /\ b \in Plan /\ b.ids = {} /\ b.dels = {} /\ DOMAIN b.puts = {}
    BY IdleFacts DEF Plan
  <2>2. T \in SUBSET Serial!Of(Op, i)
    BY DEF Serial!Of, QueueIndInv, TypeOK
  <2>3. Batches /\ SentOnce /\ docs \in [Index -> [Key -> Doc]]
    BY InvFacts DEF QueueIndInv
  <2> HIDE DEF b, T
  <2>4. Sound(Evaluated(b, T), b, T, i)
    BY <2>1, <2>2, <2>3, EvaluatedFits
  <2> QED
    BY <2>4 DEF b, T
<1>3. \A i \in Index : begin(i).stage = IF fresh(i) = {} THEN "done" ELSE "delete"
  BY IdleFacts DEF Plan
<1> HIDE DEF begin
<1>4. \A i \in Index : plan'[i] = Evaluated(begin(i), fresh(i))
  BY <1>1
<1>5. \A i \in Index : Sound(plan'[i], begin(i), fresh(i), i)
  BY <1>2, <1>4
<1>6. plan' \in [Index -> Plan]
  BY <1>1, <1>2 DEF Sound
<1> QED
  BY <1>3, <1>5, <1>6 DEF Sound

LEMMA KeepEvaluate ==
  ASSUME QueueIndInv, Evaluate
  PROVE  QueueIndInv'
<1>1. /\ Op' = Op /\ Doc' = Doc /\ Plan' = Plan /\ SentOnce'
      /\ \A o : What(o)' = What(o) /\ KindOf(o)' = KindOf(o)
      /\ \A S, i : Serial!Of(S, i)' = Serial!Of(S, i)
      /\ \A a \in Plan, d \in [Key -> Doc], i \in Index : Fits(a, d, i) => Fits(a, d, i)'
  BY Quiet DEF Evaluate, queueVars
<1>2. /\ pc = "simple" /\ pc' = "commit" /\ consumed' = Consumed(segment)
      /\ UNCHANGED << sent, arrived, queue, started, docs, state, seen, buffer, batch, segment,
                      owners, spare, stops, steps >>
  BY DEF Evaluate, queueVars
<1>3. /\ plan' \in [Index -> Plan]
      /\ \A i \in Index :
           /\ plan'[i].ids = Serial!Of(segment, i) \ seen[i]
           /\ plan'[i].stage = IF plan'[i].ids = {} THEN "done" ELSE "delete"
           /\ Fits(plan'[i], docs[i], i)
  BY EvaluateFacts
<1>4. \A i \in Index : plan[i].ids = {}
  BY <1>2, IdleFacts DEF QueueIndInv, Placed
<1>5. TypeOK'
  <2>1. \A i \in Index : /\ plan'[i].stage \in {"delete", "write", "done"}
                         /\ plan'[i].ids \subseteq segment /\ plan'[i].dels \subseteq Key
                         /\ DOMAIN plan'[i].puts \subseteq Key
    <3> SUFFICES ASSUME NEW i \in Index
                 PROVE  /\ plan'[i].stage \in {"delete", "write", "done"}
                        /\ plan'[i].ids \subseteq segment /\ plan'[i].dels \subseteq Key
                        /\ DOMAIN plan'[i].puts \subseteq Key
      OBVIOUS
    <3>1. plan'[i] \in Plan /\ plan'[i].ids \subseteq segment
      BY <1>3 DEF Serial!Of
    <3>2. plan'[i].puts \in Puts
      BY <3>1 DEF Plan
    <3> QED
      BY <3>1, <3>2 DEF Plan, Puts
  <2>2. consumed' \subseteq segment
    BY <1>2 DEF Consumed
  <2> QED
    BY <1>1, <1>2, <2>1, <2>2 DEF QueueIndInv, TypeOK
<1>6. Placed'
  BY <1>1, <1>2 DEF QueueIndInv, Placed, Consumed
<1>7. Segmented'
  BY <1>1, <1>2 DEF QueueIndInv, Segmented, Before, Serial!Before
<1>8. Recorded'
  <2>1. \A i \in Index : plan'[i].ids \subseteq Serial!Of(Op, i)
    BY <1>3 DEF Serial!Of, QueueIndInv, TypeOK
  <2>2. \A i \in Index : queue \cap state[i] \subseteq seen[i]
    BY <1>2, <1>4 DEF QueueIndInv, Recorded
  <2>3. segment \subseteq queue
    BY DEF QueueIndInv, TypeOK
  <2>4. \A i \in Index : plan'[i].stage # "done" => plan'[i].ids # {} /\ plan'[i].ids \cap state[i] = {}
    BY <1>3, <2>2, <2>3 DEF Serial!Of
  <2>5. \A i \in Index : plan'[i].stage = "done" => plan'[i].ids \subseteq state[i]
    BY <1>3
  <2> QED
    BY <1>1, <1>2, <1>3, <2>1, <2>2, <2>4, <2>5 DEF QueueIndInv, Recorded
<1>9. PlanFits'
  <2>1. \A i \in Index : Fits(plan[i], docs[i], i)'
    BY <1>1, <1>2, <1>3, InvFacts
  <2>2. \A i \in Index : plan'[i].stage # "write"
    BY <1>3
  <2> QED
    BY <1>1, <1>3, <2>1, <2>2 DEF PlanFits
<1>10. Marked'
  BY <1>2, MarksStay DEF Applied
<1> QED
  BY <1>1, <1>5, <1>6, <1>7, <1>8, <1>9, <1>10 DEF QueueIndInv

\* A removal that is planned for a document stands for an operation on it.
LEMMA PlannedRemoval ==
  ASSUME QueueIndInv, NEW i \in Index, plan[i].stage # "done", NEW k \in plan[i].dels
  PROVE  /\ k \in Key /\ k \notin DOMAIN plan[i].puts
         /\ \E r \in Named(i, k, plan[i].ids) : KindOf(r) = "remove" /\ r \in Op
<1>1. plan[i] \in Plan /\ Fits(plan[i], docs[i], i) /\ plan[i].ids \subseteq Serial!Of(Op, i)
  BY DEF QueueIndInv, PlanFits, Recorded
<1>2. k \in Key
  BY <1>1 DEF Plan
<1>3. PICK r \in plan[i].ids : KindOf(r) = "remove" /\ What(r).key = k
  BY <1>1 DEF Fits
<1>4. r \in Op /\ What(r).index = i
  BY <1>1, <1>3 DEF Serial!Of, What
<1>5. r \in Named(i, k, plan[i].ids)
  BY <1>3, <1>4 DEF Named, Serial!Simple
<1> QED
  BY <1>1, <1>2, <1>3, <1>4, <1>5 DEF Fits

LEMMA KeepCommitDelete ==
  ASSUME QueueIndInv, NEW i \in Index, CommitDelete(i)
  PROVE  QueueIndInv'
<1>1. /\ Op' = Op /\ Doc' = Doc /\ Plan' = Plan /\ SentOnce'
      /\ \A o : What(o)' = What(o) /\ KindOf(o)' = KindOf(o)
      /\ \A S, j : Serial!Of(S, j)' = Serial!Of(S, j)
      /\ \A a \in Plan, d \in [Key -> Doc], j \in Index : Fits(a, d, j) => Fits(a, d, j)'
  BY Quiet DEF CommitDelete, queueVars
<1>2. /\ pc = "commit" /\ plan[i].stage = "delete"
      /\ docs' = [docs EXCEPT ![i] =
           [k \in Key |-> IF k \in plan[i].dels THEN Serial!Absent ELSE docs[i][k]]]
      /\ plan' = [plan EXCEPT ![i] = [plan[i] EXCEPT !.stage = "write"]]
      /\ UNCHANGED << sent, arrived, queue, started, state, pc, seen, buffer, batch, segment,
                      consumed, owners, spare, stops, steps >>
  BY DEF CommitDelete, queueVars
<1>3. docs \in [Index -> [Key -> Doc]] /\ plan \in [Index -> Plan] /\ Batches
  BY InvFacts
<1>4. << >> \in Doc /\ Serial!Absent = << >>
  BY DEF Doc, Serial!Absent
<1>5. /\ docs' \in [Index -> [Key -> Doc]] /\ \A j \in Index : j # i => docs'[j] = docs[j]
      /\ \A k \in Key : docs'[i][k] = IF k \in plan[i].dels THEN Serial!Absent ELSE docs[i][k]
  BY <1>2, <1>3, <1>4
<1>6. /\ plan' \in [Index -> Plan] /\ \A j \in Index : j # i => plan'[j] = plan[j]
      /\ plan'[i].stage = "write" /\ plan'[i].ids = plan[i].ids
      /\ plan'[i].dels = plan[i].dels /\ plan'[i].puts = plan[i].puts
  BY <1>2, <1>3 DEF Plan
<1>7. \A j \in Index : /\ plan'[j].ids = plan[j].ids /\ plan'[j].dels = plan[j].dels
                       /\ plan'[j].puts = plan[j].puts
                       /\ plan'[j].stage = plan[j].stage \/ (j = i /\ plan'[j].stage = "write")
  BY <1>6
<1>8. TypeOK'
  BY <1>1, <1>2, <1>5, <1>7 DEF QueueIndInv, TypeOK
<1>9. Placed'
  BY <1>1, <1>2 DEF QueueIndInv, Placed, Consumed
<1>10. Segmented'
  BY <1>1, <1>2 DEF QueueIndInv, Segmented, Before, Serial!Before
<1>11. Recorded'
  BY <1>1, <1>2, <1>7 DEF QueueIndInv, Recorded
<1>12. PlanFits'
  <2>1. Fits(plan'[i], docs'[i], i)
    <3>1. Fits(plan[i], docs[i], i) /\ plan[i].ids \subseteq Op
      BY <1>2 DEF QueueIndInv, PlanFits, Recorded, Serial!Of
    <3>2. ASSUME NEW k \in Key
          PROVE  Serial!After(docs'[i][k], i, k, plan[i].ids) = Planned(plan[i], docs'[i], k)
      <4>1. CASE k \in plan[i].dels
        <5>1. PICK r \in Named(i, k, plan[i].ids) : KindOf(r) = "remove"
          BY <1>2, <4>1, PlannedRemoval
        <5>2. docs[i][k] \in Doc /\ docs'[i][k] \in Doc
          BY <1>3, <1>5
        <5>3. Serial!After(docs'[i][k], i, k, plan[i].ids) = Serial!After(docs[i][k], i, k, plan[i].ids)
          BY <1>3, <3>1, <5>1, <5>2, AfterRemoval
        <5>4. Planned(plan[i], docs'[i], k) = Planned(plan[i], docs[i], k)
          BY <4>1 DEF Planned
        <5> QED
          BY <3>1, <5>3, <5>4 DEF Fits
      <4>2. CASE k \notin plan[i].dels
        <5>1. docs'[i][k] = docs[i][k]
          BY <1>5, <4>2
        <5> QED
          BY <3>1, <5>1 DEF Fits, Planned
      <4> QED
        BY <4>1, <4>2
    <3>3. \A k \in Key : Planned(plan'[i], docs'[i], k) = Planned(plan[i], docs'[i], k)
      BY <1>6 DEF Planned
    <3> QED
      BY <1>6, <3>1, <3>2, <3>3 DEF Fits
  <2>2. \A j \in Index : plan'[j].stage # "done" => Fits(plan'[j], docs'[j], j)
    BY <1>5, <1>6, <2>1 DEF QueueIndInv, PlanFits
  <2>3. \A j \in Index : plan'[j].stage # "done" => Fits(plan[j], docs[j], j)'
    BY <1>1, <1>5, <1>6, <2>2
  <2>4. \A j \in Index : plan'[j].stage = "write" => \A k \in plan'[j].dels : docs'[j][k] = Serial!Absent
    <3>1. plan[i].dels \subseteq Key
      BY <1>3 DEF Plan
    <3> QED
      BY <1>5, <1>6, <3>1 DEF QueueIndInv, PlanFits
  <2> QED
    BY <1>1, <1>6, <2>3, <2>4 DEF PlanFits, Serial!Absent
<1>13. Marked'
  <2> SUFFICES ASSUME NEW o \in Op, KindOf(o) \in {"replace", "merge"}, Applied(o)
               PROVE  \/ InDoc(o, docs'[What(o).index][What(o).key])
                      \/ Gone(o, What(o).index, What(o).key)
    BY <1>1, <1>2 DEF Marked, Applied, Gone, InDoc
  <2> DEFINE j == What(o).index
             k == What(o).key
  <2>1. j \in Index /\ k \in Key
    BY InvFacts DEF Serial!Shape
  <2>2. InDoc(o, docs[j][k]) \/ Gone(o, j, k)
    BY DEF QueueIndInv, Marked
  <2>3. CASE j = i /\ k \in plan[i].dels
    <3>1. PICK r \in Named(i, k, plan[i].ids) : KindOf(r) = "remove" /\ r \in Op
      BY <1>2, <2>3, PlannedRemoval
    <3>2. r # o /\ What(r).index = j /\ What(r).key = k
      BY <2>3, <3>1 DEF Named
    <3> QED
      BY <3>1, <3>2 DEF Gone
  <2>4. CASE ~ (j = i /\ k \in plan[i].dels)
    <3>1. docs'[j][k] = docs[j][k]
      BY <1>5, <2>1, <2>4
    <3> QED
      BY <2>2, <3>1
  <2> QED
    BY <2>3, <2>4
<1> QED
  BY <1>1, <1>8, <1>9, <1>10, <1>11, <1>12, <1>13 DEF QueueIndInv

\* What the second request writes is what the operations make of the documents.
LEMMA WrittenFacts ==
  ASSUME QueueIndInv, NEW i \in Index, CommitDocs(i)
  PROVE  /\ pc = "commit" /\ plan[i].stage = "write"
         /\ plan[i].ids \in SUBSET Serial!Of(segment, i)
         /\ docs' = [docs EXCEPT ![i] =
              [k \in Key |-> Serial!After(docs[i][k], i, k, plan[i].ids)]]
         /\ docs' \in [Index -> [Key -> Doc]]
         /\ plan' \in [Index -> Plan] /\ \A j \in Index : j # i => plan'[j] = plan[j]
         /\ plan'[i].stage = "done" /\ plan'[i].ids = plan[i].ids
         /\ plan'[i].dels = plan[i].dels /\ plan'[i].puts = plan[i].puts
         /\ state' = [state EXCEPT ![i] = plan[i].ids]
         /\ UNCHANGED << sent, arrived, queue, started, pc, seen, buffer, batch, segment,
                         consumed, owners, spare, stops, steps >>
<1>1. /\ pc = "commit" /\ plan[i].stage = "write"
      /\ docs' = [docs EXCEPT ![i] =
           [k \in Key |-> IF k \in DOMAIN plan[i].puts THEN plan[i].puts[k] ELSE docs[i][k]]]
      /\ state' = [state EXCEPT ![i] = plan[i].ids]
      /\ plan' = [plan EXCEPT ![i] = [plan[i] EXCEPT !.stage = "done"]]
      /\ UNCHANGED << sent, arrived, queue, started, pc, seen, buffer, batch, segment,
                      consumed, owners, spare, stops, steps >>
  BY DEF CommitDocs, queueVars
<1>2. docs \in [Index -> [Key -> Doc]] /\ plan \in [Index -> Plan] /\ Batches
  BY InvFacts
<1>3. /\ plan[i].ids = Serial!Of(segment, i) \ seen[i]
      /\ Fits(plan[i], docs[i], i) /\ \A k \in plan[i].dels : docs[i][k] = Serial!Absent
  BY <1>1 DEF QueueIndInv, Recorded, PlanFits
<1>4. plan[i].ids \in SUBSET Op /\ plan[i].ids \in SUBSET Serial!Of(segment, i)
  BY <1>3 DEF Serial!Of, QueueIndInv, TypeOK
<1>5. ASSUME NEW k \in Key
      PROVE  /\ Serial!After(docs[i][k], i, k, plan[i].ids) =
                  IF k \in DOMAIN plan[i].puts THEN plan[i].puts[k] ELSE docs[i][k]
             /\ Serial!After(docs[i][k], i, k, plan[i].ids) \in Doc
  <2>1. Serial!After(docs[i][k], i, k, plan[i].ids) = Planned(plan[i], docs[i], k)
    BY <1>3 DEF Fits
  <2>2. docs[i][k] \in Doc
    BY <1>2
  <2>3. Serial!After(docs[i][k], i, k, plan[i].ids) \in Doc
    BY <1>2, <1>4, <2>2, AfterStep DEF Batches
  <2> QED
    BY <1>3, <2>1, <2>3 DEF Planned
<1> DEFINE written == [k \in Key |-> IF k \in DOMAIN plan[i].puts THEN plan[i].puts[k] ELSE docs[i][k]]
           after == [k \in Key |-> Serial!After(docs[i][k], i, k, plan[i].ids)]
<1>6. written = after /\ after \in [Key -> Doc]
  BY <1>5
<1>7. docs' = [docs EXCEPT ![i] = written]
  BY <1>1
<1>8. docs' = [docs EXCEPT ![i] = after] /\ docs' \in [Index -> [Key -> Doc]]
  <2> HIDE DEF written, after
  <2> QED
    BY <1>2, <1>6, <1>7
<1>9. /\ plan' \in [Index -> Plan] /\ \A j \in Index : j # i => plan'[j] = plan[j]
      /\ plan'[i].stage = "done" /\ plan'[i].ids = plan[i].ids
      /\ plan'[i].dels = plan[i].dels /\ plan'[i].puts = plan[i].puts
  BY <1>1, <1>2 DEF Plan
<1> QED
  BY <1>1, <1>4, <1>8, <1>9

LEMMA KeepCommitDocs ==
  ASSUME QueueIndInv, NEW i \in Index, CommitDocs(i)
  PROVE  QueueIndInv'
<1>1. /\ pc = "commit" /\ plan[i].stage = "write"
      /\ plan[i].ids \in SUBSET Serial!Of(segment, i)
      /\ docs' = [docs EXCEPT ![i] =
           [k \in Key |-> Serial!After(docs[i][k], i, k, plan[i].ids)]]
      /\ docs' \in [Index -> [Key -> Doc]]
      /\ plan' \in [Index -> Plan] /\ \A j \in Index : j # i => plan'[j] = plan[j]
      /\ plan'[i].stage = "done" /\ plan'[i].ids = plan[i].ids
      /\ plan'[i].dels = plan[i].dels /\ plan'[i].puts = plan[i].puts
      /\ state' = [state EXCEPT ![i] = plan[i].ids]
      /\ UNCHANGED << sent, arrived, queue, started, pc, seen, buffer, batch, segment,
                      consumed, owners, spare, stops, steps >>
  BY WrittenFacts
<1>2. /\ Op' = Op /\ Doc' = Doc /\ Plan' = Plan /\ SentOnce'
      /\ \A o : What(o)' = What(o) /\ KindOf(o)' = KindOf(o)
      /\ \A S, j : Serial!Of(S, j)' = Serial!Of(S, j)
      /\ \A a \in Plan, d \in [Key -> Doc], j \in Index : Fits(a, d, j) => Fits(a, d, j)'
  BY <1>1, Quiet
<1>3. docs \in [Index -> [Key -> Doc]] /\ plan \in [Index -> Plan] /\ Batches
  BY InvFacts
<1>4. /\ \A j \in Index : j # i => docs'[j] = docs[j]
      /\ \A k \in Key : docs'[i][k] = Serial!After(docs[i][k], i, k, plan[i].ids)
  BY <1>1, <1>3
<1>5. plan[i].ids \subseteq Op /\ plan[i].ids \subseteq Serial!Of(Op, i)
  BY <1>1 DEF Serial!Of, QueueIndInv, TypeOK
<1>6. /\ state \in [Index -> SUBSET Op] /\ state' \in [Index -> SUBSET Op]
      /\ state'[i] = plan[i].ids /\ \A j \in Index : j # i => state'[j] = state[j]
  BY <1>1, <1>5 DEF QueueIndInv, TypeOK
<1>7. \A j \in Index : /\ plan'[j].ids = plan[j].ids /\ plan'[j].dels = plan[j].dels
                       /\ plan'[j].puts = plan[j].puts
                       /\ plan'[j].stage = plan[j].stage \/ (j = i /\ plan'[j].stage = "done")
  BY <1>1
<1>8. TypeOK'
  BY <1>1, <1>2, <1>6, <1>7 DEF QueueIndInv, TypeOK
<1>9. Placed'
  BY <1>1, <1>2 DEF QueueIndInv, Placed, Consumed
<1>10. Segmented'
  BY <1>1, <1>2 DEF QueueIndInv, Segmented, Before, Serial!Before
<1>11. Recorded'
  <2>1. \A j \in Index : state'[j] \cup seen'[j] \cup plan'[j].ids \subseteq Serial!Of(Op, j)
    BY <1>1, <1>5, <1>6, <1>7 DEF QueueIndInv, Recorded
  <2>2. \A j \in Index : queue' \cap state'[j] \subseteq seen'[j] \cup plan'[j].ids
    BY <1>1, <1>6, <1>7 DEF QueueIndInv, Recorded
  <2>3. \A j \in Index :
          /\ plan'[j].ids = Serial!Of(segment, j) \ seen[j]
          /\ plan'[j].stage = "done" => plan'[j].ids \subseteq state'[j]
          /\ plan'[j].stage # "done" => plan'[j].ids # {} /\ plan'[j].ids \cap state'[j] = {}
    BY <1>1, <1>6, <1>7 DEF QueueIndInv, Recorded
  <2> QED
    BY <1>1, <1>2, <2>1, <2>2, <2>3 DEF Recorded
<1>12. PlanFits'
  <2>1. \A j \in Index : plan'[j].stage # "done" => Fits(plan'[j], docs'[j], j)
    BY <1>1, <1>4 DEF QueueIndInv, PlanFits
  <2>2. \A j \in Index : plan'[j].stage # "done" => Fits(plan[j], docs[j], j)'
    BY <1>1, <1>2, <2>1
  <2>3. \A j \in Index : plan'[j].stage = "write" => \A k \in plan'[j].dels : docs'[j][k] = Serial!Absent
    BY <1>1, <1>4 DEF QueueIndInv, PlanFits
  <2> QED
    BY <1>1, <1>2, <2>2, <2>3 DEF PlanFits, Serial!Absent
<1>13. Marked'
  <2> SUFFICES ASSUME NEW o \in Op, KindOf(o) \in {"replace", "merge"},
                      Applied(o) \/ o \in plan[i].ids
               PROVE  \/ InDoc(o, docs'[What(o).index][What(o).key])
                      \/ Gone(o, What(o).index, What(o).key)
    <3>1. \A o \in Op : Applied(o)' => Applied(o) \/ o \in plan[i].ids
      BY <1>1, <1>6 DEF Applied
    <3> QED
      BY <1>2, <3>1 DEF Marked, Gone, InDoc
  <2> DEFINE j == What(o).index
             k == What(o).key
             S == plan[i].ids
  <2>1. j \in Index /\ k \in Key
    BY InvFacts DEF Serial!Shape
  <2>2. CASE Gone(o, j, k)
    BY <2>2
  <2>3. CASE ~ Gone(o, j, k)
    <3>1. Applied(o) => InDoc(o, docs[j][k])
      BY <2>3 DEF QueueIndInv, Marked
    <3>2. o \in S => j = i /\ o \in Named(i, k, S)
      BY <1>5 DEF Serial!Of, Named, KindOf, What
    <3>3. CASE j # i
      <4>1. docs'[j][k] = docs[j][k]
        BY <1>4, <2>1, <3>3
      <4> QED
        BY <3>1, <3>2, <3>3, <4>1
    <3>4. CASE j = i
      <4> DEFINE d == docs[i][k]
      <4>1. d \in Doc /\ S \in SUBSET Op
        BY <1>3, <1>5, <2>1
      <4>2. InDoc(o, d) \/ o \in Named(i, k, S)
        BY <3>1, <3>2, <3>4
      <4>3. docs'[i][k] = Serial!After(d, i, k, S)
        BY <1>4, <2>1
      <4> HIDE DEF d, S
      <4>4. \/ InDoc(o, Serial!After(d, i, k, S))
            \/ \E p \in Named(i, k, S) : p # o /\ KindOf(p) \in {"replace", "remove"}
        BY <1>3, <4>1, <4>2, AfterMarks
      <4>5. ~ \E p \in Named(i, k, S) : p # o /\ KindOf(p) \in {"replace", "remove"}
        BY <2>3, <3>4, <4>1 DEF Named, Gone
      <4> QED
        BY <3>4, <4>3, <4>4, <4>5
    <3> QED
      BY <3>3, <3>4
  <2> QED
    BY <2>2, <2>3
<1> QED
  BY <1>2, <1>8, <1>9, <1>10, <1>11, <1>12, <1>13 DEF QueueIndInv

LEMMA KeepRemember ==
  ASSUME QueueIndInv, Remember
  PROVE  QueueIndInv'
<1>1. /\ pc = "commit" /\ pc' = "dequeue" /\ \A i \in Index : plan[i].stage = "done"
      /\ seen' = [i \in Index |-> seen[i] \cup plan[i].ids]
      /\ UNCHANGED << sent, arrived, queue, started, docs, state, buffer, batch, segment, plan,
                      consumed, owners, spare, stops, steps >>
  BY DEF Remember, queueVars, batchVars
<1>2. /\ Op' = Op /\ Doc' = Doc /\ SentOnce'
      /\ \A o : What(o)' = What(o) /\ KindOf(o)' = KindOf(o)
      /\ \A S, i : Serial!Of(S, i)' = Serial!Of(S, i)
  BY <1>1, Quiet
<1>3. \A i \in Index : /\ plan[i].ids \subseteq state[i]
                       /\ plan[i].ids = Serial!Of(segment, i) \ seen[i]
                       /\ seen'[i] = seen[i] \cup plan[i].ids
  BY <1>1 DEF QueueIndInv, Recorded
<1>4. TypeOK'
  <2>1. \A i \in Index : plan[i].ids \subseteq Op /\ seen[i] \subseteq Op
    BY DEF QueueIndInv, TypeOK
  <2>2. seen' \in [Index -> SUBSET Op]
    BY <1>1, <2>1
  <2> QED
    BY <1>1, <1>2, <2>2 DEF QueueIndInv, TypeOK
<1>5. Placed'
  BY <1>1, <1>2 DEF QueueIndInv, Placed, Consumed
<1>6. Segmented'
  BY <1>1, <1>2 DEF QueueIndInv, Segmented, Before, Serial!Before
<1>7. Recorded'
  <2>1. \A i \in Index : state'[i] \cup seen'[i] \cup plan'[i].ids \subseteq Serial!Of(Op, i)
    BY <1>1, <1>3 DEF QueueIndInv, Recorded
  <2>2. \A i \in Index : queue' \cap state'[i] \subseteq seen'[i] \cup plan'[i].ids
    BY <1>1, <1>3 DEF QueueIndInv, Recorded
  <2>3. \A i \in Index : Serial!Of(segment, i) \cup plan'[i].ids \subseteq seen'[i] /\ plan'[i].ids \subseteq state'[i]
    BY <1>1, <1>3
  <2> QED
    BY <1>1, <1>2, <2>1, <2>2, <2>3 DEF Recorded
<1>8. PlanFits'
  BY <1>1, PlanStays
<1>9. Marked'
  <2>1. \A o \in Op : Applied(o)' => Applied(o)
    BY <1>1, <1>3 DEF Applied
  <2> QED
    BY <1>1, <2>1, MarksStay
<1> QED
  BY <1>2, <1>4, <1>5, <1>6, <1>7, <1>8, <1>9 DEF QueueIndInv

LEMMA KeepDequeue ==
  ASSUME QueueIndInv, Dequeue
  PROVE  QueueIndInv'
<1>1. /\ pc = "dequeue" /\ pc' = "checks" /\ queue' = queue \ consumed
      /\ segment' = {o \in segment : What(o).kind = "check"}
      /\ consumed' = {} /\ plan' = [i \in Index |-> Idle]
      /\ UNCHANGED << sent, arrived, started, docs, state, seen, buffer, batch, owners, spare,
                      stops, steps >>
  BY DEF Dequeue
<1>2. /\ Op' = Op /\ Doc' = Doc /\ Plan' = Plan /\ SentOnce'
      /\ \A o : What(o)' = What(o) /\ KindOf(o)' = KindOf(o)
      /\ \A S, i : Serial!Of(S, i)' = Serial!Of(S, i)
  BY <1>1, Quiet
<1>3. /\ consumed = {o \in segment : KindOf(o) # "check"}
      /\ segment' = {o \in segment : KindOf(o) = "check"}
      /\ spare = {} /\ buffer = {} /\ segment \subseteq queue /\ batch \subseteq queue
      /\ queue \subseteq Op /\ started \subseteq queue
  BY <1>1 DEF QueueIndInv, Placed, Consumed, KindOf, TypeOK
<1>4. \A i \in Index : plan'[i] = Idle
  BY <1>1
<1>5. segment \cap batch = {} /\ segment \cap started = {}
  <2>1. \A o \in segment : o \notin batch
    BY <1>3, InvFacts DEF QueueIndInv, Segmented
  <2> QED
    BY <2>1 DEF QueueIndInv, Segmented
<1>6. TypeOK'
  BY <1>1, <1>2, <1>3, <1>4, <1>5, IdleFacts DEF QueueIndInv, TypeOK, Idle
<1>7. Placed'
  BY <1>1, <1>3, <1>4 DEF QueueIndInv, Placed, Idle
<1>8. Segmented'
  BY <1>1, <1>2, <1>3 DEF QueueIndInv, Segmented, Before, Serial!Before
<1>9. Recorded'
  <2>1. \A i \in Index : state'[i] \cup seen'[i] \cup plan'[i].ids \subseteq Serial!Of(Op, i)
    BY <1>1, <1>4, IdleFacts DEF QueueIndInv, Recorded
  <2>2. \A i \in Index : queue' \cap state'[i] \subseteq seen'[i] \cup plan'[i].ids
    BY <1>1 DEF QueueIndInv, Recorded
  <2> QED
    BY <1>1, <1>2, <2>1, <2>2 DEF Recorded
<1>10. PlanFits'
  <2>1. \A i \in Index : plan'[i].stage = "done"
    BY <1>4, IdleFacts
  <2>2. plan' \in [Index -> Plan]
    BY <1>1, IdleFacts
  <2> QED
    BY <1>2, <2>1, <2>2 DEF PlanFits
<1>11. Marked'
  <2> SUFFICES ASSUME NEW o \in Op, KindOf(o) \in {"replace", "merge"}, o \in consumed
               PROVE  Applied(o)
    BY <1>1, <1>2 DEF QueueIndInv, Marked, Applied, Gone, InDoc
  <2>1. o \in segment /\ What(o).index \in Index
    BY <1>3, InvFacts DEF Serial!Shape
  <2>2. o \in Serial!Of(segment, What(o).index)
    BY <2>1 DEF Serial!Of, KindOf, What, Serial!Simple
  <2>3. o \in seen[What(o).index]
    BY <1>1, <2>1, <2>2 DEF QueueIndInv, Recorded
  <2> QED
    BY <2>1, <2>3 DEF Applied
<1> QED
  BY <1>2, <1>6, <1>7, <1>8, <1>9, <1>10, <1>11 DEF QueueIndInv

\* A step on one operation o: it is left alone, done with, or goes on later.
Handled(o) ==
  /\ queue' = queue \/ queue' = queue \ {o}
  /\ started' \in {started, started \ {o}} /\ started' \subseteq queue'
  /\ owners' \subseteq Key /\ stops' = stops /\ steps' \in 0 .. MaxSteps

LEMMA RunCheckFacts ==
  ASSUME QueueIndInv, RunCheck
  PROVE  LET o == FirstOf(segment)
         IN /\ pc = "checks" /\ o \in segment /\ o \in Same(o) /\ Same(o) \subseteq segment
            /\ segment' = segment \ Same(o)
            /\ spare' \subseteq spare \cup (Same(o) \ {o})
            /\ Handled(o)
            /\ UNCHANGED << sent, arrived, docs, state, pc, seen, buffer, batch, plan, consumed >>
<1> DEFINE o == FirstOf(segment)
<1>1. pc = "checks" /\ segment # {} /\ segment \subseteq Op
  BY InvFacts DEF RunCheck, QueueIndInv, TypeOK
<1>2. o \in segment
  BY <1>1, InvFacts
<1>3. What(o).key \in Key
  BY <1>1, <1>2, InvFacts DEF Serial!Shape
<1>4. /\ segment' = segment \ Same(o)
      /\ \/ UNCHANGED << queue, started, owners, spare, stops, steps >>
         \/ owners' = owners \cup {What(o).key} /\ Finish(o)
            /\ spare' \in {spare, spare \cup (Same(o) \ {o})}
         \/ owners' = owners \cup {What(o).key} /\ Continue(o)
            /\ spare' = spare \cup (Same(o) \ {o})
      /\ UNCHANGED << sent, arrived, docs, state, pc, seen, buffer, batch, plan, consumed >>
  BY DEF RunCheck
<1> HIDE DEF o
<1>5. o \in Same(o) /\ Same(o) \subseteq segment
  BY <1>2 DEF Same
<1>6. owners \subseteq Key /\ started \subseteq queue /\ steps \in 0 .. MaxSteps /\ MaxSteps \in Nat
  BY ProcessorAssumption DEF QueueIndInv, TypeOK
<1>7. Handled(o)
  BY <1>3, <1>4, <1>6 DEF Finish, Continue, Handled
<1>8. spare' \subseteq spare \cup (Same(o) \ {o})
  BY <1>4
<1> QED
  BY <1>1, <1>2, <1>4, <1>5, <1>7, <1>8 DEF o

LEMMA KeepRunCheck ==
  ASSUME QueueIndInv, RunCheck
  PROVE  QueueIndInv'
<1> DEFINE o == FirstOf(segment)
<1>1. /\ pc = "checks" /\ o \in segment /\ o \in Same(o) /\ Same(o) \subseteq segment
      /\ segment' = segment \ Same(o)
      /\ spare' \subseteq spare \cup (Same(o) \ {o})
      /\ Handled(o)
      /\ UNCHANGED << sent, arrived, docs, state, pc, seen, buffer, batch, plan, consumed >>
  BY RunCheckFacts
<1> HIDE DEF o
<1>2. /\ Op' = Op /\ Doc' = Doc /\ SentOnce'
      /\ \A q : What(q)' = What(q) /\ KindOf(q)' = KindOf(q)
      /\ \A S, i : Serial!Of(S, i)' = Serial!Of(S, i)
  BY <1>1, Quiet
<1>3. /\ queue' \subseteq queue /\ queue \ queue' \subseteq {o} /\ queue \subseteq Op
      /\ started' \subseteq started /\ started' \subseteq queue'
      /\ owners' \subseteq Key /\ stops' = stops /\ steps' \in 0 .. MaxSteps
  BY <1>1, InvFacts DEF Handled
<1>4. /\ buffer = {} /\ consumed = {} /\ \A i \in Index : plan[i] = Idle
  BY <1>1 DEF QueueIndInv, Placed
<1>5. KindOf(o) = "check" /\ o \notin batch /\ o \notin spare /\ o \in queue
  <2>1. segment \subseteq queue
    BY DEF QueueIndInv, TypeOK
  <2> QED
    BY <1>1, <1>3, <2>1, InvFacts DEF QueueIndInv, Segmented
<1>6. TypeOK'
  <2>1. /\ batch' \subseteq queue' /\ segment' \subseteq queue' /\ spare' \subseteq queue'
    BY <1>1, <1>3, <1>5 DEF QueueIndInv, TypeOK
  <2> QED
    BY <1>1, <1>2, <1>3, <1>4, <2>1, IdleFacts DEF QueueIndInv, TypeOK, Idle
<1>7. Placed'
  BY <1>1 DEF QueueIndInv, Placed
<1>8. Segmented'
  <2>1. \A q \in spare' : KindOf(q) = "check" /\ q \notin segment' \cup batch \cup started'
    <3> SUFFICES ASSUME NEW q \in Same(o)
                 PROVE  KindOf(q) = "check" /\ q \notin segment' \cup batch \cup started'
      BY <1>1, <1>3 DEF QueueIndInv, Segmented
    <3>1. q \in segment /\ q \in Op /\ batch \subseteq Op
      BY <1>1, <1>3 DEF QueueIndInv, TypeOK
    <3>2. q \notin batch
      BY <3>1, InvFacts DEF QueueIndInv, Segmented
    <3> QED
      BY <1>1, <1>3, <3>1, <3>2 DEF QueueIndInv, Segmented
  <2>2. \A q \in segment', p \in batch : Before(q, p)
    BY <1>1 DEF QueueIndInv, Segmented
  <2>3. \A q \in segment' : KindOf(q) = "check" /\ q \notin started'
    BY <1>1, <1>3 DEF QueueIndInv, Segmented
  <2>4. \A q \in started' : KindOf(q) \in {"check", "flow"}
    BY <1>3 DEF QueueIndInv, Segmented
  <2> QED
    BY <1>1, <1>2, <2>1, <2>2, <2>3, <2>4 DEF Segmented, Before, Serial!Before
<1>9. Recorded'
  BY <1>1, <1>2, <1>3 DEF QueueIndInv, Recorded
<1>10. PlanFits'
  BY <1>1, PlanStays
<1>11. Marked'
  BY <1>1, <1>2, <1>3, <1>5 DEF QueueIndInv, Marked, Applied, Gone, InDoc
<1> QED
  BY <1>2, <1>6, <1>7, <1>8, <1>9, <1>10, <1>11 DEF QueueIndInv

LEMMA RunFlowFacts ==
  ASSUME QueueIndInv, RunFlow
  PROVE  LET o == FirstOf(batch)
         IN /\ pc = "batch" /\ o \in batch /\ Splits(o) /\ batch' = batch \ {o}
            /\ Handled(o)
            /\ queue' # queue \/ KindOf(o) = "check"
            /\ UNCHANGED << sent, arrived, docs, state, pc, seen, buffer, segment, plan,
                            consumed, spare >>
<1> DEFINE o == FirstOf(batch)
<1>1. pc = "batch" /\ batch # {} /\ batch \subseteq Op
  BY InvFacts DEF RunFlow, QueueIndInv, TypeOK
<1>2. o \in batch /\ o \in queue
  BY <1>1, InvFacts DEF QueueIndInv, TypeOK
<1>3. What(o).key \in Key
  BY <1>1, <1>2, InvFacts DEF Serial!Shape
<1>4. /\ Splits(o) /\ batch' = batch \ {o}
      /\ \/ What(o).kind = "check" /\ UNCHANGED << queue, started, owners, stops, steps >>
         \/ /\ owners' = IF What(o).kind = "check" THEN owners \cup {What(o).key} ELSE owners
            /\ Finish(o) \/ Continue(o)
      /\ UNCHANGED << sent, arrived, docs, state, pc, seen, buffer, segment, plan, consumed, spare >>
  BY DEF RunFlow
<1> HIDE DEF o
<1>5. owners \subseteq Key /\ started \subseteq queue /\ steps \in 0 .. MaxSteps /\ MaxSteps \in Nat
  BY ProcessorAssumption DEF QueueIndInv, TypeOK
<1>6. Handled(o)
  BY <1>3, <1>4, <1>5 DEF Finish, Continue, Handled
<1>7. queue' # queue \/ KindOf(o) = "check"
  BY <1>2, <1>4 DEF Finish, Continue, KindOf
<1> QED
  BY <1>1, <1>2, <1>4, <1>6, <1>7 DEF o

LEMMA KeepRunFlow ==
  ASSUME QueueIndInv, RunFlow
  PROVE  QueueIndInv'
<1> DEFINE o == FirstOf(batch)
<1>1. /\ pc = "batch" /\ o \in batch /\ Splits(o) /\ batch' = batch \ {o}
      /\ Handled(o)
      /\ UNCHANGED << sent, arrived, docs, state, pc, seen, buffer, segment, plan,
                      consumed, spare >>
  BY RunFlowFacts
<1> HIDE DEF o
<1>2. /\ Op' = Op /\ Doc' = Doc /\ SentOnce'
      /\ \A q : What(q)' = What(q) /\ KindOf(q)' = KindOf(q)
      /\ \A S, i : Serial!Of(S, i)' = Serial!Of(S, i)
  BY <1>1, Quiet
<1>3. /\ queue' \subseteq queue /\ queue \ queue' \subseteq {o} /\ queue \subseteq Op
      /\ started' \subseteq started /\ started' \subseteq queue'
      /\ owners' \subseteq Key /\ stops' = stops /\ steps' \in 0 .. MaxSteps
  BY <1>1, InvFacts DEF Handled
<1>4. /\ buffer = {} /\ consumed = {} /\ segment = {} /\ spare = {}
      /\ \A i \in Index : plan[i] = Idle
  BY <1>1 DEF QueueIndInv, Placed
<1>5. KindOf(o) \in {"check", "flow"}
  BY <1>1 DEF Splits, KindOf
<1>6. TypeOK'
  <2>1. batch' \subseteq queue'
    BY <1>1, <1>3 DEF QueueIndInv, TypeOK
  <2> QED
    BY <1>1, <1>2, <1>3, <1>4, <2>1, IdleFacts DEF QueueIndInv, TypeOK, Idle
<1>7. Placed'
  BY <1>1 DEF QueueIndInv, Placed
<1>8. Segmented'
  BY <1>1, <1>2, <1>3, <1>4 DEF QueueIndInv, Segmented
<1>9. Recorded'
  BY <1>1, <1>2, <1>3 DEF QueueIndInv, Recorded
<1>10. PlanFits'
  BY <1>1, PlanStays
<1>11. Marked'
  BY <1>1, <1>2, <1>3, <1>5 DEF QueueIndInv, Marked, Applied, Gone, InDoc
<1> QED
  BY <1>2, <1>6, <1>7, <1>8, <1>9, <1>10, <1>11 DEF QueueIndInv

LEMMA KeepDropSpare ==
  ASSUME QueueIndInv, DropSpare
  PROVE  QueueIndInv'
<1>1. /\ pc = "checks" /\ pc' = "batch" /\ segment = {}
      /\ queue' = queue \ spare /\ spare' = {}
      /\ UNCHANGED << sent, arrived, started, docs, state, seen, buffer, batch, segment, plan,
                      consumed, owners, stops, steps >>
  BY DEF DropSpare
<1>2. /\ Op' = Op /\ Doc' = Doc /\ SentOnce'
      /\ \A q : What(q)' = What(q) /\ KindOf(q)' = KindOf(q)
      /\ \A S, i : Serial!Of(S, i)' = Serial!Of(S, i)
  BY <1>1, Quiet
<1>3. /\ \A q \in spare : KindOf(q) = "check" /\ q \notin batch \cup started
      /\ queue \subseteq Op /\ buffer = {} /\ consumed = {} /\ \A i \in Index : plan[i] = Idle
  BY <1>1, InvFacts DEF QueueIndInv, Segmented, Placed
<1>4. TypeOK'
  <2>1. batch' \subseteq queue' /\ started' \subseteq queue' /\ queue' \subseteq Op
    BY <1>1, <1>3 DEF QueueIndInv, TypeOK
  <2> QED
    BY <1>1, <1>2, <1>3, <2>1, IdleFacts DEF QueueIndInv, TypeOK, Idle
<1>5. Placed'
  BY <1>1 DEF QueueIndInv, Placed
<1>6. Segmented'
  BY <1>1, <1>2 DEF QueueIndInv, Segmented
<1>7. Recorded'
  BY <1>1, <1>2 DEF QueueIndInv, Recorded
<1>8. PlanFits'
  BY <1>1, PlanStays
<1>9. Marked'
  BY <1>1, <1>2, <1>3 DEF QueueIndInv, Marked, Applied, Gone, InDoc
<1> QED
  BY <1>2, <1>4, <1>5, <1>6, <1>7, <1>8, <1>9 DEF QueueIndInv

LEMMA StopFacts ==
  ASSUME QueueIndInv, Stop
  PROVE  /\ started \subseteq started' /\ started' \subseteq queue
         /\ \A o \in started' : KindOf(o) \in {"check", "flow"}
         /\ \A o \in started' \ started :
              (pc = "checks" /\ o \in segment) \/ KindOf(o) = "flow"
<1>1. started' \in {started, started \cup AtHand}
  BY DEF Stop
<1>2. /\ started \subseteq queue /\ segment \subseteq queue /\ batch \subseteq queue /\ queue \subseteq Op
      /\ \A o \in started : KindOf(o) \in {"check", "flow"}
      /\ pc = "checks" => \A o \in segment : KindOf(o) = "check"
  BY DEF QueueIndInv, TypeOK, Segmented
<1>3. ASSUME NEW o \in AtHand
      PROVE  \/ pc = "checks" /\ o \in segment
             \/ o \in batch /\ (KindOf(o) = "flow" \/ o \in started)
  <2>1. segment \in SUBSET Op /\ batch \in SUBSET Op
    BY <1>2
  <2>2. \/ pc = "checks" /\ segment # {} /\ o = FirstOf(segment)
        \/ pc = "batch" /\ batch # {} /\ Splits(FirstOf(batch)) /\ o = FirstOf(batch)
    BY <1>3 DEF AtHand
  <2> QED
    BY <2>1, <2>2, InvFacts DEF Splits, Queued, KindOf
<1> QED
  BY <1>1, <1>2, <1>3

LEMMA KeepStop ==
  ASSUME QueueIndInv, Stop
  PROVE  QueueIndInv'
<1>1. /\ pc # "off" /\ pc' = "off" /\ stops < MaxStops /\ stops' = stops + 1
      /\ seen' = Nothing /\ buffer' = {}
      /\ batch' = {} /\ segment' = {} /\ consumed' = {} /\ owners' = {} /\ spare' = {}
      /\ plan' = [i \in Index |-> Idle]
      /\ UNCHANGED << sent, arrived, queue, docs, state, steps >>
  BY DEF Stop
<1>2. /\ Op' = Op /\ Doc' = Doc /\ Plan' = Plan /\ SentOnce'
      /\ \A q : What(q)' = What(q) /\ KindOf(q)' = KindOf(q)
      /\ \A S, i : Serial!Of(S, i)' = Serial!Of(S, i)
  BY <1>1, Quiet
<1>3. started' \subseteq queue /\ \A o \in started' : KindOf(o) \in {"check", "flow"}
  BY StopFacts
<1>4. \A i \in Index : plan'[i] = Idle /\ seen'[i] = {}
  BY <1>1 DEF Nothing
<1>5. TypeOK'
  <2>1. stops' \in 0 .. MaxStops
    BY <1>1, ProcessorAssumption DEF QueueIndInv, TypeOK
  <2>2. Nothing \in [Index -> SUBSET Op]
    BY DEF Nothing
  <2> QED
    BY <1>1, <1>2, <1>3, <1>4, <2>1, <2>2, IdleFacts DEF QueueIndInv, TypeOK, Idle
<1>6. Placed'
  BY <1>1, <1>4 DEF Placed, Idle
<1>7. Segmented'
  BY <1>1, <1>2, <1>3 DEF Segmented
<1>8. Recorded'
  BY <1>1, <1>2, <1>4, IdleFacts DEF QueueIndInv, Recorded
<1>9. PlanFits'
  <2>1. \A i \in Index : plan'[i].stage = "done"
    BY <1>4, IdleFacts
  <2>2. plan' \in [Index -> Plan]
    BY <1>1, IdleFacts
  <2> QED
    BY <1>2, <2>1, <2>2 DEF PlanFits
<1>10. Marked'
  <2>1. \A o \in Op : Applied(o)' => Applied(o)
    BY <1>1, <1>4 DEF Applied
  <2> QED
    BY <1>1, <2>1, MarksStay
<1> QED
  BY <1>2, <1>5, <1>6, <1>7, <1>8, <1>9, <1>10 DEF QueueIndInv

\* What a batch that is accepted adds.
LEMMA AcceptedFacts ==
  ASSUME QueueIndInv, NEW b \in Serial!Batch, NEW s \in Shapes, sent[b] = << >>,
         sent' = [sent EXCEPT ![b] = Deferred(s)], arrived' = Append(arrived, b)
  PROVE  /\ Op' = Op \cup Serial!OpsOf(b, Deferred(s))
         /\ \A o \in Op : o[1] # b /\ What(o)' = What(o) /\ KindOf(o)' = KindOf(o)
         /\ \A o \in Serial!OpsOf(b, Deferred(s)) : o \notin Op /\ o[1] = b
         /\ sent' \in [Serial!Batch -> Seq(Serial!Shape)] /\ SentOnce'
         /\ Doc \subseteq Doc' /\ Plan \subseteq Plan'
         /\ \A S \in SUBSET Op, i \in Index : Serial!Of(S, i)' = Serial!Of(S, i)
         /\ \A i \in Index : Serial!Of(Op, i) \subseteq Serial!Of(Op, i)'
         /\ \A a \in Plan, d \in [Key -> Doc], i \in Index : Fits(a, d, i) => Fits(a, d, i)'
<1> DEFINE N == Serial!OpsOf(b, Deferred(s))
<1>1. Batches /\ SentOnce /\ arrived \in Seq(Serial!Batch)
  BY InvFacts DEF QueueIndInv, TypeOK
<1>2. Deferred(s) \in Seq(Serial!Shape) /\ Deferred(s) # << >>
  BY DeferredFacts
<1>3. /\ sent' \in [Serial!Batch -> Seq(Serial!Shape)] /\ sent'[b] = Deferred(s)
      /\ \A c \in Serial!Batch : c # b => sent'[c] = sent[c]
  BY <1>1, <1>2 DEF Batches
<1>4. \A o \in Op : o[1] \in Serial!Batch /\ o[2] \in DOMAIN sent[o[1]]
  BY <1>1, OpFacts DEF Batches
<1>5. \A o \in Op : o[1] # b
  BY <1>4
<1>6. \A o \in N : o[1] = b
  BY DEF Serial!OpsOf
<1>7. \A o \in Op : What(o)' = What(o) /\ KindOf(o)' = KindOf(o)
  BY <1>3, <1>4, <1>5 DEF What, Serial!What, KindOf
<1>8. Op' = Op \cup N
  <2>1. Serial!OpsOf(b, sent[b]) = {}
    BY DEF Serial!OpsOf
  <2>2. Op' = UNION {Serial!OpsOf(c, sent'[c]) : c \in Serial!Batch}
    BY DEF Op, Serial!Op, Serial!OpsOf
  <2>3. Op = UNION {Serial!OpsOf(c, sent[c]) : c \in Serial!Batch}
    BY DEF Op, Serial!Op
  <2>4. \A o : o \in Op' <=> \E c \in Serial!Batch : o \in Serial!OpsOf(c, sent'[c])
    BY <2>2
  <2>5. \A o : o \in Op <=> \E c \in Serial!Batch : o \in Serial!OpsOf(c, sent[c])
    BY <2>3
  <2> QED
    BY <1>3, <2>1, <2>4, <2>5
<1> HIDE DEF N
<1>9. Doc \subseteq Doc' /\ Plan \subseteq Plan'
  <2>1. Doc \subseteq Doc'
    BY <1>8 DEF Doc
  <2>2. Puts \subseteq Puts'
    <3> SUFFICES ASSUME NEW CONSTANT p, p \in Puts PROVE p \in Puts'
      OBVIOUS
    <3>1. PICK D \in SUBSET Key : p \in [D -> Doc]
      BY DEF Puts
    <3>2. p \in [D -> Doc']
      BY <2>1, <3>1
    <3> QED
      BY <3>2 DEF Puts
  <2>3. Op \subseteq Op'
    BY <1>8
  <2>4. \A S, T, U, W, X, Y : U \subseteq X /\ W \subseteq Y =>
          [stage : S, dels : T, puts : U, ids : SUBSET W] \subseteq
          [stage : S, dels : T, puts : X, ids : SUBSET Y]
    OBVIOUS
  <2> QED
    BY <2>1, <2>2, <2>3, <2>4 DEF Plan
<1>10. \A S \in SUBSET Op, i \in Index : Serial!Of(S, i)' = Serial!Of(S, i)
  BY <1>7 DEF Serial!Of, What
<1>11. \A i \in Index : Serial!Of(Op, i) \subseteq Serial!Of(Op, i)'
  BY <1>7, <1>8 DEF Serial!Of, What
<1>12. SentOnce'
  <2>1. /\ \A m \in DOMAIN arrived : arrived[m] \in Serial!Batch /\ sent[arrived[m]] # << >>
        /\ DOMAIN arrived = 1 .. Len(arrived) /\ Len(arrived) \in Nat
    BY <1>1 DEF SentOnce
  <2>2. /\ DOMAIN arrived' = 1 .. (Len(arrived) + 1) /\ arrived'[Len(arrived) + 1] = b
        /\ \A m \in 1 .. Len(arrived) : arrived'[m] = arrived[m]
    BY <1>1
  <2>3. \A m \in DOMAIN arrived : arrived[m] # b
    BY <2>1
  <2>4. DOMAIN arrived' = DOMAIN arrived \cup {Len(arrived) + 1} /\ Len(arrived) + 1 \notin DOMAIN arrived
    BY <2>1, <2>2
  <2>5. \A m, n \in DOMAIN arrived' : arrived'[m] = arrived'[n] => m = n
    BY <1>1, <2>1, <2>2, <2>3, <2>4 DEF SentOnce
  <2>6. \A c \in Serial!Batch : sent'[c] # << >> <=> \E n \in DOMAIN arrived' : arrived'[n] = c
    <3> SUFFICES ASSUME NEW c \in Serial!Batch
                 PROVE  sent'[c] # << >> <=> \E n \in DOMAIN arrived' : arrived'[n] = c
      OBVIOUS
    <3>1. CASE c = b
      BY <1>2, <1>3, <2>2, <2>4, <3>1
    <3>2. CASE c # b
      BY <1>1, <1>3, <2>1, <2>2, <2>4, <3>2 DEF SentOnce
    <3> QED
      BY <3>1, <3>2
  <2>7. \A c \in Serial!Batch : sent'[c] = << >> \/ \E t \in Shapes : sent'[c] = Deferred(t)
    BY <1>1, <1>3 DEF SentOnce
  <2> QED
    BY <2>5, <2>6, <2>7 DEF SentOnce
<1>13. ASSUME NEW CONSTANT a, NEW CONSTANT d, NEW CONSTANT i \in Index,
              a \in Plan, d \in [Key -> Doc], Fits(a, d, i)
       PROVE  Fits(a, d, i)'
  <2>1. ASSUME NEW CONSTANT k \in Key
        PROVE  Serial!After(d[k], i, k, a.ids)' = Serial!After(d[k], i, k, a.ids)
    <3>1. d[k] \in Doc /\ a.ids \subseteq Op
      BY <1>13 DEF Plan
    <3> QED
      BY <1>1, <1>7, <3>1, AfterStays DEF Batches
  <2>2. a.ids \subseteq Op
    BY <1>13 DEF Plan
  <2>3. /\ \A k \in a.dels :
             k \notin DOMAIN a.puts /\ \E o \in a.ids : KindOf(o) = "remove" /\ What(o).key = k
        /\ \A k \in Key : Serial!After(d[k], i, k, a.ids) = Planned(a, d, k)
    BY <1>13 DEF Fits
  <2> QED
    BY <1>7, <2>1, <2>2, <2>3 DEF Fits, Planned
<1> QED
  BY <1>3, <1>5, <1>6, <1>7, <1>8, <1>9, <1>10, <1>11, <1>12, <1>13 DEF N

LEMMA KeepQueueOps ==
  ASSUME QueueIndInv, QueueOps
  PROVE  QueueIndInv'
<1>1. PICK b \in Serial!Batch, s \in Shapes :
        /\ sent[b] = << >>
        /\ sent' = [sent EXCEPT ![b] = Deferred(s)] /\ arrived' = Append(arrived, b)
        /\ queue' = queue \cup Serial!OpsOf(b, Deferred(s))
        /\ UNCHANGED << docs, started, state, pc, seen, buffer, batchVars, stops, steps >>
  BY DEF QueueOps, Serial!MaySend
<1> DEFINE N == Serial!OpsOf(b, Deferred(s))
<1>2. /\ Op' = Op \cup N
      /\ \A o \in Op : o[1] # b /\ What(o)' = What(o) /\ KindOf(o)' = KindOf(o)
      /\ \A o \in N : o \notin Op /\ o[1] = b
      /\ sent' \in [Serial!Batch -> Seq(Serial!Shape)] /\ SentOnce'
      /\ Doc \subseteq Doc' /\ Plan \subseteq Plan'
      /\ \A S \in SUBSET Op, i \in Index : Serial!Of(S, i)' = Serial!Of(S, i)
      /\ \A i \in Index : Serial!Of(Op, i) \subseteq Serial!Of(Op, i)'
      /\ \A a \in Plan, d \in [Key -> Doc], i \in Index : Fits(a, d, i) => Fits(a, d, i)'
  BY <1>1, AcceptedFacts
<1>3. /\ queue' = queue \cup N
      /\ UNCHANGED << docs, started, state, pc, seen, buffer, batch, segment, plan, consumed, owners,
                      spare, stops, steps >>
  BY <1>1 DEF batchVars
<1>4. arrived' \in Seq(Serial!Batch)
  BY <1>1 DEF QueueIndInv, TypeOK
<1> HIDE DEF N
<1>5. /\ queue \subseteq Op /\ segment \subseteq queue /\ started \subseteq queue /\ spare \subseteq queue
      /\ batch \subseteq queue /\ buffer \subseteq queue
      /\ docs \in [Index -> [Key -> Doc]] /\ plan \in [Index -> Plan]
      /\ state \in [Index -> SUBSET Op] /\ seen \in [Index -> SUBSET Op]
  BY InvFacts DEF QueueIndInv, TypeOK
<1>6. TypeOK'
  <2>1. docs' \in [Index -> [Key -> Doc']]
    BY <1>2, <1>3, <1>5
  <2>2. state' \in [Index -> SUBSET Op'] /\ seen' \in [Index -> SUBSET Op']
    BY <1>2, <1>3, <1>5
  <2> QED
    BY <1>2, <1>3, <1>4, <1>5, <2>1, <2>2 DEF QueueIndInv, TypeOK
<1>7. Placed'
  <2>1. Consumed(segment)' = Consumed(segment)
    BY <1>2, <1>3, <1>5 DEF Consumed
  <2> QED
    BY <1>3, <2>1 DEF QueueIndInv, Placed
<1>8. Segmented'
  BY <1>2, <1>3, <1>5 DEF QueueIndInv, Segmented, Before, Serial!Before
<1>9. Recorded'
  <2>1. \A i \in Index : state'[i] \cup seen'[i] \cup plan'[i].ids \subseteq Serial!Of(Op, i)'
    BY <1>2, <1>3 DEF QueueIndInv, Recorded
  <2>2. pc' # "off" => \A i \in Index : queue' \cap state'[i] \subseteq seen'[i] \cup plan'[i].ids
    BY <1>2, <1>3, <1>5 DEF QueueIndInv, Recorded
  <2>3. \A i \in Index : Serial!Of(segment, i)' = Serial!Of(segment, i)
    <3>1. \A i \in Index : \A o \in segment : What(o)' = What(o)
      BY <1>2, <1>5
    <3> QED
      BY <1>3, <3>1 DEF Serial!Of, What
  <2>4. pc' = "commit" => \A i \in Index :
          /\ plan'[i].ids = Serial!Of(segment, i)' \ seen'[i]
          /\ plan'[i].stage = "done" => plan'[i].ids \subseteq state'[i]
          /\ plan'[i].stage # "done" => plan'[i].ids # {} /\ plan'[i].ids \cap state'[i] = {}
    BY <1>3, <2>3 DEF QueueIndInv, Recorded
  <2>5. pc' = "dequeue" => \A i \in Index :
          /\ Serial!Of(segment, i)' \cup plan'[i].ids \subseteq seen'[i]
          /\ plan'[i].ids \subseteq state'[i]
    BY <1>3, <2>3 DEF QueueIndInv, Recorded
  <2> QED
    BY <2>1, <2>2, <2>4, <2>5 DEF Recorded
<1>10. PlanFits'
  <2>1. \A i \in Index : Fits(plan[i], docs[i], i) => Fits(plan[i], docs[i], i)'
    <3>1. \A i \in Index : plan[i] \in Plan /\ docs[i] \in [Key -> Doc]
      BY <1>5
    <3> QED
      BY <1>2, <1>3, <3>1
  <2>2. plan' \in [Index -> Plan']
    BY <1>2, <1>3, <1>5
  <2> QED
    BY <1>3, <2>1, <2>2 DEF QueueIndInv, PlanFits, Serial!Absent
<1>11. Marked'
  <2>1. ASSUME NEW o \in N PROVE ~ Applied(o)'
    <3>1. o \in queue' /\ o \notin Op
      BY <1>2, <1>3
    <3> QED
      BY <1>3, <1>5, <3>1 DEF Applied
  <2>2. \A o \in Op : Applied(o)' => Applied(o)
    BY <1>3 DEF Applied
  <2>3. ASSUME NEW o \in Op', KindOf(o)' \in {"replace", "merge"}, Applied(o)'
        PROVE  \/ InDoc(o, docs[What(o)'.index][What(o)'.key])
               \/ (Gone(o, What(o).index, What(o).key))'
    <3>1. o \in Op /\ Applied(o)
      BY <1>2, <2>1, <2>2, <2>3
    <3>2. What(o)' = What(o) /\ KindOf(o)' = KindOf(o)
      BY <1>2, <3>1
    <3>3. \/ InDoc(o, docs[What(o).index][What(o).key])
          \/ Gone(o, What(o).index, What(o).key)
      BY <2>3, <3>1, <3>2 DEF QueueIndInv, Marked
    <3>4. Gone(o, What(o).index, What(o).key) => (Gone(o, What(o).index, What(o).key))'
      BY <1>2, <3>1, <3>2 DEF Gone
    <3> QED
      BY <3>2, <3>3, <3>4
  <2> QED
    BY <1>3, <2>3 DEF Marked, InDoc
<1> QED
  BY <1>2, <1>6, <1>7, <1>8, <1>9, <1>10, <1>11 DEF QueueIndInv


LEMMA InitKeeps ==
  ASSUME Init
  PROVE  QueueIndInv
<1>1. /\ queue = {} /\ started = {} /\ state = Nothing /\ pc = "off" /\ seen = Nothing
      /\ buffer = {} /\ batch = {} /\ segment = {} /\ consumed = {} /\ owners = {} /\ spare = {}
      /\ plan = [i \in Index |-> Idle] /\ stops = 0 /\ steps = 0
      /\ sent = [b \in Serial!Batch |-> << >>] /\ arrived = << >>
      /\ docs = [i \in Index |-> [k \in Key |-> << >>]]
  BY DEF Init, Serial!Init, Serial!Absent
<1>2. << >> \in Seq(Op) /\ DOMAIN << >> = {} /\ << >> \in Seq(Serial!Batch) /\ << >> \in Seq(Serial!Shape)
  OBVIOUS
<1>3. Op = {}
  BY <1>1, <1>2 DEF Op, Serial!Op, Serial!OpsOf
<1>4. /\ \A i \in Index : plan[i] = Idle /\ state[i] = {} /\ seen[i] = {}
      /\ Nothing \in [Index -> SUBSET Op]
  BY <1>1 DEF Nothing
<1>5. TypeOK
  <2>1. docs \in [Index -> [Key -> Doc]]
    BY <1>1, <1>2 DEF Doc
  <2>2. 0 \in 0 .. MaxStops /\ 0 \in 0 .. MaxSteps
    BY ProcessorAssumption
  <2> QED
    BY <1>1, <1>2, <1>4, <2>1, <2>2, IdleFacts DEF TypeOK, Idle
<1>6. SentOnce
  BY <1>1, <1>2 DEF SentOnce
<1>7. Placed
  BY <1>1 DEF Placed
<1>8. Segmented
  BY <1>1 DEF Segmented
<1>9. Recorded
  BY <1>1, <1>4, IdleFacts DEF Recorded
<1>10. PlanFits
  BY <1>1, <1>4, IdleFacts DEF PlanFits
<1>11. Marked
  BY <1>3 DEF Marked
<1> QED
  BY <1>5, <1>6, <1>7, <1>8, <1>9, <1>10, <1>11 DEF QueueIndInv

LEMMA StutterKeeps ==
  ASSUME QueueIndInv, UNCHANGED vars
  PROVE  QueueIndInv'
<1> USE DEF vars
<1>1. /\ Op' = Op /\ Doc' = Doc /\ SentOnce'
      /\ \A o : What(o)' = What(o) /\ KindOf(o)' = KindOf(o)
      /\ \A S, i : Serial!Of(S, i)' = Serial!Of(S, i)
  BY Quiet
<1>2. TypeOK'
  BY <1>1 DEF QueueIndInv, TypeOK
<1>3. Placed'
  BY <1>1 DEF QueueIndInv, Placed, Consumed
<1>4. Segmented'
  BY <1>1 DEF QueueIndInv, Segmented, Before, Serial!Before
<1>5. Recorded'
  BY <1>1 DEF QueueIndInv, Recorded
<1>6. PlanFits'
  BY PlanStays
<1>7. Marked'
  BY MarksStay DEF Applied
<1> QED
  BY <1>1, <1>2, <1>3, <1>4, <1>5, <1>6, <1>7 DEF QueueIndInv

LEMMA NextKeeps ==
  ASSUME QueueIndInv, [Next]_vars
  PROVE  QueueIndInv'
<1>1. CASE QueueOps
  BY <1>1, KeepQueueOps
<1>2. CASE LoadState \/ ResumeStarted \/ Fill \/ Take \/ EndBatch
  BY <1>2, KeepLoadState, KeepResumeStarted, KeepFill, KeepTake, KeepEndBatch
<1>3. CASE FlushSegment \/ Evaluate
  BY <1>3, KeepFlushSegment, KeepEvaluate
<1>4. CASE \E i \in Index : CommitDelete(i) \/ CommitDocs(i)
  BY <1>4, KeepCommitDelete, KeepCommitDocs
<1>5. CASE Remember \/ Dequeue
  BY <1>5, KeepRemember, KeepDequeue
<1>6. CASE RunCheck \/ RunFlow \/ DropSpare
  BY <1>6, KeepRunCheck, KeepRunFlow, KeepDropSpare
<1>7. CASE Stop
  BY <1>7, KeepStop
<1>8. CASE UNCHANGED vars
  BY <1>8, StutterKeeps
<1> QED
  BY <1>1, <1>2, <1>3, <1>4, <1>5, <1>6, <1>7, <1>8 DEF Next, Process

\* At no moment is the queue's content out of step with the documents: an
\* operation that left the queue, or is recorded as done, is in the document it
\* names, or another one was accepted that replaces or removes that document
\* (processSimpleBatch, commitSimpleBatch).
THEOREM QueueKept == Spec => []QueueInv
<1>1. Init => QueueIndInv
  BY InitKeeps
<1>2. QueueIndInv /\ [Next]_vars => QueueIndInv'
  BY NextKeeps
<1>3. QueueIndInv => QueueInv
  <2> SUFFICES ASSUME QueueIndInv PROVE LeftItsMark
    BY DEF QueueInv, QueueIndInv
  <2>1. ASSUME NEW o \in Op \ queue, KindOf(o) \in {"replace", "merge"}
        PROVE  \/ InDoc(o, docs[What(o).index][What(o).key])
               \/ Gone(o, What(o).index, What(o).key)
    BY <2>1 DEF QueueIndInv, Marked, Applied
  <2> QED
    BY <2>1 DEF LeftItsMark, InDoc, Gone, KindOf
<1> QED
  BY <1>1, <1>2, <1>3, PTL DEF Spec

-------------------------------------------------------------------------------
(***************************************************************************)
(* The processor is the serial queue.  What is pending is what is queued   *)
(* and recorded nowhere as done.                                           *)
(***************************************************************************)
\* No other operation of the batch of check c is left.
Ready(c) == \A p \in Unapplied : p[1] = c[1] => KindOf(p) = "check"
InHand == buffer \cup batch \cup segment

\* What is pending and comes before an operation that the run took was taken as
\* well, unless it is a check or came in later.
OrderInv ==
  /\ \A c \in Checks(started) : Ready(c)
  /\ pc = "checks" => \A c \in segment \cup spare : KindOf(c) = "check" /\ Ready(c)
  /\ \A o \in Unapplied, p \in InHand \ started :
       Before(o, p) => o \in InHand \/ KindOf(o) = "check" \/ Serial!AcceptedBefore(p[1], o[1])

\* A run stops only when what it knows to be done is recorded in the state
\* documents.
KeepsRecord == Stop => \A i \in Index : queue \cap seen[i] \subseteq state[i]

\* What a step of the processor is to the producers.
Serves == Serial!Next \/ UNCHANGED << sent, arrived, Unapplied, docs >>

LEMMA UnappliedFacts ==
  ASSUME QueueIndInv
  PROVE  /\ Unapplied \subseteq queue /\ Unapplied \subseteq Op
         /\ \A o \in queue : KindOf(o) \notin Serial!Simple => o \in Unapplied
         /\ pc = "commit" => \A i \in Index : plan[i].stage # "done" =>
              plan[i].ids \subseteq Serial!Of(Unapplied, i) /\ plan[i].ids # {}
<1>1. Unapplied \subseteq queue /\ queue \subseteq Op
  BY InvFacts DEF Unapplied
<1>2. \A i \in Index : state[i] \cup seen[i] \subseteq Serial!Of(Op, i)
  BY DEF QueueIndInv, Recorded
<1>3. \A o \in queue : KindOf(o) \notin Serial!Simple => o \in Unapplied
  BY <1>2 DEF Unapplied, Serial!Of, KindOf, What
<1>4. ASSUME pc = "commit", NEW i \in Index, plan[i].stage # "done"
      PROVE  plan[i].ids \subseteq Serial!Of(Unapplied, i) /\ plan[i].ids # {}
  <2>2. /\ plan[i].ids = Serial!Of(segment, i) \ seen[i]
        /\ plan[i].ids # {} /\ plan[i].ids \cap state[i] = {}
    BY <1>4 DEF QueueIndInv, Recorded
  <2>3. segment \subseteq queue
    BY DEF QueueIndInv, TypeOK
  <2>4. ASSUME NEW o \in plan[i].ids PROVE o \in Unapplied
    <3>1. o \in queue /\ Serial!What(o).index = i
      BY <2>2, <2>3 DEF Serial!Of
    <3>2. \A j \in Index : j # i => o \notin state[j] \cup seen[j]
      BY <1>2, <3>1 DEF Serial!Of
    <3>3. o \notin state[i] \cup seen[i]
      BY <2>2
    <3> QED
      BY <3>1, <3>2, <3>3 DEF Unapplied
  <2> QED
    BY <2>2, <2>4 DEF Serial!Of
<1> QED
  BY <1>1, <1>3, <1>4

\* What keeps the order.
LEMMA OrderStays ==
  ASSUME OrderInv, sent' = sent, arrived' = arrived, Unapplied' \subseteq Unapplied,
         \A c \in started' : KindOf(c) = "check" => Ready(c),
         pc' = "checks" => \A c \in segment' \cup spare' : KindOf(c) = "check" /\ (Ready(c) \/ Ready(c)'),
         InHand' \ started' \subseteq InHand \ started,
         \A o \in Unapplied', p \in InHand' \ started' :
           o \in InHand => o \in InHand' \/ KindOf(o) = "check"
  PROVE  OrderInv'
<1>1. \A o : KindOf(o)' = KindOf(o)
  BY SameBatches
<1>2. \A c : Ready(c) => Ready(c)'
  BY <1>1 DEF Ready
<1>3. \A b, c : Serial!AcceptedBefore(b, c) => Serial!AcceptedBefore(b, c)'
  BY DEF Serial!AcceptedBefore
<1>4. \A c \in Checks(started)' : Ready(c)'
  BY <1>1, <1>2 DEF Checks
<1>5. pc' = "checks" => \A c \in segment' \cup spare' : KindOf(c)' = "check" /\ Ready(c)'
  BY <1>1, <1>2
<1>6. ASSUME NEW o \in Unapplied', NEW p \in InHand' \ started', Before(o, p)'
      PROVE  o \in InHand' \/ KindOf(o)' = "check" \/ Serial!AcceptedBefore(p[1], o[1])'
  <2>1. Before(o, p)
    BY <1>6 DEF Before, Serial!Before
  <2>2. o \in InHand \/ KindOf(o) = "check" \/ Serial!AcceptedBefore(p[1], o[1])
    BY <2>1 DEF OrderInv
  <2> QED
    BY <1>1, <1>3, <2>2
<1> QED
  BY <1>4, <1>5, <1>6 DEF OrderInv

\* Steps that change nothing of the queue, and take up nothing new.
LEMMA QuietServes ==
  ASSUME QueueIndInv, OrderInv, UNCHANGED << sent, arrived, docs >>, Unapplied' = Unapplied
  PROVE  Serves
BY DEF Serves

LEMMA ServesTaking ==
  ASSUME QueueIndInv, OrderInv,
         LoadState \/ ResumeStarted \/ Take \/ FlushSegment \/ Evaluate \/ Remember \/ EndBatch
  PROVE  OrderInv' /\ Serves
<1>1. /\ UNCHANGED << sent, arrived, queue, started, docs, state >> /\ pc' # "checks"
      /\ \/ pc = "off" /\ UNCHANGED << buffer, batch, segment >> /\ seen' = state
         \/ seen' = seen /\ pc \notin {"off"}
         \/ UNCHANGED << buffer, batch, segment >> /\ Remember
  BY DEF LoadState, ResumeStarted, Take, TakeBatch, FlushSegment, Evaluate, Remember, EndBatch,
         queueVars, batchVars
<1>2. Unapplied' = Unapplied
  <2>1. CASE pc = "off" /\ seen' = state
    BY <1>1, <2>1 DEF Unapplied, QueueIndInv, Placed, Nothing
  <2>2. CASE seen' = seen
    BY <1>1, <2>2 DEF Unapplied
  <2>3. CASE Remember
    <3>1. \A i \in Index : plan[i].ids \subseteq state[i] /\ seen'[i] = seen[i] \cup plan[i].ids
      BY <2>3 DEF Remember, QueueIndInv, Recorded
    <3> QED
      BY <1>1, <3>1 DEF Unapplied
  <2> QED
    BY <1>1, <2>1, <2>2, <2>3
<1>3. \/ InHand' = InHand
      \/ InHand' \ started' = {}
  <2>1. CASE ResumeStarted
    BY <2>1 DEF ResumeStarted, TakeBatch, InHand, QueueIndInv, Placed, queueVars
  <2>2. CASE Take
    BY <2>2 DEF Take, TakeBatch, InHand, QueueIndInv, Placed
  <2>3. CASE FlushSegment
    BY <2>3 DEF FlushSegment, InHand, QueueIndInv, Placed
  <2>4. CASE LoadState \/ Evaluate \/ Remember \/ EndBatch
    BY <2>4 DEF LoadState, Evaluate, Remember, EndBatch, batchVars, InHand
  <2> QED
    BY <2>1, <2>2, <2>3, <2>4
<1>4. \A c \in started' : KindOf(c) = "check" => Ready(c)
  BY <1>1 DEF OrderInv, Checks
<1>5. OrderInv'
  BY <1>1, <1>2, <1>3, <1>4, OrderStays
<1> QED
  BY <1>1, <1>2, <1>5, QuietServes

LEMMA ServesFill ==
  ASSUME QueueIndInv, OrderInv, Fill
  PROVE  OrderInv' /\ Serves
<1> DEFINE page == First(BatchSize, queue)
           all == buffer \cup page
<1>1. /\ pc = "fetch" /\ buffer' = First(BatchSize, all)
      /\ UNCHANGED << sent, arrived, queue, started, docs, state, pc, seen, batch, segment, spare >>
  BY DEF Fill, queueVars, batchVars
<1>2. Unapplied' = Unapplied
  BY <1>1 DEF Unapplied
<1>3. InHand = buffer /\ InHand' = buffer'
  BY <1>1 DEF InHand, QueueIndInv, Placed
<1>4. all \in SUBSET Op /\ queue \in SUBSET Op /\ BatchSize \in Nat
  BY ProcessorAssumption, InvFacts DEF QueueIndInv, TypeOK, First
<1>5. ASSUME NEW o \in Unapplied, NEW p \in buffer' \ started, Before(o, p)
      PROVE  o \in buffer' \/ KindOf(o) = "check" \/ Serial!AcceptedBefore(p[1], o[1])
  <2>1. p \in all
    BY <1>1 DEF First
  <2>2. o \in queue
    BY UnappliedFacts
  <2>3. o \in all => o \in buffer'
    <3> HIDE DEF all
    <3> QED
      BY <1>1, <1>4, <1>5, FirstIsDownward
  <2>4. CASE p \in page
    <3>1. o \in page
      BY <1>4, <1>5, <2>2, <2>4, FirstIsDownward
    <3> QED
      BY <2>3, <3>1
  <2>5. CASE p \in buffer
    BY <1>3, <1>5, <2>3, <2>5 DEF OrderInv
  <2> QED
    BY <2>1, <2>4, <2>5
<1> HIDE DEF all, page
<1>6. /\ \A o : KindOf(o)' = KindOf(o)
      /\ \A c : Ready(c)' = Ready(c)
  <2>1. \A o : KindOf(o)' = KindOf(o)
    BY <1>1, SameBatches
  <2> QED
    BY <1>2, <2>1 DEF Ready
<1>7. OrderInv'
  <2>1. \A c \in Checks(started)' : Ready(c)'
    BY <1>1, <1>6 DEF OrderInv, Checks
  <2>2. \A o \in Unapplied', p \in InHand' \ started' :
          Before(o, p)' => o \in InHand' \/ KindOf(o)' = "check" \/ Serial!AcceptedBefore(p[1], o[1])'
    BY <1>1, <1>2, <1>3, <1>5, <1>6 DEF Before, Serial!Before, Serial!AcceptedBefore
  <2> QED
    BY <1>1, <2>1, <2>2 DEF OrderInv
<1> QED
  BY <1>1, <1>2, <1>7, QuietServes

\* A batch that is accepted.
LEMMA ServesQueueOps ==
  ASSUME QueueIndInv, OrderInv, QueueOps
  PROVE  OrderInv' /\ Serves
<1>1. PICK b \in Serial!Batch, s \in Shapes :
        /\ Serial!MaySend(b)
        /\ sent' = [sent EXCEPT ![b] = Deferred(s)] /\ arrived' = Append(arrived, b)
        /\ queue' = queue \cup Serial!OpsOf(b, Deferred(s))
        /\ UNCHANGED << docs, started, state, pc, seen, buffer, batchVars, stops, steps >>
  BY DEF QueueOps
<1>2. sent[b] = << >>
  BY <1>1 DEF Serial!MaySend
<1> DEFINE N == Serial!OpsOf(b, Deferred(s))
<1>3. /\ \A o \in Op : o[1] # b /\ KindOf(o)' = KindOf(o)
      /\ \A o \in N : o \notin Op /\ o[1] = b
  BY <1>1, <1>2, AcceptedFacts
<1>4. Unapplied' = Unapplied \cup N
  <2>1. \A i \in Index : state[i] \cup seen[i] \subseteq Op
    BY DEF QueueIndInv, TypeOK
  <2> HIDE DEF N
  <2>2. queue' = queue \cup N
    BY <1>1 DEF N
  <2> QED
    BY <1>1, <1>3, <2>1, <2>2 DEF Unapplied
<1>5. Serial!Accept
  BY <1>1, <1>4 DEF Serial!Accept
<1>6. Serves
  BY <1>5 DEF Serves, Serial!Next
<1>7. \A c, d : Serial!AcceptedBefore(c, d) => Serial!AcceptedBefore(c, d)'
  <2>1. arrived \in Seq(Serial!Batch)
    BY DEF QueueIndInv, TypeOK
  <2>2. \A m \in DOMAIN arrived : m \in DOMAIN arrived' /\ arrived'[m] = arrived[m]
    BY <1>1, <2>1
  <2> QED
    BY <2>2 DEF Serial!AcceptedBefore
<1>8. ASSUME NEW p \in Op PROVE Serial!AcceptedBefore(p[1], b)'
  <2>1. p[1] \in Serial!Batch /\ sent[p[1]] # << >>
    BY InvFacts, OpFacts DEF Batches
  <2>2. PICK m \in DOMAIN arrived : arrived[m] = p[1]
    BY <2>1 DEF QueueIndInv, SentOnce
  <2>3. arrived \in Seq(Serial!Batch)
    BY DEF QueueIndInv, TypeOK
  <2>4. /\ m \in DOMAIN arrived' /\ arrived'[m] = p[1] /\ m < Len(arrived) + 1
        /\ Len(arrived) + 1 \in DOMAIN arrived' /\ arrived'[Len(arrived) + 1] = b
    BY <1>1, <2>2, <2>3
  <2> QED
    BY <2>4 DEF Serial!AcceptedBefore
<1> HIDE DEF N
<1>9. /\ started \subseteq Op /\ segment \subseteq Op /\ spare \subseteq Op /\ InHand \subseteq Op
      /\ Unapplied \subseteq Op /\ InHand' = InHand
      /\ UNCHANGED << started, segment, spare, pc >>
  BY <1>1, UnappliedFacts DEF QueueIndInv, TypeOK, InHand, batchVars
<1>10. \A c \in Op : Ready(c) => Ready(c)'
  BY <1>3, <1>4, <1>9 DEF Ready
<1>11. \A c \in Checks(started)' : Ready(c)'
  BY <1>3, <1>9, <1>10 DEF OrderInv, Checks
<1>12. pc' = "checks" => \A c \in segment' \cup spare' : KindOf(c)' = "check" /\ Ready(c)'
  BY <1>3, <1>9, <1>10 DEF OrderInv
<1>13. ASSUME NEW o \in Unapplied', NEW p \in InHand' \ started', Before(o, p)'
       PROVE  o \in InHand' \/ KindOf(o)' = "check" \/ Serial!AcceptedBefore(p[1], o[1])'
  <2>1. p \in Op /\ p \in InHand \ started /\ Before(o, p)
    BY <1>9, <1>13 DEF Before, Serial!Before
  <2>2. CASE o \in N
    BY <1>3, <1>8, <2>1, <2>2
  <2>3. CASE o \in Unapplied
    <3>1. o \in InHand \/ KindOf(o) = "check" \/ Serial!AcceptedBefore(p[1], o[1])
      BY <2>1, <2>3 DEF OrderInv
    <3> QED
      BY <1>3, <1>7, <1>9, <2>3, <3>1
  <2> QED
    BY <1>4, <2>2, <2>3
<1> QED
  BY <1>6, <1>11, <1>12, <1>13 DEF OrderInv

\* The first request of a commit removes documents whose removal is pending.
LEMMA ServesCommitDelete ==
  ASSUME QueueIndInv, OrderInv, NEW i \in Index, CommitDelete(i)
  PROVE  OrderInv' /\ Serves
<1>1. /\ pc = "commit" /\ plan[i].stage = "delete"
      /\ docs' = [docs EXCEPT ![i] =
           [k \in Key |-> IF k \in plan[i].dels THEN Serial!Absent ELSE docs[i][k]]]
      /\ UNCHANGED << sent, arrived, queue, started, state, pc, seen, buffer, batch, segment, spare >>
  BY DEF CommitDelete, queueVars
<1>2. Unapplied' = Unapplied /\ InHand' = InHand
  BY <1>1 DEF Unapplied, InHand
<1>3. OrderInv'
  BY <1>1, <1>2, OrderStays DEF OrderInv, Checks
<1>4. plan[i].ids \subseteq Serial!Of(Unapplied, i)
  BY <1>1, UnappliedFacts
<1>5. \A k \in plan[i].dels : k \in Key /\ \E o \in Serial!Of(Unapplied, i) :
        Serial!What(o).kind = "remove" /\ Serial!What(o).key = k
  <2> SUFFICES ASSUME NEW k \in plan[i].dels
               PROVE  k \in Key /\ \E o \in Serial!Of(Unapplied, i) :
                        Serial!What(o).kind = "remove" /\ Serial!What(o).key = k
    OBVIOUS
  <2>1. k \in Key /\ \E r \in Named(i, k, plan[i].ids) : KindOf(r) = "remove"
    BY <1>1, PlannedRemoval
  <2> QED
    BY <1>4, <2>1 DEF Named, KindOf, What
<1>6. CASE plan[i].dels = {}
  <2>1. docs \in [Index -> [Key -> Doc]]
    BY InvFacts
  <2>2. [k \in Key |-> IF k \in plan[i].dels THEN Serial!Absent ELSE docs[i][k]] = docs[i]
    BY <1>6, <2>1
  <2>3. docs' = docs
    BY <1>1, <2>1, <2>2
  <2> QED
    BY <1>1, <1>2, <1>3, <2>3, QuietServes
<1>7. CASE plan[i].dels # {}
  <2>1. plan[i].dels \in (SUBSET Key) \ {{}}
    BY <1>5, <1>7
  <2>2. Serial!RemoveEarly(i)
    BY <1>1, <1>2, <1>5, <2>1 DEF Serial!RemoveEarly
  <2> QED
    BY <1>3, <2>2 DEF Serves, Serial!Next
<1> QED
  BY <1>6, <1>7

\* The second request makes the operations of a segment take effect.
LEMMA ServesCommitDocs ==
  ASSUME QueueIndInv, OrderInv, NEW i \in Index, CommitDocs(i)
  PROVE  OrderInv' /\ Serves
<1> DEFINE S == plan[i].ids
<1>1. /\ pc = "commit" /\ plan[i].stage = "write" /\ S \in SUBSET Serial!Of(segment, i)
      /\ docs' = [docs EXCEPT ![i] = [k \in Key |-> Serial!After(docs[i][k], i, k, S)]]
      /\ state' = [state EXCEPT ![i] = S]
      /\ UNCHANGED << sent, arrived, queue, started, pc, seen, buffer, batch, segment, spare >>
  BY WrittenFacts
<1>2. S \in (SUBSET Serial!Of(Unapplied, i)) \ {{}} /\ Unapplied \subseteq Op
  BY <1>1, UnappliedFacts
<1>3. /\ S = Serial!Of(segment, i) \ seen[i] /\ queue \cap state[i] \subseteq seen[i] \cup S
  BY <1>1 DEF QueueIndInv, Recorded
<1>4. Unapplied' = Unapplied \ S
  <2>1. state'[i] = S /\ \A j \in Index : j # i => state'[j] = state[j]
    BY <1>1 DEF QueueIndInv, TypeOK
  <2> HIDE DEF S
  <2> QED
    BY <1>1, <1>3, <2>1 DEF Unapplied
<1>5. ASSUME NEW o \in Serial!Of(Unapplied, i) \ S PROVE ~ Serial!Overtakes(S, o)
  <2>1. o \in Unapplied /\ o \in Op /\ KindOf(o) # "check"
    BY <1>2 DEF Serial!Of, KindOf, What, Serial!Simple
  <2>2. ASSUME NEW p \in S, Before(o, p) PROVE Serial!AcceptedBefore(p[1], o[1])
    <3>1. p \in segment /\ p \notin started /\ segment \subseteq Op /\ batch \subseteq Op
      BY <1>1 DEF Serial!Of, QueueIndInv, Segmented, TypeOK
    <3>2. o \in InHand \/ Serial!AcceptedBefore(p[1], o[1])
      BY <2>1, <2>2, <3>1 DEF OrderInv, InHand
    <3>3. o \notin buffer
      BY <1>1 DEF QueueIndInv, Placed
    <3>4. o \notin segment
      BY <1>3, <1>5 DEF Serial!Of, Unapplied
    <3>5. o \notin batch
      <4>1. o \in batch => Before(p, o)
        BY <3>1 DEF QueueIndInv, Segmented
      <4> QED
        BY <2>1, <2>2, <3>1, <4>1, InvFacts
    <3> QED
      BY <3>2, <3>3, <3>4, <3>5 DEF InHand
  <2> QED
    BY <2>2 DEF Serial!Overtakes, Before
<1> HIDE DEF S
<1>6. Serial!Apply(i)
  BY <1>1, <1>2, <1>4, <1>5 DEF Serial!Apply
<1>7. InHand' = InHand /\ Unapplied' \subseteq Unapplied
  BY <1>1, <1>4 DEF InHand
<1>8. OrderInv'
  BY <1>1, <1>7, OrderStays DEF OrderInv, Checks
<1> QED
  BY <1>6, <1>8 DEF Serves, Serial!Next

\* What leaves the queue without writing a document.
LEMMA LeaveServes ==
  ASSUME QueueIndInv, UNCHANGED << sent, arrived, docs, state, seen >>,
         NEW S, queue' = queue \ S,
         \A o \in S \cap Unapplied : KindOf(o) \notin Serial!Simple,
         \A o \in S \cap Unapplied : KindOf(o) = "check" => Ready(o)
  PROVE  Serves /\ Unapplied' = Unapplied \ S
<1> DEFINE T == S \cap Unapplied
<1>1. Unapplied' = Unapplied \ S
  BY DEF Unapplied
<1>2. Unapplied' = Unapplied \ T
  BY <1>1
<1>3. \A o : Serial!What(o).kind = KindOf(o)
  BY DEF KindOf, What
<1>4. CASE T = {}
  BY <1>2, <1>4 DEF Serves
<1>5. CASE T # {}
  <2>1. T \in (SUBSET {o \in Unapplied : Serial!What(o).kind \notin Serial!Simple}) \ {{}}
    BY <1>3, <1>5
  <2>2. \A o \in T : Serial!What(o).kind = "check" =>
          \A p \in Unapplied \ T : p[1] = o[1] => Serial!What(p).kind = "check"
    BY <1>3 DEF Ready
  <2> HIDE DEF T
  <2>3. Serial!Leave
    BY <1>2, <2>1, <2>2 DEF Serial!Leave
  <2> QED
    BY <1>1, <2>3 DEF Serves, Serial!Next
<1> QED
  BY <1>4, <1>5

\* After the writes of a segment no check of it waits for anything.
LEMMA ChecksAreReady ==
  ASSUME QueueIndInv, OrderInv, pc = "dequeue", NEW c \in segment, KindOf(c) = "check",
         NEW o \in Unapplied \ consumed, o[1] = c[1]
  PROVE  KindOf(o) = "check"
<1> SUFFICES ASSUME KindOf(o) # "check" PROVE FALSE
  OBVIOUS
<1>1. /\ c \in Op /\ o \in Op /\ c \notin started /\ segment \subseteq Op /\ batch \subseteq Op
      /\ buffer = {} /\ consumed = {p \in segment : KindOf(p) # "check"}
  BY UnappliedFacts DEF QueueIndInv, TypeOK, Segmented, Placed, Consumed, KindOf
<1>2. o \notin segment
  BY <1>1
<1>3. PICK s \in Shapes : sent[c[1]] = Deferred(s)
  <2>1. c[1] \in Serial!Batch /\ sent[c[1]] # << >>
    BY <1>1, InvFacts, OpFacts DEF Batches
  <2> QED
    BY <2>1 DEF QueueIndInv, SentOnce
<1>4. /\ c[2] \in DOMAIN Deferred(s) /\ o[2] \in DOMAIN Deferred(s)
      /\ KindOf(c) = Deferred(s)[c[2]].kind /\ KindOf(o) = Deferred(s)[o[2]].kind
  BY <1>1, <1>3, InvFacts, OpFacts DEF Batches, KindOf, What, Serial!What
<1>5. ~ (c[2] < o[2])
  BY <1>4, DeferredFacts
<1>6. Before(o, c)
  <2>1. o = c \/ Before(o, c) \/ Before(c, o)
    BY <1>1, InvFacts, Ordered
  <2>2. c \in Pair /\ o \in Pair
    BY <1>1, InvFacts
  <2>3. ~ Before(c, o)
    BY <1>5, <2>2 DEF Before, Serial!Before, Pair
  <2> QED
    BY <2>1, <2>3
<1>7. ~ Serial!AcceptedBefore(c[1], o[1])
  <2>1. \A m, n \in DOMAIN arrived : arrived[m] = arrived[n] => m = n
    BY DEF QueueIndInv, SentOnce
  <2>2. \A m \in DOMAIN arrived : m \in Nat
    BY DEF QueueIndInv, TypeOK
  <2> QED
    BY <2>1, <2>2 DEF Serial!AcceptedBefore
<1>8. o \in batch
  BY <1>1, <1>2, <1>6, <1>7 DEF OrderInv, InHand
<1>9. Before(c, o)
  BY <1>8 DEF QueueIndInv, Segmented
<1> QED
  BY <1>1, <1>6, <1>9, InvFacts

LEMMA ServesDequeue ==
  ASSUME QueueIndInv, OrderInv, Dequeue
  PROVE  OrderInv' /\ Serves
<1>1. /\ pc = "dequeue" /\ pc' = "checks" /\ queue' = queue \ consumed
      /\ segment' = {o \in segment : KindOf(o) = "check"}
      /\ UNCHANGED << sent, arrived, started, docs, state, seen, buffer, batch, spare >>
  BY DEF Dequeue, KindOf
<1>2. /\ consumed = {o \in segment : KindOf(o) # "check"} /\ segment \subseteq Op
      /\ spare = {}
  BY <1>1 DEF QueueIndInv, TypeOK, Placed, Consumed, KindOf
<1>3. \A o \in consumed \cap Unapplied : KindOf(o) \notin Serial!Simple
  <2> SUFFICES ASSUME NEW o \in segment, KindOf(o) \in Serial!Simple PROVE o \notin Unapplied
    BY <1>2
  <2>1. What(o).index \in Index
    BY <1>2, InvFacts DEF Serial!Shape
  <2>2. o \in Serial!Of(segment, What(o).index)
    BY DEF Serial!Of, KindOf, What
  <2>3. o \in seen[What(o).index]
    BY <1>1, <2>1, <2>2 DEF QueueIndInv, Recorded
  <2> QED
    BY <2>1, <2>3 DEF Unapplied
<1>4. Serves /\ Unapplied' = Unapplied \ consumed
  BY <1>1, <1>2, <1>3, LeaveServes
<1>5. \A c \in segment' : KindOf(c) = "check" /\ Ready(c)'
  <2> SUFFICES ASSUME NEW c \in segment, KindOf(c) = "check" PROVE Ready(c)'
    BY <1>1
  <2>1. \A o \in Unapplied' : o[1] = c[1] => KindOf(o) = "check"
    BY <1>1, <1>4, ChecksAreReady
  <2>2. \A o : KindOf(o)' = KindOf(o)
    BY <1>1, SameBatches
  <2> QED
    BY <2>1, <2>2 DEF Ready
<1>6. InHand' \subseteq InHand
  BY <1>1 DEF InHand
<1>7. \A o \in Unapplied' : o \in InHand => o \in InHand'
  BY <1>1, <1>2, <1>4 DEF InHand
<1>8. OrderInv'
  BY <1>1, <1>2, <1>4, <1>5, <1>6, <1>7, OrderStays DEF OrderInv, Checks
<1> QED
  BY <1>4, <1>8

\* A step on a check or a workflow.
LEMMA HandledServes ==
  ASSUME QueueIndInv, UNCHANGED << sent, arrived, docs, state, seen >>, NEW o, Handled(o),
         KindOf(o) \notin Serial!Simple, KindOf(o) = "check" => Ready(o)
  PROVE  Serves /\ Unapplied' \subseteq Unapplied /\ (queue' # queue => o \notin Unapplied')
<1>1. CASE queue' = queue
  BY <1>1 DEF Unapplied, Serves
<1>2. CASE queue' = queue \ {o}
  <2>1. Serves /\ Unapplied' = Unapplied \ {o}
    BY <1>2, LeaveServes
  <2> QED
    BY <2>1
<1> QED
  BY <1>1, <1>2 DEF Handled

LEMMA ServesRunCheck ==
  ASSUME QueueIndInv, OrderInv, RunCheck
  PROVE  OrderInv' /\ Serves
<1> DEFINE o == FirstOf(segment)
<1>1. /\ pc = "checks" /\ o \in segment /\ o \in Same(o) /\ Same(o) \subseteq segment
      /\ segment' = segment \ Same(o) /\ spare' \subseteq spare \cup (Same(o) \ {o})
      /\ Handled(o)
      /\ UNCHANGED << sent, arrived, docs, state, pc, seen, buffer, batch >>
  BY RunCheckFacts
<1> HIDE DEF o
<1>2. \A c \in segment \cup spare : KindOf(c) = "check" /\ Ready(c)
  BY <1>1 DEF OrderInv
<1>3. Serves /\ Unapplied' \subseteq Unapplied
  BY <1>1, <1>2, HandledServes DEF Serial!Simple
<1>4. started' \in {started, started \ {o}} /\ o \notin started /\ o \notin segment'
  BY <1>1 DEF Handled, QueueIndInv, Segmented
<1>5. \A c \in started' : KindOf(c) = "check" => Ready(c)
  BY <1>4 DEF OrderInv, Checks
<1>6. \A c \in segment' \cup spare' : KindOf(c) = "check" /\ Ready(c)
  BY <1>1, <1>2
<1>7. InHand' \ started' \subseteq InHand \ started
  BY <1>1, <1>4 DEF InHand
<1>8. \A q \in InHand : q \in InHand' \/ KindOf(q) = "check"
  BY <1>1, <1>2 DEF InHand
<1>9. OrderInv'
  BY <1>1, <1>3, <1>5, <1>6, <1>7, <1>8, OrderStays
<1> QED
  BY <1>3, <1>9

LEMMA ServesRunFlow ==
  ASSUME QueueIndInv, OrderInv, RunFlow
  PROVE  OrderInv' /\ Serves
<1> DEFINE o == FirstOf(batch)
<1>1. /\ pc = "batch" /\ o \in batch /\ Splits(o) /\ batch' = batch \ {o}
      /\ Handled(o)
      /\ queue' # queue \/ KindOf(o) = "check"
      /\ UNCHANGED << sent, arrived, docs, state, pc, seen, buffer, segment, spare >>
  BY RunFlowFacts
<1> HIDE DEF o
<1>2. KindOf(o) \notin Serial!Simple /\ (KindOf(o) = "check" => Ready(o))
  BY <1>1 DEF Splits, Queued, KindOf, OrderInv, Checks, Serial!Simple
<1>3. Serves /\ Unapplied' \subseteq Unapplied /\ (queue' # queue => o \notin Unapplied')
  BY <1>1, <1>2, HandledServes
<1>4. started' \in {started, started \ {o}} /\ segment = {} /\ buffer = {}
  BY <1>1 DEF Handled, QueueIndInv, Placed
<1>5. \A c \in started' : KindOf(c) = "check" => Ready(c)
  BY <1>4 DEF OrderInv, Checks
<1>6. InHand' \ started' \subseteq InHand \ started
  BY <1>1, <1>4 DEF InHand
<1>7. \A q \in Unapplied' : q \in InHand => q \in InHand' \/ KindOf(q) = "check"
  BY <1>1, <1>3, <1>4 DEF InHand
<1>8. OrderInv'
  BY <1>1, <1>3, <1>5, <1>6, <1>7, OrderStays
<1> QED
  BY <1>3, <1>8

LEMMA ServesDropSpare ==
  ASSUME QueueIndInv, OrderInv, DropSpare
  PROVE  OrderInv' /\ Serves
<1>1. /\ pc = "checks" /\ pc' = "batch" /\ queue' = queue \ spare
      /\ UNCHANGED << sent, arrived, started, docs, state, seen, buffer, batch, segment >>
  BY DEF DropSpare
<1>2. \A c \in spare : KindOf(c) = "check" /\ Ready(c)
  BY <1>1 DEF OrderInv
<1>3. Serves /\ Unapplied' = Unapplied \ spare
  BY <1>1, <1>2, LeaveServes DEF Serial!Simple
<1>4. InHand' = InHand
  BY <1>1 DEF InHand
<1>5. OrderInv'
  BY <1>1, <1>3, <1>4, OrderStays DEF OrderInv, Checks
<1> QED
  BY <1>3, <1>5

\* A stop forgets what is not recorded, hence the hypothesis.
LEMMA ServesStop ==
  ASSUME QueueIndInv, OrderInv, Stop, KeepsRecord
  PROVE  OrderInv' /\ Serves
<1>1. /\ pc' = "off" /\ seen' = Nothing /\ buffer' = {} /\ batch' = {} /\ segment' = {}
      /\ UNCHANGED << sent, arrived, queue, docs, state >>
  BY DEF Stop
<1>2. Unapplied' = Unapplied
  <2>1. \A i \in Index : seen'[i] = {}
    BY <1>1 DEF Nothing
  <2>2. \A i \in Index : queue \cap seen[i] \subseteq state[i]
    BY DEF KeepsRecord
  <2> QED
    BY <1>1, <2>1, <2>2 DEF Unapplied
<1>3. \A c \in started' : KindOf(c) = "check" => Ready(c)
  <2> SUFFICES ASSUME NEW c \in started', KindOf(c) = "check" PROVE Ready(c)
    OBVIOUS
  <2>1. c \in started \/ (pc = "checks" /\ c \in segment)
    BY StopFacts
  <2> QED
    BY <2>1 DEF OrderInv, Checks
<1>4. InHand' = {}
  BY <1>1 DEF InHand
<1>5. OrderInv'
  BY <1>1, <1>2, <1>3, <1>4, OrderStays
<1> QED
  BY <1>1, <1>2, <1>5, QuietServes

LEMMA OrderInit ==
  ASSUME Init
  PROVE  OrderInv /\ Serial!Init
<1>1. started = {} /\ pc = "off" /\ buffer = {} /\ batch = {} /\ segment = {} /\ queue = {}
  BY DEF Init
<1> QED
  BY <1>1 DEF Init, OrderInv, InHand, Checks, Unapplied

LEMMA NextServes ==
  ASSUME QueueIndInv, OrderInv, [Next]_vars, [KeepsRecord]_vars
  PROVE  OrderInv' /\ Serves
<1>1. CASE QueueOps
  BY <1>1, ServesQueueOps
<1>2. CASE LoadState \/ ResumeStarted \/ Take \/ FlushSegment \/ Evaluate \/ Remember \/ EndBatch
  BY <1>2, ServesTaking
<1>3. CASE Fill
  BY <1>3, ServesFill
<1>4. CASE \E i \in Index : CommitDelete(i) \/ CommitDocs(i)
  BY <1>4, ServesCommitDelete, ServesCommitDocs
<1>5. CASE Dequeue
  BY <1>5, ServesDequeue
<1>6. CASE RunCheck \/ RunFlow \/ DropSpare
  BY <1>6, ServesRunCheck, ServesRunFlow, ServesDropSpare
<1>7. CASE Stop
  <2>1. ~ UNCHANGED vars
    BY <1>7 DEF Stop, vars
  <2> QED
    BY <1>7, <2>1, ServesStop
<1>8. CASE UNCHANGED vars
  <2>1. /\ UNCHANGED << sent, arrived, docs, queue, started, pc, state, seen, segment, spare >>
        /\ UNCHANGED << buffer, batch >>
    BY <1>8 DEF vars
  <2>2. Unapplied' = Unapplied /\ InHand' = InHand
    BY <2>1 DEF Unapplied, InHand
  <2>3. OrderInv'
    BY <2>1, <2>2, OrderStays DEF OrderInv, Checks
  <2> QED
    BY <2>1, <2>2, <2>3, QuietServes
<1> QED
  BY <1>1, <1>2, <1>3, <1>4, <1>5, <1>6, <1>7, <1>8 DEF Next, Process

\* The processor implements the queue that its producers rely on, whatever it
\* is doing when it stops, as long as what a run knows to be done is recorded in
\* the state documents when it stops (commitSimpleBatch, saveState).  A second
\* batch overwrites the record of the first one (observation 8).
THEOREM QueueServed == Spec /\ [][KeepsRecord]_vars => ServesQueue
<1>1. Init => QueueIndInv /\ OrderInv /\ Serial!Init
  BY InitKeeps, OrderInit
<1>2. QueueIndInv /\ OrderInv /\ [Next]_vars /\ [KeepsRecord]_vars =>
        QueueIndInv' /\ OrderInv' /\ [Serial!Next]_(Serial!vars)
  BY NextKeeps, NextServes DEF Serves, Serial!vars
<1> QED
  BY <1>1, <1>2, PTL DEF Spec, ServesQueue, Serial!Spec

\* In the first run nothing is recorded before it begins, and what it knows to be
\* done leaves the queue before it goes on.
FirstRun ==
  stops = 0 =>
    /\ pc = "off" => state = Nothing
    /\ \A i \in Index :
         queue \cap seen[i] \subseteq IF pc = "dequeue" THEN plan[i].ids ELSE {}

LEMMA FirstRunStays ==
  ASSUME QueueIndInv, FirstRun, [Next]_vars, MaxStops <= 1
  PROVE  FirstRun' /\ [KeepsRecord]_vars
<1>1. stops \in Nat /\ MaxStops \in Nat
  BY ProcessorAssumption DEF QueueIndInv, TypeOK
<1>2. CASE Stop
  <2>1. stops = 0 /\ stops' = 1
    BY <1>1, <1>2 DEF Stop
  <2>2. \A i \in Index : queue \cap seen[i] \subseteq state[i]
    BY <2>1 DEF FirstRun, QueueIndInv, Recorded
  <2> QED
    BY <2>1, <2>2 DEF FirstRun, KeepsRecord
<1>3. CASE ~ Stop
  <2>1. [KeepsRecord]_vars
    BY <1>3 DEF KeepsRecord
  <2>2. CASE QueueOps
    <3>1. /\ UNCHANGED << state, pc, seen, plan, stops >>
          /\ \E b \in Serial!Batch, s \in Shapes :
               /\ sent[b] = << >> /\ sent' = [sent EXCEPT ![b] = Deferred(s)]
               /\ arrived' = Append(arrived, b)
               /\ queue' = queue \cup Serial!OpsOf(b, Deferred(s))
      BY <2>2 DEF QueueOps, batchVars, Serial!MaySend
    <3>2. \A i \in Index : queue' \cap seen[i] \subseteq queue \cap seen[i]
      BY <3>1, AcceptedFacts DEF QueueIndInv, TypeOK
    <3> QED
      BY <2>1, <3>1, <3>2 DEF FirstRun
  <2>3. CASE LoadState
    BY <2>1, <2>3 DEF LoadState, FirstRun, Nothing, queueVars, batchVars
  <2>4. CASE Remember
    <3>1. /\ pc = "commit" /\ pc' = "dequeue" /\ UNCHANGED << queue, state, plan, stops >>
          /\ \A i \in Index : seen'[i] = seen[i] \cup plan[i].ids
      BY <2>4 DEF Remember, queueVars, batchVars
    <3> QED
      BY <2>1, <3>1 DEF FirstRun
  <2>5. CASE Dequeue
    <3>1. /\ pc = "dequeue" /\ pc' = "checks" /\ UNCHANGED << seen, state, stops >>
          /\ queue' = queue \ consumed
      BY <2>5 DEF Dequeue
    <3>2. \A i \in Index : plan[i].ids \subseteq consumed
      <4>1. \A i \in Index : plan[i].ids \subseteq segment /\ plan[i].ids \subseteq Serial!Of(Op, i)
        BY DEF QueueIndInv, TypeOK, Recorded
      <4>2. consumed = {o \in segment : What(o).kind # "check"}
        BY <3>1 DEF QueueIndInv, Placed, Consumed
      <4> QED
        BY <4>1, <4>2 DEF Serial!Of, Serial!Simple, What
    <3> QED
      BY <2>1, <3>1, <3>2 DEF FirstRun
  <2>6. CASE /\ queue' \subseteq queue /\ UNCHANGED << seen, stops >>
             /\ pc' \notin {"off", "dequeue"} /\ pc # "dequeue"
    BY <2>1, <2>6 DEF FirstRun
  <2>7. ASSUME ResumeStarted \/ Fill \/ Take \/ FlushSegment \/ Evaluate \/ EndBatch
               \/ \E i \in Index : CommitDelete(i) \/ CommitDocs(i)
        PROVE  /\ queue' \subseteq queue /\ UNCHANGED << seen, stops >>
               /\ pc' \notin {"off", "dequeue"} /\ pc # "dequeue"
    BY <2>7 DEF ResumeStarted, Fill, Take, TakeBatch, FlushSegment, Evaluate, EndBatch,
                CommitDelete, CommitDocs, queueVars, batchVars
  <2>8. ASSUME RunCheck \/ RunFlow \/ DropSpare
        PROVE  /\ queue' \subseteq queue /\ UNCHANGED << seen, stops >>
               /\ pc' \notin {"off", "dequeue"} /\ pc # "dequeue"
    <3>1. CASE RunCheck
      BY <3>1, RunCheckFacts DEF Handled
    <3>2. CASE RunFlow
      BY <3>2, RunFlowFacts DEF Handled
    <3>3. CASE DropSpare
      BY <3>3 DEF DropSpare
    <3> QED
      BY <2>8, <3>1, <3>2, <3>3
  <2>9. CASE UNCHANGED vars
    BY <2>1, <2>9 DEF FirstRun, vars, Nothing
  <2> QED
    BY <1>3, <2>2, <2>3, <2>4, <2>5, <2>6, <2>7, <2>8, <2>9 DEF Next, Process
<1> QED
  BY <1>2, <1>3

\* With one stop the hypothesis is met, wherever the stop comes (the test "should
\* handle idempotency (skip processed ops)").
THEOREM OneStopServed == MaxStops <= 1 => (Spec => ServesQueue)
<1> SUFFICES ASSUME MaxStops <= 1 PROVE Spec => ServesQueue
  OBVIOUS
<1>1. Init => FirstRun /\ QueueIndInv
  <2>1. Init => FirstRun
    BY DEF Init, FirstRun
  <2> QED
    BY <2>1, InitKeeps
<1>2. QueueIndInv /\ FirstRun /\ [Next]_vars => QueueIndInv' /\ FirstRun' /\ [KeepsRecord]_vars
  BY NextKeeps, FirstRunStays
<1>3. Spec => [][KeepsRecord]_vars
  BY <1>1, <1>2, PTL DEF Spec
<1> QED
  BY <1>3, QueueServed, PTL
================================================================================
