---------------------------- MODULE NumberLemmas ----------------------------
(***************************************************************************)
(* The arithmetic that the proofs need.  SumFunctionOnSet(f, S) of the     *)
(* community modules adds f[x] for the x of a finite set S, one CHOSEN     *)
(* element after the other: the lemmas say that it is the sum in any       *)
(* order, and how it changes with S and with f.  Then induction over an    *)
(* interval, powers of two and division.                                   *)
(***************************************************************************)
EXTENDS Functions, FiniteSetsExt, FiniteSetTheorems, FunctionTheorems,
        NaturalsInduction, TLAPS

-----------------------------------------------------------------------------
(* Induction over the subsets of a finite set, for a set of subsets instead *)
(* of a predicate: one that each of its members can lose an element in, and *)
(* that has not the empty set, is empty.                                    *)

LEMMA SubsetInduction ==
  ASSUME NEW S, IsFiniteSet(S), NEW Bad \in SUBSET SUBSET S, {} \notin Bad,
         \A T \in Bad : \E x \in T : T \ {x} \in Bad
  PROVE  Bad = {}
<1> SUFFICES ASSUME Bad # {} PROVE FALSE OBVIOUS
<1>1. IsWellFoundedOn(StrictSubsetOrdering(S), FiniteSubsetsOf(S))
  BY FS_StrictSubsetOrderingWellFounded
<1>2. FiniteSubsetsOf(S) = SUBSET S BY FS_FiniteSubsetsOfFinite
<1>3. PICK T \in Bad : \A U \in Bad : <<U, T>> \notin StrictSubsetOrdering(S)
  BY <1>1, <1>2, WFMin
<1>4. PICK x \in T : T \ {x} \in Bad OBVIOUS
<1>5. <<T \ {x}, T>> \in StrictSubsetOrdering(S)
  BY DEF StrictSubsetOrdering
<1> QED BY <1>3, <1>4, <1>5

-----------------------------------------------------------------------------
(* The recursion that FoldSet unfolds has exactly one solution.             *)

Some(s) == CHOOSE x \in s : TRUE

Adds(g, f, S) ==
  g = [s \in SUBSET S |-> IF s = {} THEN 0
                          ELSE LET x == CHOOSE x \in s : TRUE IN f[x] + g[s \ {x}]]

LEMMA AddsValue ==
  ASSUME NEW g, NEW f, NEW S, Adds(g, f, S), NEW T \in SUBSET S
  PROVE  /\ T = {} => g[T] = 0
         /\ T # {} => Some(T) \in T /\ g[T] = f[Some(T)] + g[T \ {Some(T)}]
<1>1. g[T] = IF T = {} THEN 0 ELSE f[Some(T)] + g[T \ {Some(T)}]
  BY DEF Adds, Some
<1>2. T # {} => Some(T) \in T BY DEF Some
<1> QED BY <1>1, <1>2

LEMMA AddsOneWay ==
  ASSUME NEW f, NEW f2, NEW g, NEW g2, NEW S, NEW S2, Adds(g, f, S), Adds(g2, f2, S2),
         NEW V, IsFiniteSet(V), V \subseteq S, V \subseteq S2, \A x \in V : f[x] = f2[x]
  PROVE  g[V] = g2[V]
<1> DEFINE Bad == {T \in SUBSET V : g[T] # g2[T]}
<1>1. {} \notin Bad BY AddsValue
<1>2. ASSUME NEW T \in Bad PROVE \E x \in T : T \ {x} \in Bad
  <2>1. T \in SUBSET V /\ T # {} /\ T \in SUBSET S /\ T \in SUBSET S2 BY <1>1
  <2>2. /\ Some(T) \in T /\ g[T] = f[Some(T)] + g[T \ {Some(T)}]
        /\ g2[T] = f2[Some(T)] + g2[T \ {Some(T)}]
    BY <2>1, AddsValue
  <2> QED BY <2>1, <2>2
<1>3. Bad = {}
  <2> HIDE DEF Bad
  <2>1. Bad \in SUBSET SUBSET V BY DEF Bad
  <2> QED BY <1>1, <1>2, <2>1, SubsetInduction
<1> QED BY <1>3

LEMMA AddsExists ==
  ASSUME NEW f, NEW S, IsFiniteSet(S)
  PROVE  \E g : Adds(g, f, S)
<1> DEFINE Bad == {T \in SUBSET S : ~ \E g : Adds(g, f, T)}
<1>1. {} \notin Bad
  <2> DEFINE g == [s \in SUBSET {} |-> 0]
  <2>1. Adds(g, f, {}) BY DEF Adds
  <2> QED BY <2>1
<1>2. ASSUME NEW T \in Bad PROVE \E x \in T : T \ {x} \in Bad
  <2> SUFFICES ASSUME \A x \in T : \E g : Adds(g, f, T \ {x}) PROVE FALSE
    OBVIOUS
  <2>1. T # {} /\ T \in SUBSET S /\ ~ \E g : Adds(g, f, T) BY <1>1
  <2>2. IsFiniteSet(T) BY <2>1, FS_Subset
  <2> DEFINE c    == Some(T)
             G(x) == CHOOSE g : Adds(g, f, T \ {x})
             o(s) == CHOOSE x \in T : x \notin s
             h    == [s \in SUBSET T |-> IF s = T THEN f[c] + G(c)[T \ {c}] ELSE G(o(s))[s]]
  <2>3. c \in T BY <2>1 DEF Some
  <2>4. \A x \in T : Adds(G(x), f, T \ {x}) OBVIOUS
  <2>5. \A s \in SUBSET T : s # T => o(s) \in T /\ o(s) \notin s OBVIOUS
  <2>6. \A s \in SUBSET T : s = T => h[s] = f[c] + G(c)[T \ {c}] OBVIOUS
  <2>7. \A s \in SUBSET T : s # T => h[s] = G(o(s))[s] OBVIOUS
  <2> HIDE DEF h, G, o, c, Bad
  <2>8. ASSUME NEW s \in SUBSET T
        PROVE  h[s] = IF s = {} THEN 0 ELSE f[Some(s)] + h[s \ {Some(s)}]
    <3>1. CASE s = T
      <4>1. T \ {c} # T /\ T \ {c} \in SUBSET T BY <2>3
      <4>2. o(T \ {c}) = c BY <2>5, <4>1
      <4>3. h[T \ {c}] = G(c)[T \ {c}] BY <2>7, <4>1, <4>2
      <4>4. Some(s) = c /\ s # {} BY <3>1, <2>3 DEF c
      <4> QED BY <2>6, <3>1, <4>3, <4>4
    <3>2. CASE s # T /\ s = {}
      <4>1. Adds(G(o(s)), f, T \ {o(s)}) BY <2>4, <2>5, <3>2
      <4>2. G(o(s))[s] = 0 BY <4>1, <3>2, AddsValue
      <4> QED BY <2>7, <3>2, <4>2
    <3>3. CASE s # T /\ s # {}
      <4> DEFINE u == s \ {Some(s)}
      <4>1. Some(s) \in s /\ u \in SUBSET T /\ u # T /\ u \subseteq s BY <3>3 DEF Some
      <4>2. /\ o(s) \in T /\ o(s) \notin s /\ Adds(G(o(s)), f, T \ {o(s)})
            /\ o(u) \in T /\ o(u) \notin u /\ Adds(G(o(u)), f, T \ {o(u)})
        BY <2>4, <2>5, <3>3, <4>1
      <4>3. s \in SUBSET (T \ {o(s)}) /\ u \subseteq T \ {o(s)} /\ u \subseteq T \ {o(u)}
        BY <4>1, <4>2
      <4>4. G(o(s))[s] = f[Some(s)] + G(o(s))[u] BY <3>3, <4>2, <4>3, AddsValue
      <4>5. IsFiniteSet(u) BY <2>2, <4>1, FS_Subset
      <4>6. G(o(s))[u] = G(o(u))[u]
        <5> HIDE DEF u
        <5> QED BY <4>2, <4>3, <4>5, AddsOneWay
      <4>7. h[s] = G(o(s))[s] /\ h[u] = G(o(u))[u] BY <2>7, <3>3, <4>1
      <4> QED BY <3>3, <4>4, <4>6, <4>7
    <3> QED BY <3>1, <3>2, <3>3
  <2>9. h = [s \in SUBSET T |-> h[s]] BY DEF h
  <2>10. Adds(h, f, T)
    <3>1. h = [s \in SUBSET T |-> IF s = {} THEN 0 ELSE f[Some(s)] + h[s \ {Some(s)}]]
      BY <2>8, <2>9
    <3> QED BY <3>1 DEF Adds, Some
  <2> QED BY <2>1, <2>10
<1>3. Bad = {}
  <2> HIDE DEF Bad
  <2>1. Bad \in SUBSET SUBSET S BY DEF Bad
  <2> QED BY <1>1, <1>2, <2>1, SubsetInduction
<1> QED BY <1>3

LEMMA SumAdds ==
  ASSUME NEW f, NEW S, IsFiniteSet(S)
  PROVE  \E g : Adds(g, f, S) /\ SumFunctionOnSet(f, S) = g[S]
<1> DEFINE It == CHOOSE g : g = [s \in SUBSET S |->
                   IF s = {} THEN 0 ELSE LET x == CHOOSE x \in s : TRUE IN f[x] + g[s \ {x}]]
<1>1. SumFunctionOnSet(f, S) = It[S]
  BY DEF SumFunctionOnSet, FoldFunctionOnSet, MapThenFoldSet
<1>2. Adds(It, f, S)
  <2>1. \E g : Adds(g, f, S) BY AddsExists
  <2> QED BY <2>1, Zenon DEF Adds
<1> QED BY <1>1, <1>2

-----------------------------------------------------------------------------
(* The sum: empty, by its chosen element, and of equal functions.           *)

LEMMA SumEmpty == ASSUME NEW f PROVE SumFunctionOnSet(f, {}) = 0
BY SumAdds, AddsValue, FS_EmptySet

LEMMA SumEqual ==
  ASSUME NEW f, NEW g, NEW S, IsFiniteSet(S), \A x \in S : f[x] = g[x]
  PROVE  SumFunctionOnSet(f, S) = SumFunctionOnSet(g, S)
<1>1. PICK a : Adds(a, f, S) /\ SumFunctionOnSet(f, S) = a[S] BY SumAdds
<1>2. PICK b : Adds(b, g, S) /\ SumFunctionOnSet(g, S) = b[S] BY SumAdds
<1>3. a[S] = b[S] BY <1>1, <1>2, AddsOneWay
<1> QED BY <1>1, <1>2, <1>3

LEMMA SumChosen ==
  ASSUME NEW f, NEW S, IsFiniteSet(S), S # {}
  PROVE  /\ Some(S) \in S
         /\ SumFunctionOnSet(f, S) = f[Some(S)] + SumFunctionOnSet(f, S \ {Some(S)})
<1> DEFINE T == S \ {Some(S)}
<1>1. Some(S) \in S BY DEF Some
<1>2. IsFiniteSet(T) /\ T \in SUBSET S BY FS_RemoveElement
<1>3. PICK a : Adds(a, f, S) /\ SumFunctionOnSet(f, S) = a[S] BY SumAdds
<1>4. a[S] = f[Some(S)] + a[T]
  <2>1. S \in SUBSET S /\ Adds(a, f, S) BY <1>3
  <2>2. a[S] = f[Some(S)] + a[S \ {Some(S)}] BY ONLY <2>1, S # {}, AddsValue
  <2> QED BY <2>2
<1> HIDE DEF T
<1>5. PICK b : Adds(b, f, T) /\ SumFunctionOnSet(f, T) = b[T] BY <1>2, SumAdds
<1>6. a[T] = b[T] BY <1>2, <1>3, <1>5, AddsOneWay
<1> QED BY <1>1, <1>3, <1>4, <1>5, <1>6 DEF T

LEMMA SumInt ==
  ASSUME NEW f, NEW S, IsFiniteSet(S), \A x \in S : f[x] \in Int
  PROVE  SumFunctionOnSet(f, S) \in Int
<1> DEFINE Bad == {T \in SUBSET S : SumFunctionOnSet(f, T) \notin Int}
<1>1. {} \notin Bad BY SumEmpty
<1>2. ASSUME NEW T \in Bad PROVE \E x \in T : T \ {x} \in Bad
  <2>1. T \in SUBSET S /\ T # {} /\ IsFiniteSet(T) BY <1>1, FS_Subset
  <2>2. /\ Some(T) \in T
        /\ SumFunctionOnSet(f, T) = f[Some(T)] + SumFunctionOnSet(f, T \ {Some(T)})
    BY <2>1, SumChosen
  <2>3. f[Some(T)] \in Int BY <2>1, <2>2
  <2>4. SumFunctionOnSet(f, T \ {Some(T)}) \notin Int BY <2>2, <2>3
  <2> QED BY <2>1, <2>2, <2>4
<1>3. Bad = {}
  <2> HIDE DEF Bad
  <2>1. Bad \in SUBSET SUBSET S BY DEF Bad
  <2> QED BY <1>1, <1>2, <2>1, SubsetInduction
<1> QED BY <1>3

\* Any element may be taken out first: the order of a sum does not matter.
LEMMA SumRemove ==
  ASSUME NEW f, NEW S, IsFiniteSet(S), \A y \in S : f[y] \in Int, NEW x \in S
  PROVE  SumFunctionOnSet(f, S) = f[x] + SumFunctionOnSet(f, S \ {x})
<1> DEFINE Off(T, y) == SumFunctionOnSet(f, T) # f[y] + SumFunctionOnSet(f, T \ {y})
           Bad == {T \in SUBSET S : \E y \in T : Off(T, y)}
<1>1. {} \notin Bad OBVIOUS
<1>2. ASSUME NEW T \in Bad PROVE \E y \in T : T \ {y} \in Bad
  <2>1. T \in SUBSET S /\ T # {} /\ IsFiniteSet(T) BY FS_Subset
  <2>2. PICK y \in T : Off(T, y) OBVIOUS
  <2> DEFINE c == Some(T)
             U == T \ {c}
             V == T \ {y}
             W == T \ {c, y}
  <2>3. c \in T /\ SumFunctionOnSet(f, T) = f[c] + SumFunctionOnSet(f, U) BY <2>1, SumChosen
  <2>4. c # y BY <2>2, <2>3
  <2>5. y \in U /\ c \in V /\ U \ {y} = W /\ V \ {c} = W /\ U \in SUBSET S /\ V \in SUBSET S
    BY <2>1, <2>3, <2>4
  <2> SUFFICES ASSUME U \notin Bad, V \notin Bad PROVE FALSE BY <2>2, <2>3
  <2>6. SumFunctionOnSet(f, U) = f[y] + SumFunctionOnSet(f, W) BY <2>5
  <2>7. SumFunctionOnSet(f, V) = f[c] + SumFunctionOnSet(f, W) BY <2>5
  <2>8. IsFiniteSet(W) /\ W \in SUBSET S BY <2>1, FS_Subset
  <2>9. f[c] \in Int /\ f[y] \in Int /\ SumFunctionOnSet(f, W) \in Int
    <3> HIDE DEF W, c
    <3>1. \A z \in W : f[z] \in Int BY <2>8
    <3> QED BY <2>1, <2>3, <2>8, <3>1, SumInt
  <2>10. SumFunctionOnSet(f, T) # f[y] + SumFunctionOnSet(f, V) BY <2>2
  <2> HIDE DEF U, V, W, c, Bad, Off
  <2> QED BY <2>3, <2>6, <2>7, <2>9, <2>10
<1>3. Bad = {}
  <2> HIDE DEF Bad
  <2>1. Bad \in SUBSET SUBSET S BY DEF Bad
  <2> QED BY <1>1, <1>2, <2>1, SubsetInduction
<1> QED BY <1>3

LEMMA SumAdd ==
  ASSUME NEW f, NEW S, IsFiniteSet(S), NEW x, x \notin S, \A y \in S \cup {x} : f[y] \in Int
  PROVE  SumFunctionOnSet(f, S \cup {x}) = f[x] + SumFunctionOnSet(f, S)
<1> DEFINE T == S \cup {x}
<1>1. IsFiniteSet(T) /\ x \in T /\ T \ {x} = S BY FS_AddElement
<1>2. \A y \in T : f[y] \in Int OBVIOUS
<1> HIDE DEF T
<1>3. SumFunctionOnSet(f, T) = f[x] + SumFunctionOnSet(f, T \ {x}) BY <1>1, <1>2, SumRemove
<1> QED BY <1>1, <1>3 DEF T

LEMMA SumSingle ==
  ASSUME NEW f, NEW x, f[x] \in Int PROVE SumFunctionOnSet(f, {x}) = f[x]
<1>1. SumFunctionOnSet(f, {} \cup {x}) = f[x] + SumFunctionOnSet(f, {})
  BY FS_EmptySet, SumAdd
<1> QED BY <1>1, SumEmpty

-----------------------------------------------------------------------------
(* Bounds.                                                                  *)

\* Sums of smaller numbers are smaller.
LEMMA SumMonotone ==
  ASSUME NEW f, NEW g, NEW S, IsFiniteSet(S),
         \A x \in S : f[x] \in Int /\ g[x] \in Int /\ f[x] <= g[x]
  PROVE  SumFunctionOnSet(f, S) <= SumFunctionOnSet(g, S)
<1> DEFINE Bad == {T \in SUBSET S : ~ (SumFunctionOnSet(f, T) <= SumFunctionOnSet(g, T))}
<1>1. {} \notin Bad BY SumEmpty
<1>2. ASSUME NEW T \in Bad PROVE \E x \in T : T \ {x} \in Bad
  <2>1. T \in SUBSET S /\ T # {} /\ IsFiniteSet(T) BY <1>1, FS_Subset
  <2>2. PICK x \in T : TRUE BY <2>1
  <2> DEFINE U == T \ {x}
  <2>3. IsFiniteSet(U) /\ U \in SUBSET S BY <2>1, FS_RemoveElement
  <2> HIDE DEF Bad, U
  <2>4. SumFunctionOnSet(f, T) = f[x] + SumFunctionOnSet(f, U) BY <2>1, <2>2, SumRemove DEF U
  <2>5. SumFunctionOnSet(g, T) = g[x] + SumFunctionOnSet(g, U) BY <2>1, <2>2, SumRemove DEF U
  <2>6. SumFunctionOnSet(f, U) \in Int /\ SumFunctionOnSet(g, U) \in Int BY <2>3, SumInt
  <2>7. f[x] \in Int /\ g[x] \in Int /\ f[x] <= g[x] BY <2>1, <2>2
  <2>8. ~ (SumFunctionOnSet(f, T) <= SumFunctionOnSet(g, T)) BY DEF Bad
  <2>9. ~ (SumFunctionOnSet(f, U) <= SumFunctionOnSet(g, U)) BY <2>4, <2>5, <2>6, <2>7, <2>8
  <2> QED BY <2>2, <2>3, <2>9 DEF Bad, U
<1>3. Bad = {}
  <2> HIDE DEF Bad
  <2>1. Bad \in SUBSET SUBSET S BY DEF Bad
  <2> QED BY <1>1, <1>2, <2>1, SubsetInduction
<1> QED BY <1>3

\* A sum of sums.
LEMMA SumPlus ==
  ASSUME NEW f, NEW g, NEW h, NEW S, IsFiniteSet(S),
         \A x \in S : f[x] \in Int /\ g[x] \in Int /\ h[x] = f[x] + g[x]
  PROVE  SumFunctionOnSet(h, S) = SumFunctionOnSet(f, S) + SumFunctionOnSet(g, S)
<1> DEFINE Bad == {T \in SUBSET S : SumFunctionOnSet(h, T)
                                    # SumFunctionOnSet(f, T) + SumFunctionOnSet(g, T)}
<1>1. {} \notin Bad BY SumEmpty
<1>2. ASSUME NEW T \in Bad PROVE \E x \in T : T \ {x} \in Bad
  <2>1. T \in SUBSET S /\ T # {} /\ IsFiniteSet(T) BY <1>1, FS_Subset
  <2>2. PICK x \in T : TRUE BY <2>1
  <2> DEFINE U == T \ {x}
  <2>3. IsFiniteSet(U) /\ U \in SUBSET S BY <2>1, FS_RemoveElement
  <2>n. \A y \in S : h[y] \in Int OBVIOUS
  <2> HIDE DEF Bad, U
  <2>4. SumFunctionOnSet(f, T) = f[x] + SumFunctionOnSet(f, U) BY <2>1, <2>2, SumRemove DEF U
  <2>5. SumFunctionOnSet(g, T) = g[x] + SumFunctionOnSet(g, U) BY <2>1, <2>2, SumRemove DEF U
  <2>6. SumFunctionOnSet(h, T) = h[x] + SumFunctionOnSet(h, U)
    BY <2>1, <2>2, <2>n, SumRemove DEF U
  <2>7. /\ SumFunctionOnSet(f, U) \in Int /\ SumFunctionOnSet(g, U) \in Int
        /\ SumFunctionOnSet(h, U) \in Int
    BY <2>3, <2>n, SumInt
  <2>8. f[x] \in Int /\ g[x] \in Int /\ h[x] = f[x] + g[x] BY <2>1, <2>2
  <2>9. SumFunctionOnSet(h, T) # SumFunctionOnSet(f, T) + SumFunctionOnSet(g, T) BY DEF Bad
  <2>10. SumFunctionOnSet(h, U) # SumFunctionOnSet(f, U) + SumFunctionOnSet(g, U)
    BY <2>4, <2>5, <2>6, <2>7, <2>8, <2>9
  <2> QED BY <2>2, <2>3, <2>10 DEF Bad, U
<1>3. Bad = {}
  <2> HIDE DEF Bad
  <2>1. Bad \in SUBSET SUBSET S BY DEF Bad
  <2> QED BY <1>1, <1>2, <2>1, SubsetInduction
<1> QED BY <1>3

\* A bound on the elements bounds the sum.
LEMMA SumBound ==
  ASSUME NEW f, NEW S, IsFiniteSet(S), NEW m \in Int, \A x \in S : f[x] \in Int /\ f[x] <= m
  PROVE  SumFunctionOnSet(f, S) <= Cardinality(S) * m
<1> DEFINE Bad == {T \in SUBSET S : ~ (SumFunctionOnSet(f, T) <= Cardinality(T) * m)}
<1>1. {} \notin Bad BY SumEmpty, FS_EmptySet
<1>2. ASSUME NEW T \in Bad PROVE \E x \in T : T \ {x} \in Bad
  <2>1. T \in SUBSET S /\ T # {} /\ IsFiniteSet(T) BY <1>1, FS_Subset
  <2>2. PICK x \in T : TRUE BY <2>1
  <2> DEFINE U == T \ {x}
  <2>3. IsFiniteSet(U) /\ U \in SUBSET S BY <2>1, FS_RemoveElement
  <2>4. /\ Cardinality(U) = Cardinality(T) - 1
        /\ Cardinality(U) \in Int /\ Cardinality(T) \in Int
    BY <2>1, <2>2, <2>3, FS_RemoveElement, FS_CardinalityType
  <2> HIDE DEF Bad, U
  <2>5. SumFunctionOnSet(f, T) = f[x] + SumFunctionOnSet(f, U) BY <2>1, <2>2, SumRemove DEF U
  <2>6. SumFunctionOnSet(f, U) \in Int BY <2>3, SumInt
  <2>7. f[x] \in Int /\ f[x] <= m BY <2>1, <2>2
  <2>8. ~ (SumFunctionOnSet(f, T) <= Cardinality(T) * m) BY DEF Bad
  <2>9. Cardinality(T) * m = Cardinality(U) * m + m
    <3>1. \A a, b \in Int : a = b - 1 => b * m = a * m + m OBVIOUS
    <3> QED BY <2>4, <3>1
  <2>10. Cardinality(U) * m \in Int BY <2>4
  <2>11. ~ (SumFunctionOnSet(f, U) <= Cardinality(U) * m)
    BY <2>5, <2>6, <2>7, <2>8, <2>9, <2>10
  <2> QED BY <2>2, <2>3, <2>11 DEF Bad, U
<1>3. Bad = {}
  <2> HIDE DEF Bad
  <2>1. Bad \in SUBSET SUBSET S BY DEF Bad
  <2> QED BY <1>1, <1>2, <2>1, SubsetInduction
<1> QED BY <1>3

LEMMA SumZero ==
  ASSUME NEW f, NEW S, IsFiniteSet(S), \A x \in S : f[x] = 0
  PROVE  SumFunctionOnSet(f, S) = 0
<1> DEFINE z == [x \in S |-> f[x] + f[x]]
<1>1. SumFunctionOnSet(z, S) = SumFunctionOnSet(f, S) + SumFunctionOnSet(f, S) BY SumPlus
<1>2. SumFunctionOnSet(z, S) = SumFunctionOnSet(f, S) BY SumEqual
<1>3. SumFunctionOnSet(f, S) \in Int BY SumInt
<1> DEFINE a == SumFunctionOnSet(f, S)
           b == SumFunctionOnSet(z, S)
<1>4. a \in Int /\ b = a + a /\ b = a BY <1>1, <1>2, <1>3
<1> HIDE DEF a, b, z
<1>5. a = 0 BY <1>4
<1> QED BY <1>5 DEF a

LEMMA SumNat ==
  ASSUME NEW f, NEW S, IsFiniteSet(S), \A x \in S : f[x] \in Nat
  PROVE  SumFunctionOnSet(f, S) \in Nat
<1> DEFINE z == [x \in S |-> 0]
<1>1. SumFunctionOnSet(z, S) <= SumFunctionOnSet(f, S) BY SumMonotone
<1>2. SumFunctionOnSet(z, S) = 0 BY SumZero
<1>3. SumFunctionOnSet(f, S) \in Int BY SumInt
<1> HIDE DEF z
<1> QED BY <1>1, <1>2, <1>3

-----------------------------------------------------------------------------
(* Parts of a set, changed elements, and other names for the same elements.  *)

\* The elements outside of a part count as nothing.
LEMMA SumPart ==
  ASSUME NEW f, NEW g, NEW S, IsFiniteSet(S), NEW T \in SUBSET S,
         \A x \in S : f[x] \in Int,
         \A x \in S : g[x] = IF x \in T THEN f[x] ELSE 0
  PROVE  SumFunctionOnSet(f, T) = SumFunctionOnSet(g, S)
<1> DEFINE Bad == {U \in SUBSET S : SumFunctionOnSet(f, U \cap T) # SumFunctionOnSet(g, U)}
<1>1. {} \notin Bad
  <2>1. {} \cap T = {} OBVIOUS
  <2> QED BY <2>1, SumEmpty
<1>2. ASSUME NEW U \in Bad PROVE \E x \in U : U \ {x} \in Bad
  <2>1. U \in SUBSET S /\ U # {} /\ IsFiniteSet(U) BY <1>1, FS_Subset
  <2>2. PICK x \in U : TRUE BY <2>1
  <2> DEFINE V == U \ {x}
  <2>3. /\ IsFiniteSet(V) /\ V \in SUBSET S
        /\ IsFiniteSet(U \cap T) /\ IsFiniteSet(V \cap T)
    BY <2>1, FS_RemoveElement, FS_Subset
  <2>4. SumFunctionOnSet(f, U \cap T) # SumFunctionOnSet(g, U) BY <1>2
  <2>n. \A y \in S : g[y] \in Int OBVIOUS
  <2>5. SumFunctionOnSet(g, U) = g[x] + SumFunctionOnSet(g, V) BY <2>1, <2>2, <2>n, SumRemove
  <2>6. SumFunctionOnSet(g, V) \in Int BY <2>3, <2>n, SumInt
  <2>7. SumFunctionOnSet(f, U \cap T) = g[x] + SumFunctionOnSet(f, V \cap T)
    <3> DEFINE P == U \cap T
    <3>1. CASE x \in T
      <4>1. x \in P /\ P \ {x} = V \cap T /\ \A y \in P : f[y] \in Int BY <2>1, <2>2, <3>1
      <4> HIDE DEF P
      <4>2. SumFunctionOnSet(f, P) = f[x] + SumFunctionOnSet(f, P \ {x})
        BY <2>3, <4>1, SumRemove DEF P
      <4> QED BY <2>1, <2>2, <3>1, <4>1, <4>2 DEF P
    <3>2. CASE x \notin T
      <4>1. U \cap T = V \cap T /\ g[x] = 0 BY <2>1, <2>2, <3>2
      <4>2. SumFunctionOnSet(f, V \cap T) \in Int
        <5>1. \A y \in V \cap T : f[y] \in Int OBVIOUS
        <5> QED BY <2>3, <5>1, SumInt
      <4>3. SumFunctionOnSet(f, U \cap T) = SumFunctionOnSet(f, V \cap T) BY <4>1
      <4> HIDE DEF V
      <4> QED BY <4>1, <4>2, <4>3
    <3> QED BY <3>1, <3>2
  <2> HIDE DEF V, Bad
  <2>8. SumFunctionOnSet(f, V \cap T) # SumFunctionOnSet(g, V) BY <2>4, <2>5, <2>7
  <2> QED BY <2>2, <2>3, <2>8 DEF Bad, V
<1>3. Bad = {}
  <2> HIDE DEF Bad
  <2>1. Bad \in SUBSET SUBSET S BY DEF Bad
  <2> QED BY <1>1, <1>2, <2>1, SubsetInduction
<1>4. S \cap T = T OBVIOUS
<1>5. S \notin Bad BY <1>3
<1> QED BY <1>4, <1>5

\* A part of natural numbers adds up to less.
LEMMA SumSubset ==
  ASSUME NEW f, NEW S, IsFiniteSet(S), NEW T \in SUBSET S, \A x \in S : f[x] \in Nat
  PROVE  SumFunctionOnSet(f, T) <= SumFunctionOnSet(f, S)
<1> DEFINE g == [x \in S |-> IF x \in T THEN f[x] ELSE 0]
<1>1. SumFunctionOnSet(f, T) = SumFunctionOnSet(g, S) BY SumPart
<1>2. SumFunctionOnSet(g, S) <= SumFunctionOnSet(f, S) BY SumMonotone
<1> QED BY <1>1, <1>2

\* One element changes the sum by as much as it changes itself.
LEMMA SumChange ==
  ASSUME NEW f, NEW g, NEW S, IsFiniteSet(S), NEW x \in S,
         \A y \in S : f[y] \in Int /\ g[y] \in Int,
         \A y \in S \ {x} : g[y] = f[y]
  PROVE  SumFunctionOnSet(g, S) = SumFunctionOnSet(f, S) - f[x] + g[x]
<1> DEFINE T == S \ {x}
<1>1. IsFiniteSet(T) BY FS_RemoveElement
<1>2. SumFunctionOnSet(f, S) = f[x] + SumFunctionOnSet(f, T) BY SumRemove
<1>3. SumFunctionOnSet(g, S) = g[x] + SumFunctionOnSet(g, T) BY SumRemove
<1>4. SumFunctionOnSet(f, T) = SumFunctionOnSet(g, T) BY <1>1, SumEqual
<1>5. SumFunctionOnSet(f, T) \in Int BY <1>1, SumInt
<1> HIDE DEF T
<1> QED BY <1>2, <1>3, <1>4, <1>5

\* b names each element of S once, for an element of T of the same value.
Renames(b, g, T, f, S) ==
  /\ \A x \in T : b[x] \in S
  /\ \A x, y \in T : b[x] = b[y] => x = y
  /\ \A s \in S : \E x \in T : b[x] = s
  /\ \A x \in T : f[b[x]] \in Int /\ g[x] = f[b[x]]

\* The same elements under other names add up to the same.
LEMMA SumRename ==
  ASSUME NEW f, NEW S, IsFiniteSet(S), NEW g, NEW T, IsFiniteSet(T), NEW b,
         Renames(b, g, T, f, S)
  PROVE  SumFunctionOnSet(g, T) = SumFunctionOnSet(f, S)
<1> USE DEF Renames
<1> DEFINE Im(U) == {b[x] : x \in U}
           Bad   == {U \in SUBSET T : SumFunctionOnSet(g, U) # SumFunctionOnSet(f, Im(U))}
<1>1. {} \notin Bad
  <2>1. Im({}) = {} OBVIOUS
  <2> QED BY <2>1, SumEmpty
<1>2. ASSUME NEW U \in Bad PROVE \E x \in U : U \ {x} \in Bad
  <2>1. U \in SUBSET T /\ U # {} /\ IsFiniteSet(U) BY <1>1, FS_Subset
  <2>2. PICK x \in U : TRUE BY <2>1
  <2> DEFINE V == U \ {x}
  <2>3. Im(U) \ {b[x]} = Im(V) /\ b[x] \in Im(U) /\ Im(U) \in SUBSET S BY <2>1, <2>2
  <2>4. IsFiniteSet(Im(U)) BY <2>3, FS_Subset
  <2>5. SumFunctionOnSet(g, U) # SumFunctionOnSet(f, Im(U)) BY <1>2
  <2>6. SumFunctionOnSet(g, U) = g[x] + SumFunctionOnSet(g, V)
    <3>1. \A y \in U : g[y] \in Int BY <2>1
    <3> QED BY <2>1, <2>2, <3>1, SumRemove
  <2>7. SumFunctionOnSet(f, Im(U)) = f[b[x]] + SumFunctionOnSet(f, Im(V))
    <3>1. \A s \in Im(U) : f[s] \in Int BY <2>1
    <3> HIDE DEF Im, V
    <3> QED BY <2>3, <2>4, <3>1, SumRemove
  <2>8. g[x] = f[b[x]] BY <2>1, <2>2
  <2> HIDE DEF V, Bad, Im
  <2>9. SumFunctionOnSet(g, V) # SumFunctionOnSet(f, Im(V)) BY <2>5, <2>6, <2>7, <2>8
  <2> QED BY <2>1, <2>2, <2>9 DEF Bad, V
<1>3. Bad = {}
  <2> HIDE DEF Bad
  <2>1. Bad \in SUBSET SUBSET T BY DEF Bad
  <2> QED BY <1>1, <1>2, <2>1, SubsetInduction
<1>4. Im(T) = S OBVIOUS
<1>5. T \notin Bad BY <1>3
<1> QED BY <1>4, <1>5

-----------------------------------------------------------------------------
(* Sets cut into parts, and images of sets.                                  *)

LEMMA CardinalityOfParts ==
  ASSUME NEW S, IsFiniteSet(S), NEW T \in SUBSET S
  PROVE  /\ Cardinality(T) \in Nat /\ Cardinality(S \ T) \in Nat /\ Cardinality(S) \in Nat
         /\ Cardinality(S \ T) = Cardinality(S) - Cardinality(T)
<1>1. IsFiniteSet(T) /\ IsFiniteSet(S \ T) BY FS_Subset, FS_Difference
<1>2. S \cap T = T OBVIOUS
<1>3. Cardinality(S \ T) = Cardinality(S) - Cardinality(T) BY <1>2, FS_Difference
<1> QED BY <1>1, <1>3, FS_CardinalityType

LEMMA ImageIsFinite ==
  ASSUME NEW S, IsFiniteSet(S), NEW t
  PROVE  IsFiniteSet({t[x] : x \in S})
<1> DEFINE T == {t[x] : x \in S}
           f == [x \in S |-> t[x]]
<1>1. f \in [S -> T] /\ \A y \in T : \E x \in S : f[x] = y OBVIOUS
<1>2. f \in Surjection(S, T)
  <2> HIDE DEF f, T
  <2> QED BY <1>1, Fun_IsSurj
<1> QED BY <1>2, FS_Surjection

LEMMA ImageOneToOne ==
  ASSUME NEW S, IsFiniteSet(S), NEW t, \A x, y \in S : t[x] = t[y] => x = y
  PROVE  Cardinality({t[x] : x \in S}) = Cardinality(S)
<1> DEFINE T == {t[x] : x \in S}
           f == [x \in S |-> t[x]]
<1>1. f \in [S -> T] /\ \A y \in T : \E x \in S : f[x] = y OBVIOUS
<1>2. \A x, y \in S : f[x] = f[y] => x = y OBVIOUS
<1>3. f \in Bijection(S, T)
  <2> HIDE DEF f, T
  <2> QED BY <1>1, <1>2, Fun_IsBij
<1> HIDE DEF T
<1>4. Cardinality(T) = Cardinality(S) BY <1>3, FS_Bijection DEF ExistsBijection
<1> QED BY <1>4 DEF T

\* The sums of the parts add up to the sum of the whole: t tells the part of an element.
LEMMA SumParts ==
  ASSUME NEW f, NEW S, IsFiniteSet(S), \A x \in S : f[x] \in Int, NEW t, NEW K,
         IsFiniteSet(K), \A x \in S : t[x] \in K
  PROVE  SumFunctionOnSet([k \in K |-> SumFunctionOnSet(f, {x \in S : t[x] = k})], K)
           = SumFunctionOnSet(f, S)
<1> DEFINE part(U, k) == {x \in U : t[x] = k}
           g(U)       == [k \in K |-> SumFunctionOnSet(f, part(U, k))]
           Bad        == {U \in SUBSET S : SumFunctionOnSet(g(U), K) # SumFunctionOnSet(f, U)}
<1>1. {} \notin Bad
  <2>1. \A k \in K : part({}, k) = {} OBVIOUS
  <2>2. \A k \in K : g({})[k] = 0 BY <2>1, SumEmpty
  <2> HIDE DEF g
  <2>3. SumFunctionOnSet(g({}), K) = 0 BY <2>2, SumZero
  <2> QED BY <2>3, SumEmpty
<1>2. ASSUME NEW U \in Bad PROVE \E x \in U : U \ {x} \in Bad
  <2>1. U \in SUBSET S /\ U # {} BY <1>1
  <2>2. PICK x \in U : TRUE BY <2>1
  <2> DEFINE V == U \ {x}
             c == t[x]
  <2>3. IsFiniteSet(U) /\ IsFiniteSet(V) /\ V \in SUBSET S BY <2>1, FS_Subset
  <2>4. c \in K /\ f[x] \in Int BY <2>1, <2>2
  <2>5. \A W \in SUBSET S : \A k \in K : /\ IsFiniteSet(part(W, k))
                                         /\ \A y \in part(W, k) : f[y] \in Int
    <3>1. \A W \in SUBSET S : \A k \in K : part(W, k) \in SUBSET S OBVIOUS
    <3> HIDE DEF part
    <3> QED BY <3>1, FS_Subset
  <2>6. \A W \in SUBSET S : \A k \in K : g(W)[k] \in Int BY <2>5, SumInt
  <2>7. \A k \in K \ {c} : g(U)[k] = g(V)[k]
    <3>1. \A k \in K \ {c} : part(U, k) = part(V, k) OBVIOUS
    <3> QED BY <3>1
  <2>8. g(U)[c] = f[x] + g(V)[c]
    <3> DEFINE P == part(U, c)
    <3>1. x \in P /\ P \ {x} = part(V, c) BY <2>2
    <3>2. IsFiniteSet(P) /\ \A y \in P : f[y] \in Int BY <2>1, <2>4, <2>5
    <3>3. g(U)[c] = SumFunctionOnSet(f, P) /\ g(V)[c] = SumFunctionOnSet(f, part(V, c))
      BY <2>4
    <3> HIDE DEF P, g, part, V
    <3> QED BY <3>1, <3>2, <3>3, SumRemove
  <2>9. SumFunctionOnSet(f, U) = f[x] + SumFunctionOnSet(f, V)
    <3>1. \A y \in U : f[y] \in Int BY <2>1
    <3> QED BY <2>2, <2>3, <3>1, SumRemove
  <2>10. SumFunctionOnSet(g(U), K) = SumFunctionOnSet(g(V), K) - g(V)[c] + g(U)[c]
    <3> HIDE DEF g, V
    <3> QED BY <2>1, <2>3, <2>4, <2>6, <2>7, SumChange
  <2>11. SumFunctionOnSet(g(V), K) \in Int /\ g(V)[c] \in Int
    <3> HIDE DEF g, V
    <3> QED BY <2>3, <2>4, <2>6, SumInt
  <2>12. SumFunctionOnSet(g(U), K) # SumFunctionOnSet(f, U) BY <1>2
  <2> HIDE DEF g, V, Bad, c
  <2>13. SumFunctionOnSet(g(U), K) = SumFunctionOnSet(g(V), K) + f[x]
    BY <2>4, <2>8, <2>10, <2>11
  <2>14. SumFunctionOnSet(g(V), K) # SumFunctionOnSet(f, V)
    BY <2>4, <2>9, <2>11, <2>12, <2>13
  <2> QED BY <2>2, <2>3, <2>14 DEF Bad, V
<1>3. Bad = {}
  <2> HIDE DEF Bad
  <2>1. Bad \in SUBSET SUBSET S BY DEF Bad
  <2> QED BY <1>1, <1>2, <2>1, SubsetInduction
<1>4. S \notin Bad BY <1>3
<1> QED BY <1>4

-----------------------------------------------------------------------------
(* What the models take from FiniteSetsExt and Functions.                    *)

\* The smaller and the greater of two numbers.
LEMMA MinOfTwo ==
  ASSUME NEW x \in Int, NEW y \in Int
  PROVE  Min({x, y}) = IF x <= y THEN x ELSE y
<1> DEFINE m == IF x <= y THEN x ELSE y
<1>1. m \in {x, y} /\ \A z \in {x, y} : m <= z OBVIOUS
<1>2. \A n \in {x, y} : (\A z \in {x, y} : n <= z) => n = m OBVIOUS
<1> HIDE DEF m
<1>3. Min({x, y}) = m BY <1>1, <1>2 DEF Min
<1> QED BY <1>3 DEF m

LEMMA MaxOfTwo ==
  ASSUME NEW x \in Int, NEW y \in Int
  PROVE  Max({x, y}) = IF x >= y THEN x ELSE y
<1> DEFINE m == IF x >= y THEN x ELSE y
<1>1. m \in {x, y} /\ \A z \in {x, y} : m >= z OBVIOUS
<1>2. \A n \in {x, y} : (\A z \in {x, y} : n >= z) => n = m OBVIOUS
<1> HIDE DEF m
<1>3. Max({x, y}) = m BY <1>1, <1>2 DEF Max
<1> QED BY <1>3 DEF m

\* The sum of a function is the sum over its domain.
LEMMA SumWhole == ASSUME NEW f PROVE SumFunction(f) = SumFunctionOnSet(f, DOMAIN f)
BY DEF SumFunction

-----------------------------------------------------------------------------
(* Induction over an interval, powers of two, and division. *)

LEMMA Smallest ==
  ASSUME NEW Bad \in SUBSET Nat, Bad # {}
  PROVE  \E k \in Bad : \A j \in Bad : k <= j
<1>1. IsWellFoundedOn(OpToRel(<, Nat), Nat) BY NatLessThanWellFounded
<1>2. PICK k \in Bad : \A j \in Bad : <<j, k>> \notin OpToRel(<, Nat) BY <1>1, WFMin
<1>3. \A j \in Bad : ~(j < k) BY <1>2 DEF OpToRel
<1> QED BY <1>3

LEMMA NoCounterexample ==
  ASSUME NEW N \in Nat, NEW Bad \in SUBSET (0..N), 0 \notin Bad,
         \A k \in 1..N : k \in Bad => k - 1 \in Bad
  PROVE  Bad = {}
<1> SUFFICES ASSUME Bad # {} PROVE FALSE OBVIOUS
<1>1. Bad \in SUBSET Nat OBVIOUS
<1>2. PICK k \in Bad : \A j \in Bad : k <= j BY <1>1, Smallest
<1>3. k \in 1..N OBVIOUS
<1>4. k - 1 \in Bad BY <1>3
<1> QED BY <1>2, <1>3, <1>4

LEMMA PowerIsSize ==
  ASSUME NEW n \in Nat
  PROVE  Cardinality(SUBSET (1..n)) = 2^n /\ IsFiniteSet(SUBSET (1..n)) /\ 2^n \in Nat \ {0}
<1>1. IsFiniteSet(1..n) /\ Cardinality(1..n) = n BY FS_Interval
<1>2. Cardinality(SUBSET (1..n)) = 2^n /\ IsFiniteSet(SUBSET (1..n)) BY <1>1, FS_SUBSET
<1>3. SUBSET (1..n) # {} OBVIOUS
<1>4. Cardinality(SUBSET (1..n)) \in Nat /\ Cardinality(SUBSET (1..n)) # 0
  BY <1>2, <1>3, FS_CardinalityType, FS_EmptySet
<1> QED BY <1>2, <1>4

LEMMA PowerDoubles ==
  ASSUME NEW n \in Nat PROVE 2^(n + 1) = 2 * 2^n
<1> DEFINE S == 1..n
           A == SUBSET S
           B == {U \cup {n + 1} : U \in A}
           f == [U \in A |-> U \cup {n + 1}]
<1>1. n + 1 \notin S /\ 1..(n + 1) = S \cup {n + 1} OBVIOUS
<1>2. SUBSET (1..(n + 1)) = A \cup B
  <2> HIDE DEF S
  <2>1. A \cup B \subseteq SUBSET (S \cup {n + 1}) OBVIOUS
  <2>2. ASSUME NEW U \in SUBSET (S \cup {n + 1}) PROVE U \in A \cup B
    <3>1. CASE n + 1 \notin U BY <3>1
    <3>2. CASE n + 1 \in U
      <4>1. U \ {n + 1} \in A /\ U = (U \ {n + 1}) \cup {n + 1} BY <3>2
      <4> QED BY <4>1
    <3> QED BY <3>1, <3>2
  <2> QED BY <1>1, <2>1, <2>2
<1>3. A \cap B = {} BY <1>1
<1>4. Cardinality(A) = 2^n /\ IsFiniteSet(A) /\ 2^n \in Nat \ {0}
  BY PowerIsSize
<1>5. f \in Bijection(A, B)
  <2> HIDE DEF S
  <2>1. \A U, V \in A : f[U] = f[V] => U = V BY <1>1
  <2>2. f \in [A -> B] /\ \A V \in B : \E U \in A : f[U] = V OBVIOUS
  <2> HIDE DEF f, A, B
  <2> QED BY <2>1, <2>2, Fun_IsBij
<1> HIDE DEF A, B, f
<1>6. IsFiniteSet(B) /\ Cardinality(B) = Cardinality(A) BY <1>4, <1>5, FS_Bijection DEF ExistsBijection
<1>7. Cardinality(A \cup B) = Cardinality(A) + Cardinality(B) - Cardinality(A \cap B)
  BY <1>4, <1>6, FS_Union
<1>8. Cardinality(A \cap B) = 0 BY <1>3, FS_EmptySet
<1>9. Cardinality(A \cup B) = 2^(n + 1)
  <2>1. n + 1 \in Nat OBVIOUS
  <2> QED BY <1>2, <2>1, PowerIsSize
<1> QED BY <1>4, <1>6, <1>7, <1>8, <1>9

LEMMA Division ==
  ASSUME NEW y \in Nat, NEW d \in Nat \ {0}
  PROVE  /\ y \div d \in Nat
         /\ d * (y \div d) <= y /\ y < d * (y \div d) + d
OBVIOUS

LEMMA DivisionIs ==
  ASSUME NEW y \in Nat, NEW d \in Nat \ {0}, NEW q \in Nat, d * q <= y, y < d * q + d
  PROVE  y \div d = q
<1> DEFINE p == y \div d
<1>1. p \in Nat /\ d * p <= y /\ y < d * p + d BY Division
<1> HIDE DEF p
<1>2. ASSUME NEW u \in Nat, NEW v \in Nat, u + 1 <= v PROVE d * u + d <= d * v
  <2>1. d * (v - (u + 1)) \in Nat BY <1>2
  <2>2. d * (v - (u + 1)) = d * v - (d * u + d) BY <1>2
  <2>3. d * u \in Nat /\ d * v \in Nat BY <1>2
  <2> DEFINE x == d * u
             z == d * v
             w == d * (v - (u + 1))
  <2> HIDE DEF x, z, w
  <2>4. x + d <= z BY <2>1, <2>2, <2>3 DEF x, z, w
  <2> QED BY <2>4 DEF x, z
<1>3. ASSUME p < q PROVE FALSE
  <2>1. d * p + d <= d * q BY <1>1, <1>2, <1>3
  <2>2. d * p \in Nat /\ d * q \in Nat BY <1>1
  <2> QED BY <1>1, <2>1, <2>2
<1>4. ASSUME q < p PROVE FALSE
  <2>1. d * q + d <= d * p BY <1>1, <1>2, <1>4
  <2>2. d * p \in Nat /\ d * q \in Nat BY <1>1
  <2> QED BY <1>1, <2>1, <2>2
<1>5. p = q BY <1>1, <1>3, <1>4
<1> QED BY <1>5 DEF p

-----------------------------------------------------------------------------
(* Division of any integer.                                                 *)

LEMMA IntDivision ==
  ASSUME NEW y \in Int, NEW d \in Nat \ {0}
  PROVE  y \div d \in Int /\ y % d \in 0..d - 1 /\ y = d * (y \div d) + (y % d)
OBVIOUS

LEMMA OneDivision ==
  ASSUME NEW d \in Nat \ {0}, NEW q \in Int, NEW r \in 0..d - 1, NEW p \in Int, NEW s \in 0..d - 1,
         d * q + r = d * p + s
  PROVE  q = p /\ r = s
<1>1. ASSUME NEW u \in Int, NEW v \in Int, u < v PROVE d * u + d <= d * v
  <2>1. v - u - 1 \in Nat BY <1>1
  <2>2. d * (v - u - 1) \in Nat BY <2>1
  <2>3. d * (v - u - 1) = d * v - d * u - d OBVIOUS
  <2>4. d * v \in Int /\ d * u \in Int OBVIOUS
  <2> DEFINE x == d * u
             y == d * v
  <2> HIDE DEF x, y
  <2>5. y - x - d \in Nat BY <2>2, <2>3 DEF x, y
  <2>6. x + d <= y BY <2>4, <2>5 DEF x, y
  <2> QED BY <2>6 DEF x, y
<1> DEFINE a == d * q
           b == d * p
<1>2. a \in Int /\ b \in Int OBVIOUS
<1>3. q < p => a + d <= b BY <1>1
<1>4. p < q => b + d <= a BY <1>1
<1>5. a + r = b + s OBVIOUS
<1> HIDE DEF a, b
<1>6. ~(q < p) /\ ~(p < q) BY <1>2, <1>3, <1>4, <1>5
<1>7. q = p BY <1>6
<1>8. a = b BY <1>7 DEF a, b
<1>9. r = s BY <1>2, <1>5, <1>8
<1> QED BY <1>7, <1>9

LEMMA Shift ==
  ASSUME NEW d \in Nat \ {0}, NEW k \in Nat, NEW m \in Nat
  PROVE  (d * k + m) % d = m % d
<1> DEFINE q == m \div d
<1>1. q \in Nat /\ d * q <= m /\ m < d * q + d BY Division
<1>2. m % d = m - d * q OBVIOUS
<1> HIDE DEF q
<1>3. d * k \in Nat /\ d * q \in Nat /\ d * (k + q) = d * k + d * q /\ k + q \in Nat BY <1>1
<1> DEFINE x == d * k
           z == d * q
           w == d * (k + q)
           y == x + m
<1> HIDE DEF x, z, w
<1>4. y \in Nat /\ w <= y /\ y < w + d BY <1>1, <1>3 DEF x, z, w
<1>5. y \div d = k + q
  <2> HIDE DEF y
  <2> QED BY <1>3, <1>4, DivisionIs DEF w
<1>6. y % d = y - d * (y \div d)
  <2> HIDE DEF y
  <2> QED BY <1>4
<1>7. y % d = m - z BY <1>1, <1>3, <1>5, <1>6 DEF x, z, w
<1> QED BY <1>2, <1>7 DEF x, z

LEMMA Remainder ==
  ASSUME NEW m \in Nat, NEW d \in Nat \ {0}
  PROVE  m % d \in 0..d - 1 /\ (m < d => m % d = m)
OBVIOUS

LEMMA ProductOfRemainders ==
  ASSUME NEW d \in Nat \ {0}, NEW a \in Nat, NEW b \in Nat
  PROVE  ((a % d) * (b % d)) % d = (a * b) % d
<1> DEFINE q == a \div d
           r == a % d
           p == b \div d
           s == b % d
<1>1. q \in Nat /\ r \in Nat /\ a = d * q + r OBVIOUS
<1>2. p \in Nat /\ s \in Nat /\ b = d * p + s OBVIOUS
<1> HIDE DEF q, r, p, s
<1> DEFINE k == q * b + r * p
           m == r * s
<1>3. k \in Nat /\ m \in Nat BY <1>1, <1>2
<1>4. a * b = d * k + m
  <2>1. a * b = d * q * b + r * b BY <1>1, <1>2
  <2>2. r * b = r * (d * p) + r * s BY <1>1, <1>2
  <2>3. d * k = d * q * b + r * (d * p) BY <1>1, <1>2
  <2> DEFINE x == d * q * b
             y == r * b
             z == r * (d * p)
             u == d * k
             v == a * b
  <2>4. m \in Nat /\ x \in Nat /\ z \in Nat BY <1>1, <1>2
  <2>5. v = x + y /\ y = z + m /\ u = x + z BY <2>1, <2>2, <2>3
  <2> HIDE DEF x, y, z, u, v, m
  <2>6. v = u + m BY <2>4, <2>5
  <2> QED BY <2>6 DEF u, v
<1>5. (d * k + m) % d = m % d
  <2> HIDE DEF k, m
  <2> QED BY <1>3, Shift
<1> QED BY <1>4, <1>5 DEF r, s

LEMMA RemainderZero ==
  ASSUME NEW d \in Nat \ {0}, NEW m \in Nat
  PROVE  m % d = 0 <=> \E q \in Nat : m = d * q
<1>1. ASSUME m % d = 0 PROVE \E q \in Nat : m = d * q
  <2>1. m \div d \in Int /\ m = d * (m \div d) + (m % d) BY IntDivision
  <2>2. m \div d \in Nat BY Division
  <2>3. PICK q, z : q = m \div d /\ q \in Nat /\ z = d * q /\ z \in Nat BY <2>2
  <2>4. m = z BY <1>1, <2>1, <2>3
  <2> QED BY <2>3, <2>4
<1>2. ASSUME NEW q \in Nat, m = d * q PROVE m % d = 0
  <2>1. (d * q + 0) % d = 0 % d BY Shift
  <2>2. 0 % d = 0 BY Remainder
  <2>3. d * q \in Nat OBVIOUS
  <2>4. d * q + 0 = m BY <1>2, <2>3
  <2> QED BY <2>1, <2>2, <2>4
<1> QED BY <1>1, <1>2

-----------------------------------------------------------------------------
(* Recursions whose steps keep a set.                                       *)

Runs(x, N, S, start, step) ==
  /\ x \in [0..N -> S] /\ x[0] = start
  /\ \A i \in 1..N : x[i] = step[<<i, x[i - 1]>>]

LEMMA RunsExist ==
  ASSUME NEW N \in Nat, NEW S, NEW start \in S, NEW step \in [(1..N) \X S -> S]
  PROVE  \E x : Runs(x, N, S, start, step)
<1> DEFINE Upto(x, k) == /\ x \in [0..k -> S] /\ x[0] = start
                         /\ \A i \in 1..k : x[i] = step[<<i, x[i - 1]>>]
           Bad == {k \in 0..N : ~ \E x : Upto(x, k)}
<1>1. 0 \notin Bad
  <2> DEFINE x == [i \in 0..0 |-> start]
  <2>1. Upto(x, 0) OBVIOUS
  <2> QED BY <2>1
<1>2. ASSUME NEW k \in 1..N, k - 1 \notin Bad PROVE k \notin Bad
  <2>1. k - 1 \in 0..N /\ k \in Nat /\ k - 1 \in 0..k - 1 OBVIOUS
  <2>2. PICK x : Upto(x, k - 1) BY <1>2, <2>1
  <2> DEFINE y == [i \in 0..k |-> IF i = k THEN step[<<k, x[k - 1]>>] ELSE x[i]]
  <2>3. x[k - 1] \in S BY <2>1, <2>2
  <2>4. y \in [0..k -> S]
    <3>1. step[<<k, x[k - 1]>>] \in S BY <2>3
    <3>2. \A i \in 0..k : i # k => x[i] \in S BY <2>2
    <3> QED BY <3>1, <3>2
  <2>5. y[k] = step[<<k, x[k - 1]>>] /\ \A i \in 0..k - 1 : y[i] = x[i] BY <2>1
  <2> HIDE DEF y
  <2>6. y[0] = start BY <2>1, <2>2, <2>5
  <2>7. ASSUME NEW i \in 1..k PROVE y[i] = step[<<i, y[i - 1]>>]
    <3>1. i - 1 \in 0..k - 1 /\ y[i - 1] = x[i - 1] BY <2>1, <2>5
    <3>2. CASE i = k BY <2>5, <3>1, <3>2
    <3>3. CASE i \in 1..k - 1
      <4>1. i \in 0..k - 1 /\ x[i] = step[<<i, x[i - 1]>>] BY <2>2, <3>3
      <4> QED BY <2>5, <3>1, <4>1
    <3> QED BY <2>1, <3>2, <3>3
  <2> QED BY <2>4, <2>6, <2>7
<1> HIDE DEF Bad
<1>3. Bad \in SUBSET (0..N) BY DEF Bad
<1>4. Bad = {} BY <1>1, <1>2, <1>3, NoCounterexample
<1>5. N \in 0..N OBVIOUS
<1>6. \E x : Upto(x, N) BY <1>4, <1>5 DEF Bad
<1> QED BY <1>6 DEF Runs

\* What follows the same steps from the same start is the same.
LEMMA RunsAreOne ==
  ASSUME NEW N \in Nat, NEW a, NEW b, a[0] = b[0],
         \A i \in 1..N : a[i - 1] = b[i - 1] => a[i] = b[i]
  PROVE  \A i \in 0..N : a[i] = b[i]
<1> DEFINE Bad == {k \in 0..N : a[k] # b[k]}
<1>1. 0 \notin Bad /\ Bad \in SUBSET (0..N) OBVIOUS
<1>2. \A k \in 1..N : k \in Bad => k - 1 \in Bad OBVIOUS
<1> HIDE DEF Bad
<1>3. Bad = {} BY <1>1, <1>2, NoCounterexample
<1> QED BY <1>3 DEF Bad
=============================================================================
