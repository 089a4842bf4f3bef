----------------------------- MODULE SumTheorems -----------------------------
(* Sums over finite sets. What the recursive fold of the community modules  *)
(* computes is shown by least counterexamples: a set of the smallest size   *)
(* for which a statement fails.                                             *)
EXTENDS Integers, Functions, FiniteSetsExt, FiniteSetTheorems, WellFoundedInduction, TLAPS

Chosen(s) == CHOOSE x \in s : TRUE

\* g is the running sum that the fold of the community modules computes over the subsets of D.
SumsOn(f, D, g) ==
  g = [s \in D |-> IF s = {} THEN 0 ELSE f[Chosen(s)] + g[s \ {Chosen(s)}]]

LEMMA SumIs ==
  ASSUME NEW f, NEW S
  PROVE  SumFunctionOnSet(f, S) = (CHOOSE g : SumsOn(f, SUBSET S, g))[S]
BY DEF SumFunctionOnSet, FoldFunctionOnSet, MapThenFoldSet, SumsOn, Chosen

LEMMA ChosenIn ==
  ASSUME NEW s, s # {}
  PROVE  Chosen(s) \in s
BY DEF Chosen

\* The least counterexample of a set of natural numbers.
LEMMA Least ==
  ASSUME NEW B, B \subseteq Nat, B # {}
  PROVE  \E n \in B : \A m \in B : n <= m
<1>1. PICK n \in B : \A m \in B : ~ (<<m, n>> \in OpToRel(<, Nat))
  BY NatLessThanWellFounded, WFMin
<1>2. ASSUME NEW m \in B PROVE n <= m
  <2>1. OpToRel(<, Nat) = {p \in Nat \X Nat : p[1] < p[2]}
    BY DEF OpToRel
  <2>2. <<m, n>> \in Nat \X Nat /\ ~ (m < n)
    BY <1>1, <2>1
  <2> QED
    BY <2>2
<1> QED
  BY <1>2

\* Least and greatest members.
LEMMA LeastOf ==
  ASSUME NEW S, S \subseteq Nat, S # {}
  PROVE  Min(S) \in S /\ \A x \in S : Min(S) <= x
BY Least DEF Min

LEMMA GreatestOf ==
  ASSUME NEW n \in Nat, NEW S, S \subseteq 1..n, S # {}
  PROVE  Max(S) \in S /\ \A x \in S : x <= Max(S)
<1> DEFINE bounds == {u \in Nat : \A x \in S : x <= u}
<1>1. n \in bounds /\ bounds \subseteq Nat
  OBVIOUS
<1>2. PICK u \in bounds : \A v \in bounds : u <= v
  BY <1>1, Least
<1>3. u \in S
  <2> SUFFICES ASSUME u \notin S PROVE FALSE
    OBVIOUS
  <2>1. PICK x \in S : TRUE
    OBVIOUS
  <2>2. u \in Nat /\ x \in Nat /\ 1 <= x /\ x <= u
    BY <1>2, <2>1
  <2>3. u - 1 \in bounds
    BY <1>2, <2>2
  <2>4. u <= u - 1
    BY <1>2, <2>3
  <2> QED
    BY <2>2, <2>4
<1>4. \A x \in S : u >= x
  BY <1>2
<1>5. Max(S) \in S /\ \A x \in S : Max(S) >= x
  BY <1>3, <1>4 DEF Max
<1> QED
  BY <1>5

LEMMA SumExists ==
  ASSUME NEW f, NEW S, IsFiniteSet(S)
  PROVE  \E g : SumsOn(f, SUBSET S, g)
<1> DEFINE Upto(n) == {s \in SUBSET S : Cardinality(s) <= n}
           bad == {n \in Nat : ~ \E g : SumsOn(f, Upto(n), g)}
<1>1. \A s \in SUBSET S : IsFiniteSet(s) /\ Cardinality(s) \in Nat /\ Cardinality(s) <= Cardinality(S)
  BY FS_Subset, FS_CardinalityType
<1>2. bad = {}
  <2> SUFFICES ASSUME bad # {} PROVE FALSE
    OBVIOUS
  <2>1. PICK n \in bad : \A m \in bad : n <= m
    BY Least
  <2>2. CASE n = 0
    <3>1. \A s \in Upto(0) : s = {}
      BY <1>1, FS_EmptySet
    <3>2. SumsOn(f, Upto(0), [s \in Upto(0) |-> 0])
      BY <3>1 DEF SumsOn
    <3> QED
      BY <2>1, <2>2, <3>2
  <2>3. CASE n # 0
    <3>1. n \in Nat /\ n - 1 \in Nat /\ n - 1 \notin bad
      <4>1. n \in Nat /\ n - 1 \in Nat /\ ~ (n <= n - 1)
        BY <2>3
      <4> HIDE DEF bad
      <4> QED
        BY <2>1, <4>1
    <3>2. PICK g : SumsOn(f, Upto(n-1), g)
      BY <3>1
    <3> DEFINE h == [s \in Upto(n) |-> IF s = {} THEN 0 ELSE f[Chosen(s)] + g[s \ {Chosen(s)}]]
    <3>3. \A s \in Upto(n) : s # {} => s \ {Chosen(s)} \in Upto(n-1)
      <4> SUFFICES ASSUME NEW s \in Upto(n), s # {} PROVE s \ {Chosen(s)} \in Upto(n-1)
        OBVIOUS
      <4>1. Chosen(s) \in s /\ IsFiniteSet(s) /\ Cardinality(s) \in Nat
        BY <1>1, ChosenIn
      <4>2. Cardinality(s \ {Chosen(s)}) = Cardinality(s) - 1
        BY <4>1, FS_RemoveElement
      <4> QED
        BY <3>1, <4>1, <4>2
    <3>4. \A s \in Upto(n-1) : s \in Upto(n) /\ h[s] = g[s]
      <4>1. \A s \in Upto(n-1) : s \in Upto(n)
        BY <1>1, <3>1
      <4> QED
        BY <3>2, <4>1 DEF SumsOn
    <3>5. SumsOn(f, Upto(n), h)
      BY <3>3, <3>4 DEF SumsOn
    <3> QED
      BY <2>1, <3>5
  <2> QED
    BY <2>2, <2>3
<1>3. Cardinality(S) \in Nat /\ Upto(Cardinality(S)) = SUBSET S
  BY <1>1, FS_CardinalityType
<1> QED
  BY <1>2, <1>3

LEMMA SumsAgree ==
  ASSUME NEW f, NEW S, IsFiniteSet(S), NEW T, T \subseteq S, NEW g, NEW h,
         SumsOn(f, SUBSET S, g), SumsOn(f, SUBSET T, h)
  PROVE  \A s \in SUBSET T : g[s] = h[s]
<1> DEFINE bad == {s \in SUBSET T : g[s] # h[s]}
           sizes == {Cardinality(s) : s \in bad}
<1> SUFFICES ASSUME bad # {} PROVE FALSE
  OBVIOUS
<1>1. \A s \in bad : s \in SUBSET S /\ IsFiniteSet(s) /\ Cardinality(s) \in Nat
  BY FS_Subset, FS_CardinalityType
<1>2. PICK s \in bad : \A t \in bad : Cardinality(s) <= Cardinality(t)
  <2>1. sizes \subseteq Nat /\ sizes # {}
    BY <1>1
  <2>2. PICK n \in sizes : \A m \in sizes : n <= m
    BY <2>1, Least
  <2> QED
    BY <2>2
<1>3. s # {}
  BY DEF SumsOn
<1>4. Chosen(s) \in s /\ s \ {Chosen(s)} \in SUBSET T
  BY <1>3, ChosenIn
<1>5. Cardinality(s \ {Chosen(s)}) = Cardinality(s) - 1
  BY <1>1, <1>4, FS_RemoveElement
<1>6. s \ {Chosen(s)} \notin bad
  BY <1>1, <1>2, <1>5
<1>7. g[s] = f[Chosen(s)] + g[s \ {Chosen(s)}] /\ h[s] = f[Chosen(s)] + h[s \ {Chosen(s)}]
  BY <1>1, <1>3 DEF SumsOn
<1> QED
  BY <1>4, <1>6, <1>7

LEMMA SumOfNone ==
  ASSUME NEW f
  PROVE  SumFunctionOnSet(f, {}) = 0
<1>1. PICK g : SumsOn(f, SUBSET {}, g)
  BY SumExists, FS_EmptySet
<1>2. SumsOn(f, SUBSET {}, CHOOSE g1 : SumsOn(f, SUBSET {}, g1))
  BY <1>1
<1> QED
  BY <1>2, SumIs DEF SumsOn

LEMMA SumUnfolds ==
  ASSUME NEW f, NEW S, IsFiniteSet(S), S # {}
  PROVE  SumFunctionOnSet(f, S) = f[Chosen(S)] + SumFunctionOnSet(f, S \ {Chosen(S)})
<1> DEFINE T == S \ {Chosen(S)}
           g == CHOOSE g1 : SumsOn(f, SUBSET S, g1)
           h == CHOOSE h1 : SumsOn(f, SUBSET T, h1)
<1>1. SumsOn(f, SUBSET S, g)
  BY SumExists
<1>2. IsFiniteSet(T) /\ T \subseteq S
  BY FS_RemoveElement
<1>3. SumsOn(f, SUBSET T, h)
  BY <1>2, SumExists
<1>4. g[S] = f[Chosen(S)] + g[T]
  BY <1>1 DEF SumsOn
<1>5. g[T] = h[T]
  <2> HIDE DEF g, h, T
  <2> QED
    BY <1>1, <1>2, <1>3, SumsAgree
<1> QED
  BY <1>4, <1>5, SumIs

\* The least counterexample of a set of finite sets.
LEMMA LeastSet ==
  ASSUME NEW S, IsFiniteSet(S), NEW B, B \subseteq SUBSET S, B # {}
  PROVE  \E s \in B : \A x \in s : s \ {x} \notin B
<1> DEFINE sizes == {Cardinality(s) : s \in B}
<1>1. \A s \in B : IsFiniteSet(s) /\ Cardinality(s) \in Nat
  BY FS_Subset, FS_CardinalityType
<1>2. PICK s \in B : \A t \in B : Cardinality(s) <= Cardinality(t)
  <2>1. sizes \subseteq Nat /\ sizes # {}
    BY <1>1
  <2>2. PICK n \in sizes : \A m \in sizes : n <= m
    BY <2>1, Least
  <2> QED
    BY <2>2
<1>3. ASSUME NEW x \in s PROVE s \ {x} \notin B
  <2>1. Cardinality(s \ {x}) = Cardinality(s) - 1
    BY <1>1, FS_RemoveElement
  <2> QED
    BY <1>1, <1>2, <2>1
<1> QED
  BY <1>3

LEMMA SumType ==
  ASSUME NEW S, IsFiniteSet(S), NEW f, \A x \in S : f[x] \in Nat
  PROVE  SumFunctionOnSet(f, S) \in Nat
<1> DEFINE bad == {s \in SUBSET S : SumFunctionOnSet(f, s) \notin Nat}
<1> SUFFICES bad = {}
  OBVIOUS
<1> SUFFICES ASSUME bad # {} PROVE FALSE
  OBVIOUS
<1>1. PICK s \in bad : \A x \in s : s \ {x} \notin bad
  BY LeastSet
<1>2. IsFiniteSet(s) /\ s \subseteq S /\ s # {}
  <2>1. SumFunctionOnSet(f, {}) \in Nat
    BY SumOfNone
  <2> QED
    BY <2>1, FS_Subset
<1>3. Chosen(s) \in s /\ SumFunctionOnSet(f, s) = f[Chosen(s)] + SumFunctionOnSet(f, s \ {Chosen(s)})
  BY <1>2, ChosenIn, SumUnfolds
<1>4. SumFunctionOnSet(f, s \ {Chosen(s)}) \in Nat /\ f[Chosen(s)] \in Nat
  BY <1>1, <1>2, <1>3
<1> QED
  BY <1>3, <1>4

LEMMA SumIsInt ==
  ASSUME NEW S, IsFiniteSet(S), NEW f, \A x \in S : f[x] \in Int
  PROVE  SumFunctionOnSet(f, S) \in Int
<1> DEFINE bad == {s \in SUBSET S : SumFunctionOnSet(f, s) \notin Int}
<1> SUFFICES bad = {}
  OBVIOUS
<1> SUFFICES ASSUME bad # {} PROVE FALSE
  OBVIOUS
<1>1. PICK s \in bad : \A x \in s : s \ {x} \notin bad
  BY LeastSet
<1>2. IsFiniteSet(s) /\ s \subseteq S /\ s # {}
  <2>1. SumFunctionOnSet(f, {}) \in Int
    BY SumOfNone
  <2> QED
    BY <2>1, FS_Subset
<1>3. Chosen(s) \in s /\ SumFunctionOnSet(f, s) = f[Chosen(s)] + SumFunctionOnSet(f, s \ {Chosen(s)})
  BY <1>2, ChosenIn, SumUnfolds
<1>4. SumFunctionOnSet(f, s \ {Chosen(s)}) \in Int /\ f[Chosen(s)] \in Int
  BY <1>1, <1>2, <1>3
<1> QED
  BY <1>3, <1>4

\* A sum does not depend on the order in which it is taken.
LEMMA IntSumSplits ==
  ASSUME NEW S, IsFiniteSet(S), NEW f, \A x \in S : f[x] \in Int, NEW y \in S
  PROVE  SumFunctionOnSet(f, S) = f[y] + SumFunctionOnSet(f, S \ {y})
<1> DEFINE bad == {s \in SUBSET S : \E x \in s : SumFunctionOnSet(f, s) # f[x] + SumFunctionOnSet(f, s \ {x})}
<1> SUFFICES bad = {}
  OBVIOUS
<1> SUFFICES ASSUME bad # {} PROVE FALSE
  OBVIOUS
<1>1. PICK s \in bad : \A x \in s : s \ {x} \notin bad
  BY LeastSet
<1>2. PICK x \in s : SumFunctionOnSet(f, s) # f[x] + SumFunctionOnSet(f, s \ {x})
  OBVIOUS
<1> DEFINE c == Chosen(s)
<1>3. IsFiniteSet(s) /\ s \subseteq S /\ c \in s
  BY <1>2, ChosenIn, FS_Subset
<1>4. SumFunctionOnSet(f, s) = f[c] + SumFunctionOnSet(f, s \ {c})
  BY <1>2, <1>3, SumUnfolds
<1> HIDE DEF c
<1>5. x # c
  BY <1>2, <1>4
<1>6. SumFunctionOnSet(f, s \ {c}) = f[x] + SumFunctionOnSet(f, (s \ {c}) \ {x})
  BY <1>1, <1>2, <1>3, <1>5
<1>7. SumFunctionOnSet(f, s \ {x}) = f[c] + SumFunctionOnSet(f, (s \ {x}) \ {c})
  BY <1>1, <1>2, <1>3, <1>5
<1>8. (s \ {c}) \ {x} = (s \ {x}) \ {c}
  OBVIOUS
<1>9. f[x] \in Int /\ f[c] \in Int /\ SumFunctionOnSet(f, (s \ {x}) \ {c}) \in Int
  <2>1. IsFiniteSet((s \ {x}) \ {c})
    BY <1>3, FS_RemoveElement
  <2> QED
    BY <1>3, <2>1, SumIsInt
<1> DEFINE rest == SumFunctionOnSet(f, (s \ {x}) \ {c})
<1>10. SumFunctionOnSet(f, s) = f[c] + (f[x] + rest) /\ SumFunctionOnSet(f, s \ {x}) = f[c] + rest
  BY <1>4, <1>6, <1>7, <1>8
<1>11. rest \in Int
  BY <1>9
<1> HIDE DEF rest
<1>12. f[c] + (f[x] + rest) = f[x] + (f[c] + rest)
  BY <1>9, <1>11
<1> QED
  BY <1>2, <1>10, <1>12

LEMMA SumSplits ==
  ASSUME NEW S, IsFiniteSet(S), NEW f, \A x \in S : f[x] \in Nat, NEW y \in S
  PROVE  SumFunctionOnSet(f, S) = f[y] + SumFunctionOnSet(f, S \ {y})
<1>1. \A x \in S : f[x] \in Int
  OBVIOUS
<1> QED
  BY <1>1, IntSumSplits

LEMMA SumRespects ==
  ASSUME NEW S, IsFiniteSet(S), NEW f, NEW g, \A x \in S : f[x] = g[x]
  PROVE  SumFunctionOnSet(f, S) = SumFunctionOnSet(g, S)
<1> DEFINE bad == {s \in SUBSET S : SumFunctionOnSet(f, s) # SumFunctionOnSet(g, s)}
<1> SUFFICES bad = {}
  OBVIOUS
<1> SUFFICES ASSUME bad # {} PROVE FALSE
  OBVIOUS
<1>1. PICK s \in bad : \A x \in s : s \ {x} \notin bad
  BY LeastSet
<1>2. s # {} /\ IsFiniteSet(s) /\ s \subseteq S
  BY SumOfNone, FS_Subset
<1>3. /\ Chosen(s) \in s
      /\ SumFunctionOnSet(f, s) = f[Chosen(s)] + SumFunctionOnSet(f, s \ {Chosen(s)})
      /\ SumFunctionOnSet(g, s) = g[Chosen(s)] + SumFunctionOnSet(g, s \ {Chosen(s)})
  BY <1>2, ChosenIn, SumUnfolds
<1>4. SumFunctionOnSet(f, s \ {Chosen(s)}) = SumFunctionOnSet(g, s \ {Chosen(s)})
  BY <1>1, <1>2, <1>3
<1> QED
  BY <1>2, <1>3, <1>4

\* More terms, or larger ones, make no smaller sum.
LEMMA SumGrows ==
  ASSUME NEW S, IsFiniteSet(S), NEW f, NEW g, \A x \in S : f[x] \in Nat /\ g[x] \in Nat,
         NEW T, T \subseteq S, \A x \in T : f[x] <= g[x]
  PROVE  SumFunctionOnSet(f, T) <= SumFunctionOnSet(g, S)
<1> DEFINE bad == {s \in SUBSET S : ~ (SumFunctionOnSet(f, T \cap s) <= SumFunctionOnSet(g, s))}
<1> SUFFICES bad = {}
  <2>1. S \in SUBSET S /\ T \cap S = T
    OBVIOUS
  <2> QED
    BY <2>1
<1> SUFFICES ASSUME bad # {} PROVE FALSE
  OBVIOUS
<1>1. PICK s \in bad : \A x \in s : s \ {x} \notin bad
  BY LeastSet
<1>2. /\ IsFiniteSet(s) /\ s \subseteq S /\ IsFiniteSet(T \cap s)
      /\ \A x \in s : IsFiniteSet(s \ {x}) /\ IsFiniteSet(T \cap (s \ {x}))
  BY FS_Subset
<1>3. s # {}
  BY SumOfNone
<1>4. PICK x \in s : TRUE
  BY <1>3
<1>5. SumFunctionOnSet(g, s) = g[x] + SumFunctionOnSet(g, s \ {x})
  BY <1>2, SumSplits
<1>6. /\ SumFunctionOnSet(f, T \cap (s \ {x})) <= SumFunctionOnSet(g, s \ {x})
      /\ SumFunctionOnSet(f, T \cap (s \ {x})) \in Nat /\ SumFunctionOnSet(g, s \ {x}) \in Nat
  BY <1>1, <1>2, SumType
<1>7. CASE x \in T
  <2>1. SumFunctionOnSet(f, T \cap s) = f[x] + SumFunctionOnSet(f, (T \cap s) \ {x})
    BY <1>2, <1>7, SumSplits
  <2>2. (T \cap s) \ {x} = T \cap (s \ {x})
    OBVIOUS
  <2>3. f[x] <= g[x] /\ f[x] \in Nat /\ g[x] \in Nat
    BY <1>2, <1>7
  <2> QED
    BY <1>5, <1>6, <2>1, <2>2, <2>3
<1>8. CASE x \notin T
  <2>1. SumFunctionOnSet(f, T \cap s) = SumFunctionOnSet(f, T \cap (s \ {x}))
    <3>1. T \cap s = T \cap (s \ {x})
      BY <1>8
    <3> QED
      BY <3>1
  <2>2. g[x] \in Nat /\ ~ (SumFunctionOnSet(f, T \cap s) <= SumFunctionOnSet(g, s))
    BY <1>2
  <2> HIDE DEF bad
  <2> QED
    BY <1>5, <1>6, <2>1, <2>2
<1> QED
  BY <1>7, <1>8

LEMMA SumOfZeros ==
  ASSUME NEW S, IsFiniteSet(S), NEW f, \A x \in S : f[x] = 0
  PROVE  SumFunctionOnSet(f, S) = 0
<1> DEFINE bad == {s \in SUBSET S : SumFunctionOnSet(f, s) # 0}
<1> SUFFICES ASSUME bad # {} PROVE FALSE
  OBVIOUS
<1>1. PICK s \in bad : \A x \in s : s \ {x} \notin bad
  BY LeastSet
<1>2. s # {} /\ IsFiniteSet(s) /\ s \subseteq S
  BY SumOfNone, FS_Subset
<1>3. Chosen(s) \in s /\ SumFunctionOnSet(f, s) = f[Chosen(s)] + SumFunctionOnSet(f, s \ {Chosen(s)})
  BY <1>2, ChosenIn, SumUnfolds
<1>4. SumFunctionOnSet(f, s \ {Chosen(s)}) = 0 /\ f[Chosen(s)] = 0
  BY <1>1, <1>2, <1>3
<1> QED
  BY <1>3, <1>4

LEMMA SumOfParts ==
  ASSUME NEW S, IsFiniteSet(S), NEW f, \A x \in S : f[x] \in Nat, NEW T, T \subseteq S
  PROVE  SumFunctionOnSet(f, S) = SumFunctionOnSet(f, S \ T) + SumFunctionOnSet(f, T)
<1> DEFINE bad == {s \in SUBSET T :
                    SumFunctionOnSet(f, (S \ T) \cup s) # SumFunctionOnSet(f, S \ T) + SumFunctionOnSet(f, s)}
<1> SUFFICES bad = {}
  <2>1. T \in SUBSET T /\ (S \ T) \cup T = S
    OBVIOUS
  <2> QED
    BY <2>1
<1> SUFFICES ASSUME bad # {} PROVE FALSE
  OBVIOUS
<1>0. IsFiniteSet(T)
  BY FS_Subset
<1>1. PICK s \in bad : \A x \in s : s \ {x} \notin bad
  BY <1>0, LeastSet
<1>2. /\ s \subseteq T /\ IsFiniteSet(s) /\ IsFiniteSet(S \ T) /\ IsFiniteSet((S \ T) \cup s)
      /\ SumFunctionOnSet(f, S \ T) \in Nat
  <2>1. s \subseteq T /\ s \subseteq S /\ S \ T \subseteq S /\ (S \ T) \cup s \subseteq S
    OBVIOUS
  <2>2. IsFiniteSet(s) /\ IsFiniteSet(S \ T) /\ IsFiniteSet((S \ T) \cup s)
    BY <2>1, FS_Subset
  <2>3. SumFunctionOnSet(f, S \ T) \in Nat
    BY <2>1, <2>2, SumType
  <2> QED
    BY <2>1, <2>2, <2>3
<1>3. s # {}
  <2>1. (S \ T) \cup {} = S \ T
    OBVIOUS
  <2> QED
    BY <1>2, <2>1, SumOfNone
<1>4. PICK x \in s : TRUE
  BY <1>3
<1>5. SumFunctionOnSet(f, s) = f[x] + SumFunctionOnSet(f, s \ {x})
  BY <1>2, SumSplits
<1>6. SumFunctionOnSet(f, (S \ T) \cup s) = f[x] + SumFunctionOnSet(f, ((S \ T) \cup s) \ {x})
  <2>1. x \in (S \ T) \cup s /\ \A y \in (S \ T) \cup s : f[y] \in Nat
    BY <1>2
  <2> QED
    BY <1>2, <2>1, SumSplits
<1>7. ((S \ T) \cup s) \ {x} = (S \ T) \cup (s \ {x})
  BY <1>2
<1>8. SumFunctionOnSet(f, (S \ T) \cup (s \ {x})) = SumFunctionOnSet(f, S \ T) + SumFunctionOnSet(f, s \ {x})
  BY <1>1
<1>9. f[x] \in Nat /\ SumFunctionOnSet(f, s \ {x}) \in Nat
  <2>1. IsFiniteSet(s \ {x}) /\ \A y \in s \ {x} : f[y] \in Nat
    BY <1>2, FS_RemoveElement
  <2> QED
    BY <1>2, <2>1, SumType
<1>10. SumFunctionOnSet(f, (S \ T) \cup s) # SumFunctionOnSet(f, S \ T) + SumFunctionOnSet(f, s)
  OBVIOUS
<1> HIDE DEF bad
<1>11. SumFunctionOnSet(f, (S \ T) \cup s)
         = f[x] + (SumFunctionOnSet(f, S \ T) + SumFunctionOnSet(f, s \ {x}))
  BY <1>6, <1>7, <1>8
<1>12. SumFunctionOnSet(f, S \ T) \in Nat
  BY <1>2
<1> QED
  BY <1>5, <1>9, <1>10, <1>11, <1>12

\* The sum of a function: with one value more, with one less, and with one changed.
LEMMA SumWithMore ==
  ASSUME NEW f, IsFiniteSet(DOMAIN f), \A x \in DOMAIN f : f[x] \in Int,
         NEW y, y \notin DOMAIN f, NEW g, DOMAIN g = DOMAIN f \cup {y}, g[y] \in Int,
         \A x \in DOMAIN f : g[x] = f[x]
  PROVE  SumFunction(f) \in Int /\ SumFunction(g) = SumFunction(f) + g[y]
<1>1. IsFiniteSet(DOMAIN g)
  BY FS_AddElement
<1>2. \A x \in DOMAIN g : g[x] \in Int
  OBVIOUS
<1>3. SumFunctionOnSet(g, DOMAIN g) = g[y] + SumFunctionOnSet(g, DOMAIN g \ {y})
  BY <1>1, <1>2, IntSumSplits
<1>4. DOMAIN g \ {y} = DOMAIN f
  OBVIOUS
<1>5. SumFunctionOnSet(g, DOMAIN f) = SumFunctionOnSet(f, DOMAIN f)
  BY SumRespects
<1>6. SumFunctionOnSet(f, DOMAIN f) \in Int
  BY SumIsInt
<1> QED
  BY <1>3, <1>4, <1>5, <1>6 DEF SumFunction

LEMMA SumWithLess ==
  ASSUME NEW f, IsFiniteSet(DOMAIN f), \A x \in DOMAIN f : f[x] \in Int,
         NEW y \in DOMAIN f, NEW g, DOMAIN g = DOMAIN f \ {y}, \A x \in DOMAIN g : g[x] = f[x]
  PROVE  SumFunction(f) \in Int /\ SumFunction(g) \in Int /\ SumFunction(g) = SumFunction(f) - f[y]
<1>1. IsFiniteSet(DOMAIN g) /\ y \notin DOMAIN g /\ DOMAIN f = DOMAIN g \cup {y}
  BY FS_RemoveElement
<1>2. \A x \in DOMAIN g : g[x] \in Int /\ f[x] = g[x]
  OBVIOUS
<1>3. SumFunction(g) \in Int /\ SumFunction(f) = SumFunction(g) + f[y]
  BY <1>1, <1>2, SumWithMore
<1> QED
  BY <1>3

LEMMA SumWithChange ==
  ASSUME NEW f, IsFiniteSet(DOMAIN f), \A x \in DOMAIN f : f[x] \in Int,
         NEW y \in DOMAIN f, NEW g, DOMAIN g = DOMAIN f, g[y] \in Int,
         \A x \in DOMAIN f \ {y} : g[x] = f[x]
  PROVE  SumFunction(f) \in Int /\ SumFunction(g) = SumFunction(f) - f[y] + g[y]
<1> DEFINE h == [x \in DOMAIN f \ {y} |-> f[x]]
<1>1. /\ DOMAIN h = DOMAIN f \ {y} /\ \A x \in DOMAIN h : h[x] = f[x] /\ g[x] = h[x] /\ h[x] \in Int
      /\ DOMAIN g = DOMAIN h \cup {y} /\ y \notin DOMAIN h
  OBVIOUS
<1> HIDE DEF h
<1>2. IsFiniteSet(DOMAIN h)
  BY <1>1, FS_RemoveElement
<1>3. SumFunction(f) \in Int /\ SumFunction(h) \in Int /\ SumFunction(h) = SumFunction(f) - f[y]
  BY <1>1, SumWithLess
<1>4. SumFunction(g) = SumFunction(h) + g[y]
  BY <1>1, <1>2, SumWithMore
<1> QED
  BY <1>3, <1>4

=============================================================================
