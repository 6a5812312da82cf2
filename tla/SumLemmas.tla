----------------------------- MODULE SumLemmas -----------------------------
(***************************************************************************)
(* Induction without a parameter that is an operator, by least elements,   *)
(* and with it the facts about sums of integers that the proofs about      *)
(* counts need.                                                            *)
(***************************************************************************)
EXTENDS Integers, Functions, FiniteSetTheorems, TLAPS

\* A set of natural numbers has a least element.
LEMMA LeastNat ==
  ASSUME NEW S \in SUBSET Nat, S # {}
  PROVE  \E n \in S : \A m \in S : n <= m
<1> DEFINE R == {ss \in Nat \X Nat : ss[1] < ss[2]}
<1>1. IsWellFoundedOn(R, Nat)
  BY NatLessThanWellFounded DEF OpToRel
<1>2. \E x \in S : \A y \in S : ~ (<<y, x>> \in R)
  <2> HIDE DEF R
  <2> QED
    BY <1>1, WFMin, Zenon
<1>3. ASSUME NEW x \in S, NEW y \in S, ~ (<<y, x>> \in R)
      PROVE  x <= y
  BY <1>3
<1> QED
  BY <1>2, <1>3

\* A set of subsets of a finite set has a minimal element.
LEMMA LeastSet ==
  ASSUME NEW S, IsFiniteSet(S), NEW P \in SUBSET SUBSET S, P # {}
  PROVE  \E T \in P : \A U \in P : U \subseteq T => U = T
<1> DEFINE R == StrictSubsetOrdering(S)
<1>1. IsWellFoundedOn(R, SUBSET S)
  BY FS_StrictSubsetOrderingWellFounded, FS_FiniteSubsetsOfFinite
<1>2. \E x \in P : \A y \in P : ~ (<<y, x>> \in R)
  <2> HIDE DEF R
  <2> QED
    BY <1>1, WFMin, Zenon
<1> QED
  BY <1>2 DEF StrictSubsetOrdering

-----------------------------------------------------------------------------
(* Sums: SumFunctionOnSet(f, S) is the value at S of the function that is  *)
(* defined along the subsets of S, one element fewer each time.            *)

\* g is a solution of that definition.
Sums(f, S, g) ==
  g = [s \in SUBSET S |-> IF s = {} THEN 0
                          ELSE f[CHOOSE x \in s : TRUE] + g[s \ {CHOOSE x \in s : TRUE}]]

\* What a solution is.
LEMMA SumIs ==
  ASSUME NEW f, NEW S
  PROVE  SumFunctionOnSet(f, S) = (CHOOSE g : Sums(f, S, g))[S]
BY DEF SumFunctionOnSet, FoldFunctionOnSet, MapThenFoldSet, Sums

\* There is one solution at most.
LEMMA SumsUnique ==
  ASSUME NEW f, NEW S, IsFiniteSet(S), NEW g, NEW h, Sums(f, S, g), Sums(f, S, h)
  PROVE  g = h
<1> DEFINE D == {s \in SUBSET S : g[s] # h[s]}
<1>1. ASSUME D # {} PROVE FALSE
  <2>1. PICK s \in D : \A u \in D : u \subseteq s => u = s
    <3>1. D \in SUBSET SUBSET S
      OBVIOUS
    <3> HIDE DEF D
    <3> QED
      BY <3>1, <1>1, LeastSet
  <2>2. s # {}
    BY <2>1 DEF Sums
  <2>3. PICK x \in s : x = CHOOSE y \in s : TRUE
    BY <2>2
  <2>4. s \ {x} \in SUBSET S /\ s \ {x} \notin D
    BY <2>1, <2>3
  <2>5. g[s \ {x}] = h[s \ {x}]
    BY <2>4
  <2>6. g[s] = f[x] + g[s \ {x}] /\ h[s] = f[x] + h[s \ {x}]
    BY <2>1, <2>2, <2>3 DEF Sums
  <2> QED
    BY <2>1, <2>5, <2>6
<1> QED
  BY <1>1 DEF Sums

\* A solution for S is one for every subset of S.
LEMMA SumsRestrict ==
  ASSUME NEW f, NEW S, NEW g, Sums(f, S, g), NEW T \in SUBSET S
  PROVE  Sums(f, T, [s \in SUBSET T |-> g[s]])
<1> DEFINE r == [s \in SUBSET T |-> g[s]]
<1>1. ASSUME NEW s \in SUBSET T
      PROVE  r[s] = IF s = {} THEN 0
                    ELSE f[CHOOSE x \in s : TRUE] + r[s \ {CHOOSE x \in s : TRUE}]
  <2>1. s \in SUBSET S /\ s \ {CHOOSE x \in s : TRUE} \in SUBSET T
    OBVIOUS
  <2>2. r[s] = g[s] /\ r[s \ {CHOOSE x \in s : TRUE}] = g[s \ {CHOOSE x \in s : TRUE}]
    BY <2>1
  <2>3. g[s] = IF s = {} THEN 0
               ELSE f[CHOOSE x \in s : TRUE] + g[s \ {CHOOSE x \in s : TRUE}]
    BY <2>1 DEF Sums
  <2> QED
    BY <2>2, <2>3
<1> QED
  BY <1>1 DEF Sums

\* There is a solution, for a finite set.
LEMMA SumsExist ==
  ASSUME NEW f, NEW S, IsFiniteSet(S)
  PROVE  \E g : Sums(f, S, g)
<1> DEFINE D == {T \in SUBSET S : ~ \E g : Sums(f, T, g)}
<1>1. ASSUME D # {} PROVE FALSE
  <2>1. PICK T \in D : \A u \in D : u \subseteq T => u = T
    <3>1. D \in SUBSET SUBSET S
      OBVIOUS
    <3> HIDE DEF D
    <3> QED
      BY <3>1, <1>1, LeastSet
  <2> DEFINE G(s) == CHOOSE g : Sums(f, s, g)
             pick(s) == CHOOSE x \in s : TRUE
             h == [s \in SUBSET T |-> IF s # T THEN G(s)[s]
                                      ELSE IF s = {} THEN 0
                                      ELSE f[pick(s)] + G(s \ {pick(s)})[s \ {pick(s)}]]
  <2>2. ASSUME NEW s \in SUBSET T, s # T
        PROVE  Sums(f, s, G(s)) /\ IsFiniteSet(s)
    <3>1. s \notin D /\ s \in SUBSET S
      BY <2>1, <2>2
    <3> QED
      BY <3>1, FS_Subset
  <2>3. ASSUME NEW s \in SUBSET T, s # {}
        PROVE  pick(s) \in s /\ s \ {pick(s)} \in SUBSET T /\ s \ {pick(s)} # T
    <3>1. pick(s) \in s
      BY <2>3
    <3> HIDE DEF pick
    <3> QED
      BY <3>1
  <2>4. ASSUME NEW s \in SUBSET T
        PROVE  h[s] = IF s = {} THEN 0 ELSE f[pick(s)] + h[s \ {pick(s)}]
    <3> HIDE DEF G, pick
    <3>1. CASE s = T
      BY <3>1, <2>3
    <3>2. CASE s # T /\ s = {}
      BY <3>2, <2>2 DEF Sums
    <3>3. CASE s # T /\ s # {}
      <4> DEFINE u == s \ {pick(s)}
      <4>1. Sums(f, s, G(s)) /\ Sums(f, u, G(u)) /\ IsFiniteSet(u) /\ u \in SUBSET s /\ u \in SUBSET T
        BY <3>3, <2>2, <2>3
      <4>2. G(s)[s] = f[pick(s)] + G(s)[u]
        BY <3>3, <4>1 DEF Sums, pick
      <4>3. [v \in SUBSET u |-> G(s)[v]] = G(u)
        BY <4>1, SumsRestrict, SumsUnique
      <4>4. G(s)[u] = G(u)[u]
        BY <4>3
      <4> QED
        BY <3>3, <4>1, <4>2, <4>4, <2>3
    <3> QED
      BY <3>1, <3>2, <3>3
  <2>5. Sums(f, T, h)
    <3>1. h = [s \in SUBSET T |-> h[s]]
      OBVIOUS
    <3>2. h = [s \in SUBSET T |-> IF s = {} THEN 0 ELSE f[pick(s)] + h[s \ {pick(s)}]]
      <4> HIDE DEF h, pick
      <4> QED
        BY <2>4, <3>1
    <3> HIDE DEF h
    <3> QED
      BY <3>2 DEF Sums
  <2> QED
    BY <2>1, <2>5
<1> QED
  BY <1>1

\* The sum over no element.
LEMMA SumEmpty ==
  ASSUME NEW f
  PROVE  SumFunctionOnSet(f, {}) = 0
<1>1. \E g : Sums(f, {}, g)
  BY SumsExist, FS_EmptySet
<1> QED
  BY <1>1, SumIs DEF Sums

\* The sum over some element and the others.
LEMMA SumRec ==
  ASSUME NEW f, NEW S, IsFiniteSet(S), S # {}
  PROVE  \E x \in S : SumFunctionOnSet(f, S) = f[x] + SumFunctionOnSet(f, S \ {x})
<1> DEFINE g == CHOOSE g : Sums(f, S, g)
           x == CHOOSE x \in S : TRUE
           h == CHOOSE h : Sums(f, S \ {x}, h)
<1>1. Sums(f, S, g) /\ Sums(f, S \ {x}, h) /\ IsFiniteSet(S \ {x}) /\ x \in S
  BY SumsExist, FS_Subset
<1>2. SumFunctionOnSet(f, S) = g[S] /\ SumFunctionOnSet(f, S \ {x}) = h[S \ {x}]
  BY SumIs
<1>3. g[S] = f[x] + g[S \ {x}]
  BY <1>1 DEF Sums
<1>4. [v \in SUBSET (S \ {x}) |-> g[v]] = h
  <2> HIDE DEF g, h, x
  <2>1. S \ {x} \in SUBSET S
    OBVIOUS
  <2>2. Sums(f, S \ {x}, [v \in SUBSET (S \ {x}) |-> g[v]])
    BY <1>1, <2>1, SumsRestrict
  <2> QED
    BY <1>1, <2>2, SumsUnique
<1>5. g[S \ {x}] = h[S \ {x}]
  <2> HIDE DEF g, h, x
  <2> QED
    BY <1>4
<1> QED
  BY <1>1, <1>2, <1>3, <1>5

\* Abbreviation.
SumOn(f, S) == SumFunctionOnSet(f, S)

\* A minimal set with a property, of the subsets of a finite set.
LEMMA Minimal ==
  ASSUME NEW S, IsFiniteSet(S), NEW D, D \subseteq SUBSET S, D # {}
  PROVE  \E T \in D : /\ T \subseteq S /\ IsFiniteSet(T)
                      /\ \A x \in T : T \ {x} \notin D
<1>1. D \in SUBSET SUBSET S
  OBVIOUS
<1>2. PICK T \in D : \A u \in D : u \subseteq T => u = T
  BY <1>1, LeastSet
<1>3. T \subseteq S /\ IsFiniteSet(T)
  BY <1>2, FS_Subset
<1> QED
  BY <1>2, <1>3

\* A sum of integers is an integer.
LEMMA SumInt ==
  ASSUME NEW f, NEW S, IsFiniteSet(S), \A x \in S : f[x] \in Int
  PROVE  SumOn(f, S) \in Int
<1> DEFINE D == {T \in SUBSET S : SumOn(f, T) \notin Int}
<1>1. ASSUME D # {} PROVE FALSE
  <2>1. PICK T \in D : T \subseteq S /\ IsFiniteSet(T) /\ \A x \in T : T \ {x} \notin D
    <3>1. D \subseteq SUBSET S
      OBVIOUS
    <3> HIDE DEF D
    <3> QED
      BY <3>1, <1>1, Minimal
  <2>2. T # {}
    BY <2>1, SumEmpty DEF SumOn
  <2>3. PICK x \in T : SumOn(f, T) = f[x] + SumOn(f, T \ {x})
    BY <2>1, <2>2, SumRec DEF SumOn
  <2>4. SumOn(f, T \ {x}) \in Int
    BY <2>1, <2>3
  <2> QED
    BY <2>1, <2>3, <2>4
<1> QED
  BY <1>1

\* The sum over an element and the others, whichever it is.
LEMMA SumTakeOut ==
  ASSUME NEW f, NEW S, IsFiniteSet(S), \A x \in S : f[x] \in Int, NEW a \in S
  PROVE  SumOn(f, S) = f[a] + SumOn(f, S \ {a})
<1> DEFINE D == {T \in SUBSET S : \E x \in T : SumOn(f, T) # f[x] + SumOn(f, T \ {x})}
<1>1. ASSUME D # {} PROVE FALSE
  <2>1. PICK T \in D : T \subseteq S /\ IsFiniteSet(T) /\ \A x \in T : T \ {x} \notin D
    <3>1. D \subseteq SUBSET S
      OBVIOUS
    <3> HIDE DEF D
    <3> QED
      BY <3>1, <1>1, Minimal
  <2>2. PICK x \in T : SumOn(f, T) # f[x] + SumOn(f, T \ {x})
    BY <2>1
  <2>3. PICK y \in T : SumOn(f, T) = f[y] + SumOn(f, T \ {y})
    BY <2>1, <2>2, SumRec DEF SumOn
  <2>4. x # y
    BY <2>2, <2>3
  <2>5. T \ {x} \in SUBSET S /\ T \ {y} \in SUBSET S /\ x \in T \ {y} /\ y \in T \ {x}
    BY <2>1, <2>4
  <2>6. SumOn(f, T \ {y}) = f[x] + SumOn(f, (T \ {y}) \ {x})
    BY <2>1, <2>5
  <2>7. SumOn(f, T \ {x}) = f[y] + SumOn(f, (T \ {x}) \ {y})
    BY <2>1, <2>5
  <2> DEFINE U == (T \ {x}) \ {y}
  <2>8. (T \ {y}) \ {x} = U /\ U \subseteq S /\ IsFiniteSet(U)
    BY <2>1, FS_Subset
  <2>9. SumOn(f, U) \in Int /\ f[x] \in Int /\ f[y] \in Int
    <3> HIDE DEF U
    <3>1. \A z \in U : f[z] \in Int
      BY <2>8
    <3> QED
      BY <2>1, <2>8, <3>1, SumInt
  <2>10. SumOn(f, T \ {y}) = f[x] + SumOn(f, U) /\ SumOn(f, T \ {x}) = f[y] + SumOn(f, U)
    BY <2>6, <2>7, <2>8
  <2> HIDE DEF U
  <2>11. f[x] + (f[y] + SumOn(f, U)) = f[y] + (f[x] + SumOn(f, U))
    BY <2>9
  <2> QED
    BY <2>2, <2>3, <2>10, <2>11
<1> QED
  BY <1>1

\* A larger function has a larger sum.
LEMMA SumLe ==
  ASSUME NEW f, NEW g, NEW S, IsFiniteSet(S),
         \A x \in S : f[x] \in Int /\ g[x] \in Int /\ f[x] <= g[x]
  PROVE  SumOn(f, S) <= SumOn(g, S)
<1> DEFINE D == {T \in SUBSET S : ~ (SumOn(f, T) <= SumOn(g, T))}
<1>1. ASSUME D # {} PROVE FALSE
  <2>1. PICK T \in D : T \subseteq S /\ IsFiniteSet(T) /\ \A x \in T : T \ {x} \notin D
    <3>1. D \subseteq SUBSET S
      OBVIOUS
    <3> HIDE DEF D
    <3> QED
      BY <3>1, <1>1, Minimal
  <2>2. T # {}
    BY <2>1, SumEmpty DEF SumOn
  <2>3. PICK x \in T : TRUE
    BY <2>2
  <2>4. /\ SumOn(f, T) = f[x] + SumOn(f, T \ {x}) /\ SumOn(g, T) = g[x] + SumOn(g, T \ {x})
        /\ SumOn(f, T \ {x}) <= SumOn(g, T \ {x})
    BY <2>1, <2>3, SumTakeOut
  <2>5. SumOn(f, T \ {x}) \in Int /\ SumOn(g, T \ {x}) \in Int
    <3>1. IsFiniteSet(T \ {x}) /\ T \ {x} \subseteq S
      BY <2>1, FS_Subset
    <3> QED
      BY <3>1, SumInt
  <2>6. f[x] \in Int /\ g[x] \in Int /\ f[x] <= g[x]
    BY <2>1, <2>3
  <2>7. SumOn(f, T) <= SumOn(g, T)
    BY <2>4, <2>5, <2>6
  <2> QED
    BY <2>1, <2>7
<1> QED
  BY <1>1

\* Functions that agree on a set have the same sum over it.
LEMMA SumSame ==
  ASSUME NEW f, NEW g, NEW S, IsFiniteSet(S),
         \A x \in S : f[x] \in Int /\ g[x] = f[x]
  PROVE  SumOn(f, S) = SumOn(g, S)
<1>1. \A x \in S : f[x] \in Int /\ g[x] \in Int /\ f[x] <= g[x] /\ g[x] <= f[x]
  OBVIOUS
<1>2. SumOn(f, S) \in Int /\ SumOn(g, S) \in Int
  BY <1>1, SumInt
<1>3. SumOn(f, S) <= SumOn(g, S) /\ SumOn(g, S) <= SumOn(f, S)
  BY <1>1, SumLe
<1> QED
  BY <1>2, <1>3

\* Functions that agree but at a.
LEMMA SumBut ==
  ASSUME NEW f, NEW g, NEW S, IsFiniteSet(S), NEW a \in S, f[a] \in Int, g[a] \in Int,
         \A x \in S \ {a} : f[x] \in Int /\ g[x] = f[x]
  PROVE  SumOn(g, S) = SumOn(f, S) + g[a] - f[a]
<1>1. IsFiniteSet(S \ {a})
  BY FS_Subset
<1>2. SumOn(f, S \ {a}) = SumOn(g, S \ {a}) /\ SumOn(f, S \ {a}) \in Int
  BY <1>1, SumSame, SumInt
<1>3. (\A x \in S : f[x] \in Int) /\ (\A x \in S : g[x] \in Int)
  OBVIOUS
<1>4. SumOn(f, S) = f[a] + SumOn(f, S \ {a}) /\ SumOn(g, S) = g[a] + SumOn(g, S \ {a})
  BY <1>3, SumTakeOut
<1> QED
  BY <1>2, <1>4

\* The sum of two functions.
LEMMA SumAdd ==
  ASSUME NEW f, NEW g, NEW h, NEW S, IsFiniteSet(S),
         \A x \in S : f[x] \in Int /\ g[x] \in Int /\ h[x] = f[x] + g[x]
  PROVE  SumOn(h, S) = SumOn(f, S) + SumOn(g, S)
<1> DEFINE D == {T \in SUBSET S : SumOn(h, T) # SumOn(f, T) + SumOn(g, T)}
<1>1. ASSUME D # {} PROVE FALSE
  <2>1. PICK T \in D : T \subseteq S /\ IsFiniteSet(T) /\ \A x \in T : T \ {x} \notin D
    <3>1. D \subseteq SUBSET S
      OBVIOUS
    <3> HIDE DEF D
    <3> QED
      BY <3>1, <1>1, Minimal
  <2>2. T # {}
    BY <2>1, SumEmpty DEF SumOn
  <2>3. PICK x \in T : TRUE
    BY <2>2
  <2>4. /\ SumOn(f, T) = f[x] + SumOn(f, T \ {x}) /\ SumOn(g, T) = g[x] + SumOn(g, T \ {x})
        /\ SumOn(h, T) = h[x] + SumOn(h, T \ {x})
        /\ SumOn(h, T \ {x}) = SumOn(f, T \ {x}) + SumOn(g, T \ {x})
    <3>1. \A z \in T : f[z] \in Int /\ g[z] \in Int /\ h[z] \in Int
      BY <2>1
    <3> QED
      BY <2>1, <2>3, <3>1, SumTakeOut
  <2>5. SumOn(f, T \ {x}) \in Int /\ SumOn(g, T \ {x}) \in Int
    <3>1. IsFiniteSet(T \ {x}) /\ T \ {x} \subseteq S
      BY <2>1, FS_Subset
    <3> QED
      BY <3>1, SumInt
  <2>6. f[x] \in Int /\ g[x] \in Int /\ h[x] = f[x] + g[x]
    BY <2>1, <2>3
  <2>7. SumOn(h, T) = SumOn(f, T) + SumOn(g, T)
    BY <2>4, <2>5, <2>6
  <2> QED
    BY <2>1, <2>7
<1> QED
  BY <1>1

\* The sum of natural numbers is one, and no term is larger.
LEMMA SumNat ==
  ASSUME NEW f, NEW S, IsFiniteSet(S), \A x \in S : f[x] \in Nat
  PROVE  SumOn(f, S) \in Nat /\ \A x \in S : f[x] <= SumOn(f, S)
<1>1. ASSUME NEW T, T \subseteq S PROVE SumOn(f, T) \in Nat
  <2> DEFINE D == {U \in SUBSET T : SumOn(f, U) \notin Nat}
  <2>1. ASSUME D # {} PROVE FALSE
    <3>1. PICK U \in D : U \subseteq T /\ IsFiniteSet(U) /\ \A x \in U : U \ {x} \notin D
      <4>1. D \subseteq SUBSET T /\ IsFiniteSet(T)
        BY <1>1, FS_Subset
      <4> HIDE DEF D
      <4> QED
        BY <4>1, <2>1, Minimal
    <3>2. U # {}
      BY <3>1, SumEmpty DEF SumOn
    <3>3. PICK x \in U : SumOn(f, U) = f[x] + SumOn(f, U \ {x})
      BY <3>1, <3>2, SumRec DEF SumOn
    <3>4. SumOn(f, U \ {x}) \in Nat /\ f[x] \in Nat
      BY <1>1, <3>1, <3>3
    <3> QED
      BY <3>1, <3>3, <3>4
  <2> QED
    BY <2>1
<1>2. ASSUME NEW x \in S PROVE f[x] <= SumOn(f, S)
  <2>1. SumOn(f, S) = f[x] + SumOn(f, S \ {x})
    BY SumTakeOut
  <2>2. SumOn(f, S \ {x}) \in Nat
    BY <1>1
  <2> QED
    BY <2>1, <2>2
<1> QED
  BY <1>1, <1>2
=============================================================================
