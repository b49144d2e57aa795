--------------------------- MODULE OperatorProofs ---------------------------
(***************************************************************************)
(* TLAPS proofs about the operators of Protocol and Metrics, for texts and *)
(* samples of every length: what parse_request makes of a line, what the   *)
(* follower makes of the leader's REPLICATE line, how many messages the    *)
(* consumer counts in a FETCH response, and that percentiles are ordered.  *)
(*                                                                         *)
(* Inductions are over sets: LeastNumber, NumberInduction and SetInduction *)
(* say of the set of numbers, or of subsets, for which a formula holds     *)
(* that it contains all of them.                                           *)
(***************************************************************************)
EXTENDS Protocol, Metrics, FiniteSetTheorems, SequenceTheorems, TLAPS

----------------------------------------------------------------------------
(* Induction *)

\* A set of numbers has a least one.
LEMMA LeastNumber ==
    ASSUME NEW T, T \subseteq Nat, T # {}
    PROVE  \E m \in T : \A t \in T : m <= t
<1>1. PICK R : R = OpToRel(<, Nat)
  OBVIOUS
<1>2. IsWellFoundedOn(R, Nat)
  BY <1>1, NatLessThanWellFounded
<1>3. \A x, y \in Nat : x < y => <<x, y>> \in R
  BY <1>1 DEF OpToRel
<1>4. PICK m \in T : \A x \in T : <<x, m>> \notin R
  BY <1>2, WFMin
<1>5. ASSUME NEW t \in T PROVE m <= t
  <2>1. m \in Nat /\ t \in Nat /\ ~(t < m)
    BY <1>3, <1>4
  <2> QED
    BY <2>1
<1> QED
  BY <1>5

\* Min of FiniteSetsExt is that number.
LEMMA MinFacts ==
    ASSUME NEW T, T \subseteq Nat, T # {}
    PROVE  Min(T) \in T /\ \A t \in T : Min(T) <= t
  BY LeastNumber DEF Min

\* A set with 0 and every successor of its elements contains all numbers.
LEMMA NumberInduction ==
    ASSUME NEW F, 0 \in F, \A n \in Nat : n \in F => n + 1 \in F
    PROVE  Nat \subseteq F
<1> SUFFICES ASSUME Nat \ F # {} PROVE FALSE
  OBVIOUS
<1>1. PICK m \in Nat \ F : \A t \in Nat \ F : m <= t
  BY LeastNumber
<1>2. m # 0 /\ m - 1 \in Nat /\ ~(m <= m - 1)
  BY <1>1
<1>3. m - 1 \in F
  BY <1>1, <1>2
<1>4. (m - 1) + 1 = m
  BY <1>1
<1> QED
  BY <1>2, <1>3, <1>4

\* A family of subsets with the empty one, and with every subset that is in it without any
\* one element, contains all subsets.
LEMMA SetInduction ==
    ASSUME NEW S, IsFiniteSet(S), NEW F, {} \in F,
           \A T \in SUBSET S : T # {} /\ (\A x \in T : T \ {x} \in F) => T \in F
    PROVE  SUBSET S \subseteq F
<1> SUFFICES ASSUME NEW A \in SUBSET S, A \notin F PROVE FALSE
  OBVIOUS
<1>1. PICK N : N = {n \in Nat : \E T \in SUBSET S : T \notin F /\ Cardinality(T) = n}
  OBVIOUS
<1>2. Cardinality(A) \in N
  BY <1>1, FS_Subset, FS_CardinalityType
<1>3. PICK m \in N : \A n \in N : m <= n
  BY <1>1, <1>2, LeastNumber
<1>4. PICK T \in SUBSET S : T \notin F /\ Cardinality(T) = m
  BY <1>1, <1>3
<1>5. IsFiniteSet(T)
  BY FS_Subset
<1>6. ASSUME NEW x \in T, T \ {x} \notin F PROVE FALSE
  <2>1. IsFiniteSet(T \ {x}) /\ Cardinality(T \ {x}) = m - 1
    BY <1>4, <1>5, FS_RemoveElement
  <2>2. Cardinality(T \ {x}) \in Nat
    BY <2>1, FS_CardinalityType
  <2>3. Cardinality(T \ {x}) \in N
    BY <1>1, <1>6, <2>2
  <2>4. m \in Nat /\ m <= m - 1
    BY <1>1, <1>3, <2>1, <2>3
  <2> QED
    BY <2>4
<1> QED
  BY <1>4, <1>6

----------------------------------------------------------------------------
(* Sums *)

\* The element that a fold of the community modules takes first, and its recursion.
Chosen(s) == CHOOSE x \in s : TRUE
Step(f, h, s) == IF s = {} THEN 0 ELSE f[Chosen(s)] + h[s \ {Chosen(s)}]
Folds(f, S, h) == h = [s \in SUBSET S |-> Step(f, h, s)]

\* A sum is the value of some function with that recursion.
LEMMA SumUnfolds ==
    ASSUME NEW f, NEW S
    PROVE  SumFunctionOnSet(f, S) = (CHOOSE h : Folds(f, S, h))[S]
  BY DEF SumFunctionOnSet, FoldFunctionOnSet, MapThenFoldSet, Folds, Step, Chosen

\* There is only one on the subsets of a finite set.
LEMMA FoldUnique ==
    ASSUME NEW f, NEW S, IsFiniteSet(S), NEW h, Folds(f, S, h), NEW j, Folds(f, S, j)
    PROVE  h = j
<1>1. /\ h = [s \in SUBSET S |-> h[s]] /\ j = [s \in SUBSET S |-> j[s]]
      /\ \A s \in SUBSET S : h[s] = Step(f, h, s) /\ j[s] = Step(f, j, s)
  BY DEF Folds
<1>2. PICK F : F = {s \in SUBSET S : h[s] = j[s]}
  OBVIOUS
<1>3. {} \in F
  BY <1>1, <1>2 DEF Step
<1>4. ASSUME NEW T \in SUBSET S, T # {}, \A x \in T : T \ {x} \in F PROVE T \in F
  <2>1. Chosen(T) \in T
    BY <1>4 DEF Chosen
  <2>2. h[T \ {Chosen(T)}] = j[T \ {Chosen(T)}]
    BY <1>2, <1>4, <2>1
  <2>3. h[T] = j[T]
    BY <1>1, <1>4, <2>2 DEF Step
  <2> QED
    BY <1>2, <2>3
<1>5. SUBSET S \subseteq F
  BY <1>3, <1>4, SetInduction
<1> QED
  BY <1>1, <1>2, <1>5

\* The sum over a finite set is the recursion.
LEMMA SumRecursion ==
    ASSUME NEW f, NEW S, IsFiniteSet(S)
    PROVE  SumFunctionOnSet(f, S) =
              IF S = {} THEN 0 ELSE f[Chosen(S)] + SumFunctionOnSet(f, S \ {Chosen(S)})
<1> DEFINE Sum == [s \in SUBSET S |-> SumFunctionOnSet(f, s)]
           F == {T \in SUBSET S : SumFunctionOnSet(f, T) = Step(f, Sum, T)}
<1>1. ASSUME NEW T \in SUBSET S, \A U \in SUBSET T : U # T => U \in F
      PROVE  T \in F
  <2> DEFINE h == [s \in SUBSET T |-> Step(f, Sum, s)]
  <2>1. IsFiniteSet(T)
    BY FS_Subset
  <2>2. ASSUME NEW s \in SUBSET T, s # {} PROVE h[s \ {Chosen(s)}] = Sum[s \ {Chosen(s)}]
    <3>1. Chosen(s) \in s
      BY <2>2 DEF Chosen
    <3>2. PICK u : u = s \ {Chosen(s)}
      OBVIOUS
    <3>3. u \in SUBSET T /\ u # T /\ u \in SUBSET S
      BY <3>1, <3>2
    <3>4. h[u] = Step(f, Sum, u) /\ Sum[u] = SumFunctionOnSet(f, u)
      BY <3>3
    <3>5. SumFunctionOnSet(f, u) = Step(f, Sum, u)
      BY <1>1, <3>3
    <3> QED
      BY <3>2, <3>4, <3>5
  <2>3. ASSUME NEW s \in SUBSET T PROVE Step(f, Sum, s) = Step(f, h, s)
    BY <2>2 DEF Step
  <2>4. Folds(f, T, h)
    BY <2>3 DEF Folds
  <2>5. h = CHOOSE j : Folds(f, T, j)
    <3> HIDE DEF h
    <3>1. PICK g : g = CHOOSE j : Folds(f, T, j)
      OBVIOUS
    <3>2. Folds(f, T, g)
      BY <2>4, <3>1
    <3> QED
      BY <2>1, <2>4, <3>1, <3>2, FoldUnique
  <2>6. SumFunctionOnSet(f, T) = h[T]
    BY <2>5, SumUnfolds
  <2> QED
    BY <2>6
<1>2. PICK G : G = {T \in SUBSET S : \A U \in SUBSET T : U \in F}
  OBVIOUS
<1>3. {} \in F
  <2> HIDE DEF F
  <2>1. {} \in SUBSET S /\ \A U \in SUBSET {} : U = {}
    OBVIOUS
  <2> QED
    BY <1>1, <2>1
<1>4. {} \in G
  BY <1>2, <1>3
<1>5. ASSUME NEW T \in SUBSET S, T # {}, \A x \in T : T \ {x} \in G PROVE T \in G
  <2>1. ASSUME NEW U \in SUBSET T, U # T PROVE U \in F
    <3>1. PICK x \in T : x \notin U
      BY <2>1
    <3> QED
      BY <1>2, <1>5, <3>1
  <2>2. T \in F
    BY <1>1, <2>1
  <2> QED
    BY <1>2, <2>1, <2>2
<1>6. S \in G
  BY <1>4, <1>5, SetInduction
<1>7. SumFunctionOnSet(f, S) = Step(f, Sum, S)
  BY <1>2, <1>6
<1> QED
  BY <1>7 DEF Step

\* Sums of numbers are numbers, and the sum over nothing is 0.
LEMMA SumType ==
    ASSUME NEW S, IsFiniteSet(S), NEW f, \A x \in S : f[x] \in Nat
    PROVE  SumFunctionOnSet(f, S) \in Nat /\ SumFunctionOnSet(f, {}) = 0
<1>1. PICK F : F = {T \in SUBSET S : SumFunctionOnSet(f, T) \in Nat}
  OBVIOUS
<1>2. SumFunctionOnSet(f, {}) = 0
  BY SumRecursion, FS_EmptySet
<1>3. ASSUME NEW T \in SUBSET S, T # {}, \A x \in T : T \ {x} \in F PROVE T \in F
  <2>1. PICK c : c = Chosen(T)
    OBVIOUS
  <2>2. c \in T
    BY <1>3, <2>1 DEF Chosen
  <2>3. IsFiniteSet(T)
    BY FS_Subset
  <2>4. SumFunctionOnSet(f, T) = f[c] + SumFunctionOnSet(f, T \ {c})
    BY <1>3, <2>1, <2>3, SumRecursion
  <2>5. SumFunctionOnSet(f, T \ {c}) \in Nat
    BY <1>1, <1>3, <2>2
  <2>6. f[c] \in Nat
    BY <2>2
  <2> QED
    BY <1>1, <2>4, <2>5, <2>6
<1>4. {} \in F
  BY <1>1, <1>2
<1>5. S \in F
  BY <1>3, <1>4, SetInduction
<1> QED
  BY <1>1, <1>2, <1>5

\* Any element may be added last.
LEMMA SumRemove ==
    ASSUME NEW S, IsFiniteSet(S), NEW f, \A x \in S : f[x] \in Nat, NEW a \in S
    PROVE  SumFunctionOnSet(f, S) = f[a] + SumFunctionOnSet(f, S \ {a})
<1>1. PICK F : F = {T \in SUBSET S :
                      \A x \in T : SumFunctionOnSet(f, T) = f[x] + SumFunctionOnSet(f, T \ {x})}
  OBVIOUS
<1>2. {} \in F
  BY <1>1
<1>3. ASSUME NEW T \in SUBSET S, T # {}, \A x \in T : T \ {x} \in F PROVE T \in F
  <2>1. PICK c : c = Chosen(T)
    OBVIOUS
  <2>2. c \in T
    BY <1>3, <2>1 DEF Chosen
  <2>3. IsFiniteSet(T)
    BY FS_Subset
  <2>4. SumFunctionOnSet(f, T) = f[c] + SumFunctionOnSet(f, T \ {c})
    BY <1>3, <2>1, <2>3, SumRecursion
  <2>5. ASSUME NEW x \in T, x # c
        PROVE  SumFunctionOnSet(f, T) = f[x] + SumFunctionOnSet(f, T \ {x})
    <3>1. PICK U : U = (T \ {c}) \ {x}
      OBVIOUS
    <3>2. U = (T \ {x}) \ {c} /\ U \in SUBSET S
      BY <3>1
    <3>3. SumFunctionOnSet(f, T \ {c}) = f[x] + SumFunctionOnSet(f, U)
      BY <1>1, <1>3, <2>2, <2>5, <3>1
    <3>4. SumFunctionOnSet(f, T \ {x}) = f[c] + SumFunctionOnSet(f, U)
      BY <1>1, <1>3, <2>2, <2>5, <3>2
    <3>5. SumFunctionOnSet(f, U) \in Nat
      <4>1. IsFiniteSet(U) /\ \A y \in U : f[y] \in Nat
        BY <3>2, FS_Subset
      <4> QED
        BY <4>1, SumType
    <3>6. f[c] \in Nat /\ f[x] \in Nat
      BY <2>2, <2>5
    <3> QED
      BY <2>4, <3>3, <3>4, <3>5, <3>6
  <2> QED
    BY <1>1, <2>4, <2>5
<1>4. S \in F
  BY <1>2, <1>3, SetInduction
<1> QED
  BY <1>1, <1>4

\* Equal functions have equal sums.
LEMMA SumSame ==
    ASSUME NEW S, IsFiniteSet(S), NEW f, NEW g, \A x \in S : f[x] = g[x]
    PROVE  SumFunctionOnSet(f, S) = SumFunctionOnSet(g, S)
<1>1. PICK F : F = {T \in SUBSET S : SumFunctionOnSet(f, T) = SumFunctionOnSet(g, T)}
  OBVIOUS
<1>2. {} \in F
  BY <1>1, SumRecursion, FS_EmptySet
<1>3. ASSUME NEW T \in SUBSET S, T # {}, \A x \in T : T \ {x} \in F PROVE T \in F
  <2>1. PICK c : c = Chosen(T)
    OBVIOUS
  <2>2. c \in T /\ f[c] = g[c]
    BY <1>3, <2>1 DEF Chosen
  <2>3. IsFiniteSet(T)
    BY FS_Subset
  <2>4. /\ SumFunctionOnSet(f, T) = f[c] + SumFunctionOnSet(f, T \ {c})
        /\ SumFunctionOnSet(g, T) = g[c] + SumFunctionOnSet(g, T \ {c})
    BY <1>3, <2>1, <2>3, SumRecursion
  <2>5. SumFunctionOnSet(f, T \ {c}) = SumFunctionOnSet(g, T \ {c})
    BY <1>1, <1>3, <2>2
  <2> QED
    BY <1>1, <2>2, <2>4, <2>5
<1>4. S \in F
  BY <1>2, <1>3, SetInduction
<1> QED
  BY <1>1, <1>4

\* One more element.
LEMMA SumInsert ==
    ASSUME NEW S, IsFiniteSet(S), NEW a, a \notin S, NEW f, \A x \in S \cup {a} : f[x] \in Nat
    PROVE  SumFunctionOnSet(f, S \cup {a}) = f[a] + SumFunctionOnSet(f, S)
<1>1. IsFiniteSet(S \cup {a}) /\ (S \cup {a}) \ {a} = S
  BY FS_AddElement
<1> QED
  BY <1>1, SumRemove

\* One summand grows.
LEMMA SumUpdate ==
    ASSUME NEW S, IsFiniteSet(S), NEW f \in [S -> Nat], NEW a \in S, NEW n \in Nat,
           NEW g, g = [f EXCEPT ![a] = @ + n]
    PROVE  SumFunction(g) = SumFunction(f) + n
<1>1. g \in [S -> Nat] /\ g[a] = f[a] + n /\ f[a] \in Nat /\ \A x \in S \ {a} : g[x] = f[x]
  OBVIOUS
<1>2. DOMAIN f = S /\ DOMAIN g = S
  BY <1>1
<1>3. IsFiniteSet(S \ {a})
  BY FS_RemoveElement
<1>4. PICK r : r = SumFunctionOnSet(f, S \ {a})
  OBVIOUS
<1>5. SumFunctionOnSet(g, S \ {a}) = r
  BY <1>1, <1>3, <1>4, SumSame
<1>6. SumFunctionOnSet(f, S) = f[a] + r /\ SumFunctionOnSet(g, S) = g[a] + r
  <2>1. \A x \in S : f[x] \in Nat
    OBVIOUS
  <2>2. SumFunctionOnSet(f, S) = f[a] + r
    BY <1>4, <2>1, SumRemove
  <2>3. \A x \in S : g[x] \in Nat
    BY <1>1
  <2>4. SumFunctionOnSet(g, S) = g[a] + r
    BY <1>5, <2>3, SumRemove
  <2> QED
    BY <2>2, <2>4
<1>7. r \in Nat
  BY <1>3, <1>4, SumType
<1> QED
  BY <1>1, <1>2, <1>6, <1>7 DEF SumFunction

\* A sum is the sum of two parts.
LEMMA SumSplit ==
    ASSUME NEW S, IsFiniteSet(S), NEW f, \A x \in S : f[x] \in Nat, NEW T \in SUBSET S
    PROVE  SumFunctionOnSet(f, S) = SumFunctionOnSet(f, T) + SumFunctionOnSet(f, S \ T)
<1>1. PICK F : F = {U \in SUBSET (S \ T) : SumFunctionOnSet(f, T \cup U) =
                                             SumFunctionOnSet(f, T) + SumFunctionOnSet(f, U)}
  OBVIOUS
<1>2. IsFiniteSet(T) /\ IsFiniteSet(S \ T)
  BY FS_Subset
<1>3. SumFunctionOnSet(f, T) \in Nat /\ SumFunctionOnSet(f, {}) = 0
  BY <1>2, SumType
<1>4. {} \in F
  <2>1. T \cup {} = T /\ {} \in SUBSET (S \ T)
    OBVIOUS
  <2> QED
    BY <1>1, <1>3, <2>1
<1>5. ASSUME NEW U \in SUBSET (S \ T), U # {}, \A x \in U : U \ {x} \in F PROVE U \in F
  <2>1. PICK a : a \in U
    BY <1>5
  <2>2. IsFiniteSet(U) /\ IsFiniteSet(T \cup U) /\ IsFiniteSet(U \ {a})
    BY FS_Subset
  <2>3. /\ SumFunctionOnSet(f, U) = f[a] + SumFunctionOnSet(f, U \ {a})
        /\ SumFunctionOnSet(f, T \cup U) = f[a] + SumFunctionOnSet(f, (T \cup U) \ {a})
    BY <2>1, <2>2, SumRemove
  <2>4. (T \cup U) \ {a} = T \cup (U \ {a})
    BY <2>1
  <2>5. SumFunctionOnSet(f, T \cup (U \ {a})) = SumFunctionOnSet(f, T) + SumFunctionOnSet(f, U \ {a})
    BY <1>1, <1>5, <2>1
  <2>6. SumFunctionOnSet(f, U \ {a}) \in Nat /\ f[a] \in Nat
    BY <2>1, <2>2, SumType
  <2>7. PICK x, y, z : /\ x = SumFunctionOnSet(f, T \cup (U \ {a})) /\ y = SumFunctionOnSet(f, T)
                       /\ z = SumFunctionOnSet(f, U \ {a})
    OBVIOUS
  <2>8. f[a] + x = y + (f[a] + z)
    BY <1>3, <2>5, <2>6, <2>7
  <2>9. SumFunctionOnSet(f, T \cup U) = SumFunctionOnSet(f, T) + SumFunctionOnSet(f, U)
    BY <2>3, <2>4, <2>7, <2>8
  <2> QED
    BY <1>1, <2>9
<1>6. SUBSET (S \ T) \subseteq F
  BY <1>2, <1>4, <1>5, SetInduction
<1>7. S \ T \in F /\ T \cup (S \ T) = S
  <2>1. S \ T \in SUBSET (S \ T) /\ T \cup (S \ T) = S
    OBVIOUS
  <2> QED
    BY <1>6, <2>1
<1> QED
  BY <1>1, <1>7

\* The sum of products is at most the product of the sum, in numbers,
LEMMA ProductStep ==
    ASSUME NEW m \in Nat, NEW x \in Nat, NEW y \in Nat, NEW s \in Nat, NEW z \in Nat,
           z <= m * y, s <= m * x
    PROVE  z + s <= m * (y + x)
  OBVIOUS

\* and over sets.
LEMMA SumBound ==
    ASSUME NEW S, IsFiniteSet(S), NEW f, NEW g, NEW m \in Nat,
           \A x \in S : f[x] \in Nat /\ g[x] \in Nat /\ g[x] <= m * f[x]
    PROVE  SumFunctionOnSet(g, S) <= m * SumFunctionOnSet(f, S)
<1>1. PICK F : F = {T \in SUBSET S : SumFunctionOnSet(g, T) <= m * SumFunctionOnSet(f, T)}
  OBVIOUS
<1>2. SumFunctionOnSet(f, {}) = 0 /\ SumFunctionOnSet(g, {}) = 0
  BY SumType
<1>3. {} \in F
  BY <1>1, <1>2
<1>4. ASSUME NEW T \in SUBSET S, T # {}, \A x \in T : T \ {x} \in F PROVE T \in F
  <2>1. PICK a : a \in T
    BY <1>4
  <2>2. IsFiniteSet(T) /\ IsFiniteSet(T \ {a})
    BY FS_Subset
  <2>3. /\ SumFunctionOnSet(f, T) = f[a] + SumFunctionOnSet(f, T \ {a})
        /\ SumFunctionOnSet(g, T) = g[a] + SumFunctionOnSet(g, T \ {a})
    BY <2>1, <2>2, SumRemove
  <2>4. PICK x \in Nat, y \in Nat, s \in Nat, z \in Nat :
          /\ x = SumFunctionOnSet(f, T \ {a}) /\ s = SumFunctionOnSet(g, T \ {a})
          /\ y = f[a] /\ z = g[a]
    BY <2>1, <2>2, SumType
  <2>5. s <= m * x
    BY <1>1, <1>4, <2>1, <2>4
  <2>6. z <= m * y
    BY <2>1, <2>4
  <2>7. z + s <= m * (y + x)
    BY <2>5, <2>6, ProductStep
  <2> QED
    BY <1>1, <2>3, <2>4, <2>7
<1>5. S \in F
  BY <1>3, <1>4, SetInduction
<1> QED
  BY <1>1, <1>5

----------------------------------------------------------------------------
(* Metrics::snapshot *)

\* Max of FiniteSetsExt is the largest number of a finite set.
LEMMA MaxFacts ==
    ASSUME NEW S, IsFiniteSet(S), S \subseteq Nat, S # {}
    PROVE  Max(S) \in S /\ \A x \in S : x <= Max(S)
<1>1. PICK F : F = {T \in SUBSET S : T # {} => \E m \in T : \A x \in T : x <= m}
  OBVIOUS
<1>2. {} \in F
  BY <1>1
<1>3. ASSUME NEW T \in SUBSET S, T # {}, \A x \in T : T \ {x} \in F PROVE T \in F
  <2>1. PICK a : a \in T
    BY <1>3
  <2>2. CASE T \ {a} = {}
    <3>1. \A x \in T : x = a
      BY <2>1, <2>2
    <3>2. a \in Nat /\ a <= a
      BY <2>1
    <3> QED
      BY <1>1, <2>1, <3>1, <3>2
  <2>3. CASE T \ {a} # {}
    <3>1. PICK m \in T \ {a} : \A x \in T \ {a} : x <= m
      BY <1>1, <1>3, <2>1, <2>3
    <3>2. a \in Nat /\ m \in Nat /\ \A x \in T : x \in Nat
      BY <2>1
    <3>3. CASE a <= m
      <4>1. \A x \in T : x <= m
        BY <3>1, <3>3
      <4> QED
        BY <1>1, <4>1
    <3>4. CASE ~(a <= m)
      <4>1. \A x \in T : x <= a
        BY <3>1, <3>2, <3>4
      <4> QED
        BY <1>1, <2>1, <4>1
    <3> QED
      BY <3>3, <3>4
  <2> QED
    BY <2>2, <2>3
<1>4. S \in F
  BY <1>2, <1>3, SetInduction
<1>5. \E m \in S : \A x \in S : m >= x
  BY <1>1, <1>4
<1> QED
  BY <1>5 DEF Max

\* The sorted samples at the indices of the vector are in order, and none is beyond a
\* latency that no sample exceeds.
LEMMA SortedFacts ==
    ASSUME NEW samples \in [Latency -> Nat], NEW top \in Latency,
           \A l \in Latency : samples[l] > 0 => l <= top
    PROVE  /\ Size(samples) \in Nat
           /\ \A i \in Nat : i < Size(samples) =>
                 /\ Sorted(samples, i) \in Nat /\ Sorted(samples, i) <= top
                 /\ \A j \in Nat : i <= j /\ j < Size(samples) =>
                       Sorted(samples, i) <= Sorted(samples, j)
<1> DEFINE Upto(l) == SumFunctionOnSet(samples, {m \in Latency : m <= l})
           Beyond(i) == {l \in Latency : Upto(l) > i}
<1>1. IsFiniteSet(Latency) /\ Latency \subseteq Nat /\ \A l \in Latency : samples[l] \in Nat
  BY LatencyAssumption
<1>2. Size(samples) = SumFunctionOnSet(samples, Latency) /\ DOMAIN samples = Latency
  BY DEF Size, SumFunction
<1>3. Size(samples) \in Nat
  BY <1>1, <1>2, SumType
<1>4. Upto(top) = Size(samples)
  <2>1. PICK T : T = {m \in Latency : m <= top}
    OBVIOUS
  <2>2. T \in SUBSET Latency /\ IsFiniteSet(T) /\ IsFiniteSet(Latency \ T)
    BY <1>1, <2>1, FS_Subset
  <2>3. SumFunctionOnSet(samples, Latency) =
           SumFunctionOnSet(samples, T) + SumFunctionOnSet(samples, Latency \ T)
    BY <1>1, <2>2, SumSplit
  <2>4. ASSUME NEW x \in Latency \ T PROVE samples[x] = 0
    <3>1. x \in Nat /\ top \in Nat /\ ~(x <= top) /\ samples[x] \in Nat
      BY <1>1, <2>1
    <3> QED
      BY <3>1
  <2>5. SumFunctionOnSet(samples, Latency \ T) <= 0 * SumFunctionOnSet(samples, Latency \ T)
    BY <2>2, <2>4, SumBound
  <2>6. SumFunctionOnSet(samples, Latency \ T) \in Nat /\ SumFunctionOnSet(samples, T) \in Nat
    BY <1>1, <2>2, SumType
  <2> QED
    BY <1>2, <2>1, <2>3, <2>5, <2>6
<1>5. ASSUME NEW l \in Latency PROVE Upto(l) \in Nat
  <2>1. PICK T : T = {m \in Latency : m <= l}
    OBVIOUS
  <2>2. T \in SUBSET Latency /\ IsFiniteSet(T)
    BY <1>1, <2>1, FS_Subset
  <2> QED
    BY <1>1, <2>1, <2>2, SumType
<1>6. \A i : Sorted(samples, i) = Min(Beyond(i))
  BY DEF Sorted
<1> HIDE DEF Upto
<1>7. ASSUME NEW i \in Nat, i < Size(samples)
      PROVE  /\ Sorted(samples, i) \in Beyond(i) /\ Sorted(samples, i) \in Nat
             /\ \A l \in Beyond(i) : Sorted(samples, i) <= l
             /\ Sorted(samples, i) <= top
  <2>1. top \in Beyond(i)
    BY <1>3, <1>4, <1>7
  <2>2. Beyond(i) \subseteq Nat /\ Beyond(i) # {}
    BY <1>1, <2>1
  <2>3. Min(Beyond(i)) \in Beyond(i) /\ \A l \in Beyond(i) : Min(Beyond(i)) <= l
    <3> HIDE DEF Beyond
    <3> QED
      BY <2>2, MinFacts
  <2> QED
    BY <1>6, <2>1, <2>2, <2>3
<1>8. ASSUME NEW i \in Nat, i < Size(samples), NEW j \in Nat, i <= j, j < Size(samples)
      PROVE  Sorted(samples, i) <= Sorted(samples, j)
  <2>1. Sorted(samples, j) \in Beyond(j)
    BY <1>7, <1>8
  <2>2. Sorted(samples, j) \in Beyond(i)
    BY <1>5, <1>8, <2>1
  <2> QED
    BY <1>7, <1>8, <2>2
<1> QED
  BY <1>3, <1>7, <1>8

\* Interpolation between two samples stays between them, and grows with the weight.
LEMMA Interpolation ==
    ASSUME NEW a \in Nat, NEW b \in Nat, a <= b, NEW w \in 0..99
    PROVE  /\ (b - a) * w \in Nat /\ (b - a) * w <= (b - a) * 100
           /\ \A v \in 0..99 : w <= v => (b - a) * w <= (b - a) * v
  OBVIOUS

\* The rank of a percentile lies within the vector.
LEMMA RankFacts ==
    ASSUME NEW n \in Nat, n > 0, NEW p \in 0..100
    PROVE  /\ p * (n - 1) \in Nat
           /\ (p * (n - 1)) \div 100 \in Nat /\ (p * (n - 1)) \div 100 < n
           /\ (p * (n - 1) + 99) \div 100 \in Nat /\ (p * (n - 1) + 99) \div 100 < n
<1>1. PICK r : r = p * (n - 1)
  OBVIOUS
<1>2. r \in Nat /\ r <= 100 * (n - 1)
  BY <1>1
<1> QED
  BY <1>1, <1>2

\* The value between two indices of the sorted samples, in hundredths.
Weighted(samples, r) ==
    100 * Sorted(samples, r \div 100)
        + (Sorted(samples, (r + 99) \div 100) - Sorted(samples, r \div 100)) * (r % 100)

\* It lies between the samples at the two indices.
LEMMA WeightedFacts ==
    ASSUME NEW samples \in [Latency -> Nat], NEW top \in Latency,
           \A l \in Latency : samples[l] > 0 => l <= top,
           NEW r \in Nat, r + 100 <= 100 * Size(samples)
    PROVE  /\ Weighted(samples, r) \in Nat
           /\ 100 * Sorted(samples, r \div 100) <= Weighted(samples, r)
           /\ Weighted(samples, r) <= 100 * Sorted(samples, (r + 99) \div 100)
           /\ Weighted(samples, r) <= 100 * top
<1>1. PICK n : n = Size(samples)
  OBVIOUS
<1>2. n \in Nat
  BY <1>1, SortedFacts
<1>3. PICK i, j, w : i = r \div 100 /\ j = (r + 99) \div 100 /\ w = r % 100
  OBVIOUS
<1>4. i \in Nat /\ j \in Nat /\ i <= j /\ i < n /\ j < n /\ w \in 0..99
  BY <1>1, <1>2, <1>3
<1>5. PICK a, b : a = Sorted(samples, i) /\ b = Sorted(samples, j)
  OBVIOUS
<1>6. a \in Nat /\ b \in Nat /\ a <= b /\ b <= top /\ top \in Nat
  <2>1. a \in Nat /\ b \in Nat /\ b <= top
    BY <1>1, <1>4, <1>5, SortedFacts
  <2>2. a <= b
    BY <1>1, <1>4, <1>5, SortedFacts
  <2> QED
    BY <2>1, <2>2, LatencyAssumption
<1>7. PICK d : d = (b - a) * w
  OBVIOUS
<1>8. d \in Nat /\ d <= (b - a) * 100
  BY <1>4, <1>6, <1>7, Interpolation
<1>9. Weighted(samples, r) = 100 * a + d
  BY <1>3, <1>5, <1>7 DEF Weighted
<1> QED
  BY <1>3, <1>5, <1>6, <1>8, <1>9

\* A higher rank has no smaller value.
LEMMA WeightedOrder ==
    ASSUME NEW samples \in [Latency -> Nat], NEW top \in Latency,
           \A l \in Latency : samples[l] > 0 => l <= top,
           NEW r \in Nat, NEW s \in Nat, r <= s, s + 100 <= 100 * Size(samples)
    PROVE  Weighted(samples, r) <= Weighted(samples, s)
<1>1. PICK n : n = Size(samples)
  OBVIOUS
<1>2. n \in Nat
  BY <1>1, SortedFacts
<1>3. PICK i, j, w, x, y, v :
        /\ i = r \div 100 /\ j = (r + 99) \div 100 /\ w = r % 100
        /\ x = s \div 100 /\ y = (s + 99) \div 100 /\ v = s % 100
  OBVIOUS
<1>4. /\ i \in Nat /\ j \in Nat /\ x \in Nat /\ y \in Nat
      /\ i <= j /\ x <= y /\ i < n /\ j < n /\ x < n /\ y < n
      /\ w \in 0..99 /\ v \in 0..99
      /\ \/ j <= x
         \/ i = x /\ j = y /\ w <= v
  BY <1>1, <1>2, <1>3
<1>5. CASE j <= x
  <2>1. Weighted(samples, r) \in Nat /\ Weighted(samples, r) <= 100 * Sorted(samples, j)
    BY <1>1, <1>2, <1>3, WeightedFacts
  <2>2. Weighted(samples, s) \in Nat /\ 100 * Sorted(samples, x) <= Weighted(samples, s)
    BY <1>1, <1>2, <1>3, WeightedFacts
  <2>3. /\ Sorted(samples, j) \in Nat /\ Sorted(samples, x) \in Nat
        /\ Sorted(samples, j) <= Sorted(samples, x)
    BY <1>1, <1>4, <1>5, SortedFacts
  <2> QED
    BY <2>1, <2>2, <2>3
<1>6. CASE i = x /\ j = y /\ w <= v
  <2>1. PICK a, b : a = Sorted(samples, i) /\ b = Sorted(samples, j)
    OBVIOUS
  <2>2. a \in Nat /\ b \in Nat /\ a <= b
    BY <1>1, <1>4, <2>1, SortedFacts
  <2>3. (b - a) * w \in Nat /\ (b - a) * v \in Nat /\ (b - a) * w <= (b - a) * v
    BY <1>4, <1>6, <2>2, Interpolation
  <2>4. Weighted(samples, r) = 100 * a + (b - a) * w /\ Weighted(samples, s) = 100 * a + (b - a) * v
    BY <1>3, <1>6, <2>1 DEF Weighted
  <2> QED
    BY <2>2, <2>3, <2>4
<1> QED
  BY <1>4, <1>5, <1>6

\* The average of bounded numbers.
LEMMA AverageBound ==
    ASSUME NEW n \in Nat, n > 0, NEW m \in Nat, NEW s \in Nat, s <= m * n
    PROVE  s \div n \in Nat /\ s \div n <= m
<1>1. PICK q : q = s \div n
  OBVIOUS
<1>2. q \in Nat /\ q * n <= s
  BY <1>1
<1>3. ASSUME q >= m + 1 PROVE FALSE
  <2>1. q * n >= (m + 1) * n
    BY <1>2, <1>3
  <2>2. (m + 1) * n = m * n + n
    OBVIOUS
  <2>3. m * n \in Nat /\ (m + 1) * n \in Nat /\ q * n \in Nat
    BY <1>2
  <2> QED
    BY <1>2, <2>1, <2>2, <2>3
<1> QED
  BY <1>1, <1>2, <1>3

\* Whatever the samples, what snapshot makes of them is numbers in order.
THEOREM ReportOrdered ==
    ASSUME NEW samples \in [Latency -> Nat], NEW report, report = LatencyReport(samples)
    PROVE  /\ report \in [max : Nat, average : Nat, p50 : Nat, p95 : Nat, p99 : Nat]
           /\ report.p50 <= report.p95 /\ report.p95 <= report.p99
           /\ report.p99 <= report.max /\ report.average <= report.max
<1>1. PICK present : present = {l \in Latency : samples[l] > 0}
  OBVIOUS
<1>2. PICK n : n = Size(samples)
  OBVIOUS
<1>3. IsFiniteSet(Latency) /\ Latency \subseteq Nat /\ \A l \in Latency : samples[l] \in Nat
  BY LatencyAssumption
<1>4. n = SumFunctionOnSet(samples, Latency) /\ n \in Nat
  <2>1. n = SumFunctionOnSet(samples, Latency) /\ DOMAIN samples = Latency
    BY <1>2 DEF Size, SumFunction
  <2> QED
    BY <1>3, <2>1, SumType
<1>5. PICK total : total = SumFunction([l \in Latency |-> l * samples[l]])
  OBVIOUS
<1>6. /\ report.max = IF present = {} THEN 0 ELSE Max(present)
      /\ report.average = IF present = {} THEN 0 ELSE total \div n
      /\ report.p50 = percentile_value(samples, 50)
      /\ report.p95 = percentile_value(samples, 95)
      /\ report.p99 = percentile_value(samples, 99)
      /\ report = [max |-> report.max, average |-> report.average, p50 |-> report.p50,
                   p95 |-> report.p95, p99 |-> report.p99]
  BY <1>1, <1>2, <1>5 DEF LatencyReport
<1>7. ASSUME NEW p
      PROVE  percentile_value(samples, p) = IF n = 0 THEN 0 ELSE Weighted(samples, p * (n - 1)) \div 100
  BY <1>2 DEF percentile_value, Weighted
<1>8. CASE present = {}
  <2>1. ASSUME NEW l \in Latency PROVE samples[l] <= 0 * samples[l]
    <3>1. samples[l] \in Nat /\ ~(samples[l] > 0)
      BY <1>1, <1>3, <1>8
    <3> QED
      BY <3>1
  <2>2. n <= 0 * n
    BY <1>3, <1>4, <2>1, SumBound
  <2>3. n = 0
    BY <1>4, <2>2
  <2> QED
    BY <1>6, <1>7, <1>8, <2>3
<1>9. CASE present # {}
  <2>1. PICK top : top = Max(present)
    OBVIOUS
  <2>2. IsFiniteSet(present) /\ present \subseteq Nat
    BY <1>1, <1>3, FS_Subset
  <2>3. top \in present /\ \A l \in present : l <= top
    BY <1>9, <2>1, <2>2, MaxFacts
  <2>4. top \in Latency /\ top \in Nat /\ \A l \in Latency : samples[l] > 0 => l <= top
    BY <1>1, <1>3, <2>3
  <2>5. n > 0
    <3>1. n = samples[top] + SumFunctionOnSet(samples, Latency \ {top})
      BY <1>3, <1>4, <2>4, SumRemove
    <3>2. SumFunctionOnSet(samples, Latency \ {top}) \in Nat
      BY <1>3, FS_RemoveElement, SumType
    <3>3. samples[top] \in Nat /\ samples[top] > 0
      BY <1>1, <1>3, <2>3
    <3> QED
      BY <3>1, <3>2, <3>3
  <2>6. PICK a, b, c : a = 50 * (n - 1) /\ b = 95 * (n - 1) /\ c = 99 * (n - 1)
    OBVIOUS
  <2>7. /\ a \in Nat /\ b \in Nat /\ c \in Nat /\ a <= b /\ b <= c
        /\ a + 100 <= 100 * n /\ b + 100 <= 100 * n /\ c + 100 <= 100 * n
    BY <1>4, <2>5, <2>6
  <2>8. PICK x, y, z : x = Weighted(samples, a) /\ y = Weighted(samples, b) /\ z = Weighted(samples, c)
    OBVIOUS
  <2>9. x \in Nat /\ y \in Nat /\ z \in Nat /\ z <= 100 * top
    BY <1>2, <2>4, <2>7, <2>8, WeightedFacts
  <2>10. x <= y
    BY <1>2, <2>4, <2>7, <2>8, WeightedOrder
  <2>11. y <= z
    BY <1>2, <2>4, <2>7, <2>8, WeightedOrder
  <2>12. report.p50 = x \div 100 /\ report.p95 = y \div 100 /\ report.p99 = z \div 100
    <3>1. n # 0
      BY <1>4, <2>5
    <3> QED
      BY <1>6, <1>7, <2>6, <2>8, <3>1
  <2>13. /\ report.p50 \in Nat /\ report.p95 \in Nat /\ report.p99 \in Nat
         /\ report.p50 <= report.p95 /\ report.p95 <= report.p99 /\ report.p99 <= top
    BY <2>4, <2>9, <2>10, <2>11, <2>12
  <2>14. report.average \in Nat /\ report.average <= top
    <3>1. PICK g : g = [l \in Latency |-> l * samples[l]]
      OBVIOUS
    <3>2. DOMAIN g = Latency /\ total = SumFunctionOnSet(g, Latency)
      BY <1>5, <3>1 DEF SumFunction
    <3>3. ASSUME NEW l \in Latency
          PROVE  samples[l] \in Nat /\ g[l] \in Nat /\ g[l] <= top * samples[l]
      <4>1. g[l] = l * samples[l] /\ l \in Nat /\ samples[l] \in Nat
        BY <1>3, <3>1
      <4>2. CASE samples[l] > 0
        <5>1. l <= top
          BY <2>4, <4>2
        <5> QED
          BY <2>4, <4>1, <5>1
      <4>3. CASE ~(samples[l] > 0)
        <5>1. samples[l] = 0
          BY <4>1, <4>3
        <5> QED
          BY <2>4, <4>1, <5>1
      <4> QED
        BY <4>2, <4>3
    <3>4. total \in Nat
      BY <1>3, <3>2, <3>3, SumType
    <3>5. total <= top * n
      BY <1>3, <1>4, <2>4, <3>2, <3>3, SumBound
    <3>6. total \div n \in Nat /\ total \div n <= top
      BY <1>4, <2>4, <2>5, <3>4, <3>5, AverageBound
    <3> QED
      BY <1>6, <1>9, <3>6
  <2>15. report.max = top
    BY <1>6, <1>9, <2>1
  <2> QED
    BY <1>6, <2>4, <2>13, <2>14, <2>15
<1> QED
  BY <1>8, <1>9

----------------------------------------------------------------------------
(* parse_request *)

\* A message as PRODUCE lets it in: one line, not empty, without leading spaces unless it
\* has nothing else.
Message ==
    {m \in Seq(Char \ {"break"}) : m # <<>> /\ (m[1] = "space" => \A i \in 1..Len(m) : m[i] = "space")}

\* getline returns what has no line break, and all of a text that has none.
LEMMA LineFacts ==
    ASSUME NEW rest \in Seq(Char)
    PROVE  /\ Line(rest) \in Seq(Char \ {"break"})
           /\ rest \in Seq(Char \ {"break"}) => Line(rest) = rest
<1>1. PICK breaks : breaks = {i \in DOMAIN rest : rest[i] = "break"}
  OBVIOUS
<1>2. Len(rest) \in Nat /\ DOMAIN rest = 1..Len(rest) /\ \A i \in 1..Len(rest) : rest[i] \in Char
  OBVIOUS
<1>3. CASE breaks = {}
  <2>1. Line(rest) = rest
    BY <1>1, <1>3 DEF Line
  <2>2. \A i \in 1..Len(rest) : rest[i] \in Char \ {"break"}
    BY <1>1, <1>2, <1>3
  <2> QED
    BY <1>2, <2>1, <2>2
<1>4. CASE breaks # {}
  <2>1. breaks \subseteq Nat
    BY <1>1, <1>2
  <2>2. PICK b : b = Min(breaks)
    OBVIOUS
  <2>3. b \in breaks /\ \A i \in breaks : b <= i
    BY <1>4, <2>1, <2>2, MinFacts
  <2>4. b \in 1..Len(rest) /\ rest[b] = "break"
    BY <1>1, <1>2, <2>3
  <2>5. Line(rest) = SubSeq(rest, 1, b - 1)
    BY <1>1, <1>4, <2>2 DEF Line
  <2>6. ASSUME NEW i \in 1..(b - 1) PROVE rest[i] \in Char \ {"break"}
    <3>1. i \in 1..Len(rest) /\ ~(b <= i)
      BY <1>2, <2>4
    <3>2. i \notin breaks
      BY <2>3, <3>1
    <3> QED
      BY <1>1, <1>2, <3>1, <3>2
  <2>7. Line(rest) \in Seq(Char \ {"break"})
    <3>1. /\ Len(SubSeq(rest, 1, b - 1)) = b - 1
          /\ \A i \in 1..(b - 1) : SubSeq(rest, 1, b - 1)[i] = rest[i]
          /\ SubSeq(rest, 1, b - 1) \in Seq(Char)
      BY <1>2, <2>4
    <3> QED
      BY <2>4, <2>5, <2>6, <3>1
  <2>8. rest \notin Seq(Char \ {"break"})
    BY <2>4
  <2> QED
    BY <2>7, <2>8
<1> QED
  BY <1>3, <1>4

\* Payload of a line: what is left has no leading space, or nothing but spaces.
LEMMA PayloadFacts ==
    ASSUME NEW rest \in Seq(Char)
    PROVE  Payload(rest) \in Message \cup {<<>>}
<1>1. PICK line : line = Line(rest)
  OBVIOUS
<1>2. line \in Seq(Char \ {"break"})
  BY <1>1, LineFacts
<1>3. /\ Len(line) \in Nat /\ DOMAIN line = 1..Len(line)
      /\ \A i \in 1..Len(line) : line[i] \in Char \ {"break"}
  BY <1>2
<1>4. PICK others : others = {i \in DOMAIN line : line[i] # "space"}
  OBVIOUS
<1>5. CASE others = {}
  <2>1. Payload(rest) = line
    BY <1>1, <1>4, <1>5 DEF Payload
  <2>2. \A i \in 1..Len(line) : line[i] = "space"
    BY <1>3, <1>4, <1>5
  <2> QED
    BY <1>2, <2>1, <2>2 DEF Message
<1>6. CASE others # {}
  <2>1. others \subseteq Nat
    BY <1>3, <1>4
  <2>2. PICK b : b = Min(others)
    OBVIOUS
  <2>3. b \in others
    BY <1>6, <2>1, <2>2, MinFacts
  <2>4. b \in 1..Len(line) /\ line[b] # "space"
    BY <1>3, <1>4, <2>3
  <2>5. Payload(rest) = SubSeq(line, b, Len(line))
    BY <1>1, <1>4, <1>6, <2>2 DEF Payload
  <2>6. PICK m : m = SubSeq(line, b, Len(line))
    OBVIOUS
  <2>7. m \in Seq(Char \ {"break"}) /\ Len(m) = Len(line) - b + 1 /\ m[1] = line[b]
    BY <1>2, <1>3, <2>4, <2>6
  <2>8. Len(m) # 0
    BY <1>3, <2>4, <2>7
  <2>9. m # <<>>
    BY <2>8
  <2> QED
    BY <2>4, <2>5, <2>6, <2>7, <2>9 DEF Message
<1> QED
  BY <1>5, <1>6

\* What the follower takes from the line of a message: the message, with one more space
\* when it has nothing else.
LEMMA PayloadOfCopy ==
    ASSUME NEW m \in Message
    PROVE  Payload(<<"space">> \o m) = IF Elements(m) = {"space"} THEN <<"space">> \o m ELSE m
<1>1. /\ m \in Seq(Char \ {"break"}) /\ m # <<>>
      /\ m[1] = "space" => \A i \in 1..Len(m) : m[i] = "space"
  BY DEF Message
<1>2. PICK n \in Nat : n = Len(m)
  BY <1>1
<1>3. n >= 1 /\ DOMAIN m = 1..n
  BY <1>1, <1>2
<1>4. PICK r : r = <<"space">> \o m
  OBVIOUS
<1>5. /\ r \in Seq(Char \ {"break"}) /\ Len(r) = n + 1 /\ r[1] = "space"
      /\ \A i \in 1..n : r[i + 1] = m[i]
  <2>1. "space" \in Char \ {"break"}
    BY DEF Char
  <2> QED
    BY <1>1, <1>2, <1>4, <2>1
<1>6. r \in Seq(Char) /\ DOMAIN r = 1..(n + 1)
  <2>1. \A i \in 1..Len(r) : r[i] \in Char
    BY <1>5
  <2> QED
    BY <1>2, <1>5, <2>1
<1>7. Line(r) = r
  BY <1>5, <1>6, LineFacts
<1>8. PICK others : others = {i \in DOMAIN r : r[i] # "space"}
  OBVIOUS
<1>9. CASE m[1] = "space"
  <2>1. \A i \in 1..n : m[i] = "space"
    BY <1>1, <1>2, <1>9
  <2>2. Elements(m) = {"space"}
    <3>1. 1 \in 1..n
      BY <1>3
    <3> QED
      BY <1>3, <2>1, <3>1 DEF Elements
  <2>3. ASSUME NEW i \in 1..(n + 1) PROVE r[i] = "space"
    <3>1. CASE i = 1
      BY <1>5, <3>1
    <3>2. CASE i # 1
      <4>1. i - 1 \in 1..n /\ (i - 1) + 1 = i
        BY <3>2
      <4> QED
        BY <1>5, <2>1, <4>1
    <3> QED
      BY <3>1, <3>2
  <2>4. others = {}
    BY <1>6, <1>8, <2>3
  <2>5. Payload(r) = r
    BY <1>7, <1>8, <2>4 DEF Payload
  <2> QED
    BY <1>4, <2>2, <2>5
<1>10. CASE m[1] # "space"
  <2>1. Elements(m) # {"space"}
    <3>1. 1 \in 1..n
      BY <1>3
    <3> QED
      BY <1>3, <1>10, <3>1 DEF Elements
  <2>2. 2 \in others /\ 1 \notin others
    <3>1. 2 \in 1..(n + 1) /\ 1 \in 1..n /\ 1 + 1 = 2
      BY <1>3
    <3>2. r[2] = m[1]
      BY <1>5, <3>1
    <3> QED
      BY <1>5, <1>6, <1>8, <1>10, <3>1, <3>2
  <2>3. others \subseteq Nat
    BY <1>6, <1>8
  <2>4. Min(others) \in others /\ \A i \in others : Min(others) <= i
    BY <2>2, <2>3, MinFacts
  <2>5. Min(others) = 2
    <3>1. Min(others) <= 2 /\ Min(others) # 1 /\ Min(others) \in 1..(n + 1)
      BY <1>6, <1>8, <2>2, <2>4
    <3> QED
      BY <3>1
  <2>6. Payload(r) = SubSeq(r, 2, n + 1)
    BY <1>5, <1>7, <1>8, <2>2, <2>5 DEF Payload
  <2>7. SubSeq(r, 2, n + 1) = m
    <3>1. PICK s : s = SubSeq(r, 2, n + 1)
      OBVIOUS
    <3>2. s \in Seq(Char) /\ Len(s) = n /\ \A i \in 1..n : s[i] = r[i + 1]
      BY <1>2, <1>3, <1>5, <1>6, <3>1
    <3>3. \A i \in 1..n : s[i] = m[i]
      BY <1>5, <3>2
    <3> QED
      BY <1>1, <1>2, <3>1, <3>2, <3>3
  <2> QED
    BY <1>4, <2>1, <2>6, <2>7
<1> QED
  BY <1>9, <1>10

\* Where a command has a field.
Place(names, f) == CHOOSE i \in DOMAIN names : names[i] = f

\* parse_request of any text: the type is one of the commands or INVALID, and the payload
\* is a message where the command has one.
LEMMA ParsedFacts ==
    ASSUME NEW raw \in RawRequests, NEW request, request = parse_request(raw)
    PROVE  /\ request.type \in DOMAIN Fields \cup {"INVALID"}
           /\ request.payload \in Message \cup {<<>>}
           /\ request.type = "PRODUCE" => request.payload \in Message
           /\ request.type \in {"PRODUCE", "FETCH"} =>
                 /\ request.args["topic"].text \in STRING
                 /\ request.args["partition"].value \in 0..(PartitionCount - 1)
           /\ request.type = "FETCH" => request.args["offset"].value \in Nat
<1>1. /\ raw.command \in STRING /\ raw.rest \in Seq(Char) /\ raw.fields \in Seq(Token)
  BY DEF RawRequests
<1>2. CASE ~IsRequest(raw)
  <2>1. request = Invalid
    BY <1>2 DEF parse_request
  <2> QED
    BY <2>1 DEF Invalid
<1>3. CASE IsRequest(raw)
  <2>1. PICK names : names = Fields[raw.command]
    OBVIOUS
  <2>2. /\ request.type = raw.command
        /\ request.payload = IF raw.command \in WithPayload THEN Payload(raw.rest) ELSE <<>>
        /\ request.args = [f \in Elements(names) |-> raw.fields[Place(names, f)]]
    BY <1>3, <2>1 DEF parse_request, Place
  <2>3. /\ raw.command \in DOMAIN Fields
        /\ raw.command \in WithPayload => Payload(raw.rest) # <<>>
        /\ Len(raw.fields) = Len(names)
        /\ \A i \in DOMAIN raw.fields : IsField(raw.fields[i], names[i])
    BY <1>3, <2>1 DEF IsRequest
  <2>4. Payload(raw.rest) \in Message \cup {<<>>}
    BY <1>1, PayloadFacts
  <2>5. /\ request.payload \in Message \cup {<<>>}
        /\ request.type = "PRODUCE" => request.payload \in Message
    BY <2>2, <2>3, <2>4 DEF WithPayload
  <2>6. CASE raw.command = "PRODUCE"
    <3>1. names = <<"topic", "partition">>
      BY <2>1, <2>6 DEF Fields
    <3>2. DOMAIN names = 1..2 /\ Len(names) = 2 /\ names[1] = "topic" /\ names[2] = "partition"
      BY <3>1
    <3>3. /\ Place(names, "topic") = 1
          /\ Place(names, "partition") = 2
          /\ "topic" \in Elements(names) /\ "partition" \in Elements(names)
      BY <3>2 DEF Elements, Place
    <3>4. request.args["topic"] = raw.fields[1] /\ request.args["partition"] = raw.fields[2]
      BY <2>2, <3>3
    <3>5. raw.fields[1] \in Token /\ raw.fields[2] \in Token /\ IsField(raw.fields[2], "partition")
      BY <1>1, <2>3, <3>2
    <3>6. raw.fields[2].value \in 0..IntMax /\ raw.fields[2].value < PartitionCount
      BY <3>5 DEF IsField, IsNumber
    <3>7. raw.fields[1].text \in STRING
      BY <3>5 DEF Token
    <3>8. raw.fields[2].value \in 0..(PartitionCount - 1)
      BY <3>6, WidthAssumption
    <3> QED
      BY <2>2, <2>3, <2>5, <2>6, <3>4, <3>7, <3>8
  <2>7. CASE raw.command = "FETCH"
    <3>1. names = <<"topic", "partition", "offset">>
      BY <2>1, <2>7 DEF Fields
    <3>2. /\ DOMAIN names = 1..3 /\ Len(names) = 3
          /\ names[1] = "topic" /\ names[2] = "partition" /\ names[3] = "offset"
      BY <3>1
    <3>3. /\ Place(names, "topic") = 1
          /\ Place(names, "partition") = 2
          /\ Place(names, "offset") = 3
          /\ "topic" \in Elements(names) /\ "partition" \in Elements(names)
          /\ "offset" \in Elements(names)
      BY <3>2 DEF Elements, Place
    <3>4. /\ request.args["topic"] = raw.fields[1] /\ request.args["partition"] = raw.fields[2]
          /\ request.args["offset"] = raw.fields[3]
      BY <2>2, <3>3
    <3>5. /\ raw.fields[1] \in Token /\ raw.fields[2] \in Token /\ raw.fields[3] \in Token
          /\ IsField(raw.fields[2], "partition")
      BY <1>1, <2>3, <3>2
    <3>6. raw.fields[2].value \in 0..IntMax /\ raw.fields[2].value < PartitionCount
      BY <3>5 DEF IsField, IsNumber
    <3>7. raw.fields[1].text \in STRING /\ raw.fields[3].value \in Nat
      BY <3>5 DEF Token
    <3>8. raw.fields[2].value \in 0..(PartitionCount - 1)
      BY <3>6, WidthAssumption
    <3> QED
      BY <2>2, <2>3, <2>5, <2>7, <3>4, <3>7, <3>8
  <2>8. CASE raw.command \notin {"PRODUCE", "FETCH"}
    BY <2>2, <2>3, <2>5, <2>8
  <2> QED
    BY <2>6, <2>7, <2>8
<1> QED
  BY <1>2, <1>3

\* The follower takes the leader's line for every message that PRODUCE let in as a
\* REPLICATE, with the message as its payload, or with one more space when the message has
\* nothing but spaces.
THEOREM ReplicateLineParsed ==
    ASSUME NEW m \in Message, NEW topic, NEW p \in 0..IntMax, NEW o \in 0..LongMax,
           NEW copy, copy = parse_request(ReplicateLine(topic, p, o, m))
    PROVE  /\ copy.type = "REPLICATE"
           /\ copy.payload = IF Elements(m) = {"space"} THEN <<"space">> \o m ELSE m
<1>1. PICK raw : raw = ReplicateLine(topic, p, o, m)
  OBVIOUS
<1>2. PICK second, third : /\ second = [text |-> "number", number |-> TRUE, value |-> p]
                           /\ third = [text |-> "number", number |-> TRUE, value |-> o]
  OBVIOUS
<1>3. /\ raw.command = "REPLICATE" /\ raw.rest = <<"space">> \o m
      /\ raw.fields = <<topic, second, third>>
  BY <1>1, <1>2 DEF ReplicateLine
<1>4. PICK names : names = <<"topic", "index", "offset">>
  OBVIOUS
<1>5. Fields["REPLICATE"] = names /\ "REPLICATE" \in DOMAIN Fields
  BY <1>4 DEF Fields
<1>6. Payload(raw.rest) = IF Elements(m) = {"space"} THEN <<"space">> \o m ELSE m
  BY <1>3, PayloadOfCopy
<1>7. Payload(raw.rest) # <<>>
  <2>1. m # <<>> /\ m \in Seq(Char \ {"break"})
    BY DEF Message
  <2>2. <<"space">> \o m # <<>>
    BY <2>1
  <2> QED
    BY <1>6, <2>1, <2>2
<1>8. IsRequest(raw)
  <2>1. Len(raw.fields) = 3 /\ Len(names) = 3 /\ DOMAIN raw.fields = 1..3
    BY <1>3, <1>4
  <2>2. /\ raw.fields[1] = topic /\ raw.fields[2] = second /\ raw.fields[3] = third
        /\ names[1] = "topic" /\ names[2] = "index" /\ names[3] = "offset"
    BY <1>3, <1>4
  <2>3. IsField(topic, "topic")
    BY DEF IsField
  <2>4. IsField(second, "index")
    BY <1>2 DEF IsField, IsNumber
  <2>5. IsField(third, "offset")
    BY <1>2 DEF IsField, IsNumber
  <2>6. \A i \in DOMAIN raw.fields : IsField(raw.fields[i], names[i])
    <3>1. \A i \in 1..3 : i = 1 \/ i = 2 \/ i = 3
      OBVIOUS
    <3> QED
      BY <2>1, <2>2, <2>3, <2>4, <2>5, <3>1
  <2> QED
    BY <1>3, <1>5, <1>7, <2>1, <2>6 DEF IsRequest, WithPayload
<1>9. copy.type = raw.command /\ copy.payload = Payload(raw.rest)
  BY <1>1, <1>3, <1>8 DEF parse_request, WithPayload
<1> QED
  BY <1>3, <1>6, <1>9

----------------------------------------------------------------------------
(* FETCH responses *)

\* The recursion of JoinMessages.
JoinStep(s, J, i) ==
    IF i = 0 THEN <<>> ELSE IF i = 1 THEN s[1] ELSE J[i - 1] \o <<"break">> \o s[i]
Joins(s, n, J) == J = [i \in 0..n |-> JoinStep(s, J, i)]

\* There is a function with that recursion.
LEMMA JoinsExist ==
    ASSUME NEW s, NEW n \in Nat
    PROVE  \E J : Joins(s, n, J)
<1>1. PICK F : F = {k \in Nat : \E J : Joins(s, k, J)}
  OBVIOUS
<1>2. 0 \in F
  <2>1. PICK J : J = [i \in 0..0 |-> <<>>]
    OBVIOUS
  <2>2. \A i \in 0..0 : JoinStep(s, J, i) = <<>>
    BY DEF JoinStep
  <2>3. Joins(s, 0, J)
    BY <2>1, <2>2 DEF Joins
  <2> QED
    BY <1>1, <2>3
<1>3. ASSUME NEW k \in Nat, k \in F PROVE k + 1 \in F
  <2>1. PICK J : Joins(s, k, J)
    BY <1>1, <1>3
  <2>2. \A i \in 0..k : J[i] = JoinStep(s, J, i)
    BY <2>1 DEF Joins
  <2>3. PICK K : K = [i \in 0..(k + 1) |-> JoinStep(s, J, i)]
    OBVIOUS
  <2>4. ASSUME NEW i \in 0..(k + 1) PROVE JoinStep(s, J, i) = JoinStep(s, K, i)
    <3>1. CASE i = 0 \/ i = 1
      BY <3>1 DEF JoinStep
    <3>2. CASE i # 0 /\ i # 1
      <4>1. i - 1 \in 0..k /\ i - 1 \in 0..(k + 1)
        BY <3>2
      <4>2. K[i - 1] = J[i - 1]
        BY <2>2, <2>3, <4>1
      <4> QED
        BY <3>2, <4>2 DEF JoinStep
    <3> QED
      BY <3>1, <3>2
  <2>5. Joins(s, k + 1, K)
    BY <2>3, <2>4 DEF Joins
  <2> QED
    BY <1>1, <2>5
<1>4. Nat \subseteq F
  BY <1>2, <1>3, NumberInduction
<1> QED
  BY <1>1, <1>4

\* The line breaks in a text.
Breaks(text) == {i \in DOMAIN text : text[i] = "break"}

\* One more message brings one more.
LEMMA BreaksOfJoin ==
    ASSUME NEW a \in Seq(Char), IsFiniteSet(Breaks(a)), NEW m \in Seq(Char \ {"break"}),
           NEW r, r = a \o <<"break">> \o m
    PROVE  /\ r \in Seq(Char) /\ r # <<>>
           /\ IsFiniteSet(Breaks(r)) /\ Cardinality(Breaks(r)) = Cardinality(Breaks(a)) + 1
<1>1. PICK x \in Nat, y \in Nat : x = Len(a) /\ y = Len(m)
  OBVIOUS
<1>2. PICK b : b = a \o <<"break">>
  OBVIOUS
<1>3. /\ b \in Seq(Char) /\ Len(b) = x + 1 /\ b[x + 1] = "break" /\ \A i \in 1..x : b[i] = a[i]
  <2>1. "break" \in Char
    BY DEF Char
  <2> QED
    BY <1>1, <1>2, <2>1
<1>4. m \in Seq(Char) /\ \A i \in 1..y : m[i] \in Char /\ m[i] # "break"
  BY <1>1
<1>5. /\ r \in Seq(Char) /\ Len(r) = x + 1 + y
      /\ \A i \in 1..(x + 1) : r[i] = b[i]
      /\ \A i \in 1..y : r[x + 1 + i] = m[i]
  BY <1>1, <1>2, <1>3, <1>4
<1>6. DOMAIN r = 1..(x + 1 + y) /\ DOMAIN a = 1..x
  BY <1>1, <1>5
<1>7. ASSUME NEW i \in 1..(x + 1 + y)
      PROVE  r[i] = "break" <=> i = x + 1 \/ (i \in 1..x /\ a[i] = "break")
  <2>1. CASE i \in 1..x
    <3>1. i \in 1..(x + 1) /\ i # x + 1
      BY <2>1
    <3> QED
      BY <1>3, <1>5, <2>1, <3>1
  <2>2. CASE i = x + 1
    <3>1. i \in 1..(x + 1)
      BY <2>2
    <3> QED
      BY <1>3, <1>5, <2>2, <3>1
  <2>3. CASE i > x + 1
    <3>1. i - (x + 1) \in 1..y /\ x + 1 + (i - (x + 1)) = i /\ i \notin 1..x /\ i # x + 1
      BY <2>3
    <3>2. r[i] = m[i - (x + 1)]
      BY <1>5, <3>1
    <3> QED
      BY <1>4, <3>1, <3>2
  <2>4. i \in 1..x \/ i = x + 1 \/ i > x + 1
    OBVIOUS
  <2> QED
    BY <2>1, <2>2, <2>3, <2>4
<1>8. Breaks(r) = Breaks(a) \cup {x + 1}
  <2>1. x + 1 \in 1..(x + 1 + y) /\ \A i \in 1..x : i \in 1..(x + 1 + y)
    OBVIOUS
  <2> QED
    BY <1>6, <1>7, <2>1 DEF Breaks
<1>9. x + 1 \notin Breaks(a)
  BY <1>6 DEF Breaks
<1>10. Len(r) # 0
  BY <1>5
<1>11. r # <<>>
  BY <1>10
<1> QED
  BY <1>5, <1>8, <1>9, <1>11, FS_AddElement

\* The consumer counts as many messages in a FETCH response as were joined.
THEOREM JoinedAreCounted ==
    ASSUME NEW s \in Seq(Message)
    PROVE  JoinMessages(s) \in Seq(Char) /\ count_messages(JoinMessages(s)) = Len(s)
<1>1. PICK n \in Nat : n = Len(s)
  OBVIOUS
<1>2. PICK J : J = CHOOSE K : Joins(s, n, K)
  OBVIOUS
<1>3. Joins(s, n, J)
  BY <1>2, JoinsExist
<1>4. JoinMessages(s) = J[n]
  BY <1>1, <1>2 DEF JoinMessages, Joins, JoinStep
<1>5. \A i \in 0..n : J[i] = JoinStep(s, J, i)
  BY <1>3 DEF Joins
<1>6. ASSUME NEW i \in 1..n PROVE s[i] \in Seq(Char \ {"break"}) /\ s[i] \in Seq(Char) /\ s[i] # <<>>
  <2>1. s[i] \in Message
    BY <1>1
  <2>2. s[i] \in Seq(Char \ {"break"}) /\ s[i] # <<>>
    BY <2>1 DEF Message
  <2>3. \A j \in 1..Len(s[i]) : s[i][j] \in Char
    BY <2>2
  <2> QED
    BY <2>2, <2>3
<1>7. J[0] = <<>>
  BY <1>5 DEF JoinStep
<1> DEFINE Counted(i) == /\ J[i] \in Seq(Char) /\ J[i] # <<>>
                         /\ IsFiniteSet(Breaks(J[i])) /\ Cardinality(Breaks(J[i])) = i - 1
<1>8. PICK F : F = {i \in Nat : i + 1 <= n => Counted(i + 1)}
  OBVIOUS
<1>9. 0 \in F
  <2>1. ASSUME 1 <= n PROVE Counted(1)
    <3>1. J[1] = s[1] /\ 1 \in 1..n
      BY <1>5, <2>1 DEF JoinStep
    <3>2. s[1] \in Seq(Char \ {"break"}) /\ s[1] \in Seq(Char) /\ s[1] # <<>>
      BY <1>6, <3>1
    <3>3. Breaks(J[1]) = {}
      BY <3>1, <3>2 DEF Breaks
    <3> QED
      BY <3>1, <3>2, <3>3, FS_EmptySet
  <2> QED
    BY <1>8, <2>1
<1>10. ASSUME NEW i \in Nat, i \in F PROVE i + 1 \in F
  <2> SUFFICES ASSUME (i + 1) + 1 <= n PROVE Counted((i + 1) + 1)
    BY <1>8
  <2>1. PICK k : k = (i + 1) + 1
    OBVIOUS
  <2>2. k \in 1..n /\ k \in 0..n /\ k # 0 /\ k # 1 /\ k - 1 = i + 1 /\ i + 1 <= n
    BY <2>1
  <2>3. Counted(k - 1)
    BY <1>8, <1>10, <2>2
  <2>4. J[k] = J[k - 1] \o <<"break">> \o s[k]
    BY <1>5, <2>2 DEF JoinStep
  <2>5. /\ J[k] \in Seq(Char) /\ J[k] # <<>>
        /\ IsFiniteSet(Breaks(J[k])) /\ Cardinality(Breaks(J[k])) = Cardinality(Breaks(J[k - 1])) + 1
    BY <1>6, <2>2, <2>3, <2>4, BreaksOfJoin
  <2>6. Cardinality(Breaks(J[k])) = k - 1
    BY <2>1, <2>2, <2>3, <2>5
  <2> QED
    BY <2>1, <2>5, <2>6
<1>11. Nat \subseteq F
  BY <1>9, <1>10, NumberInduction
<1>12. CASE n = 0
  <2>1. JoinMessages(s) = <<>>
    BY <1>4, <1>7, <1>12
  <2>2. count_messages(<<>>) = 0 /\ <<>> \in Seq(Char)
    BY DEF count_messages
  <2> QED
    BY <1>1, <1>12, <2>1, <2>2
<1>13. CASE n # 0
  <2>1. n - 1 \in F /\ (n - 1) + 1 = n /\ (n - 1) + 1 <= n
    BY <1>11, <1>13
  <2>2. Counted(n)
    BY <1>8, <2>1
  <2>3. count_messages(J[n]) = Cardinality(Breaks(J[n])) + 1
    BY <2>2 DEF count_messages, Breaks
  <2> QED
    BY <1>1, <1>4, <2>2, <2>3
<1> QED
  BY <1>12, <1>13
=============================================================================
