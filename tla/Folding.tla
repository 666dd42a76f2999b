------------------------------ MODULE Folding ------------------------------
(***************************************************************************)
(* Induction for the folds of the reports and of the search.  A fold over  *)
(* a set is a recursive function on the subsets of it, that is, a CHOOSE   *)
(* of the function that satisfies its equation: the lemmas say that there  *)
(* is such a function, that there is one only, and what its values add up  *)
(* to; and who is among the best of a finite set.  Everything is proved by *)
(* a least counterexample, so that no lemma has an operator as a           *)
(* parameter.                                                              *)
(***************************************************************************)
EXTENDS Integers, FiniteSetTheorems, TLAPS

(* A set of naturals has a least element.                                  *)
LEMMA Least ==
  ASSUME NEW T, T \subseteq Nat, T # {}
  PROVE  \E n \in T : \A m \in T : n <= m
<1>1. PICK n \in T : \A m \in T : <<m, n>> \notin OpToRel(<, Nat)
  BY WFMin, NatLessThanWellFounded
<1>2. \A m \in T : ~(m < n)
  BY <1>1 DEF OpToRel
<1> QED BY <1>2

(* A set of positions of a sequence that is not empty has a last one.      *)
LEMMA Greatest ==
  ASSUME NEW n \in Nat, NEW T, T \subseteq 1..n, T # {}
  PROVE  \E m \in T : \A k \in T : m >= k
<1> DEFINE U == {d \in Nat : n - d \in T}
<1>1. \A k \in T : k \in Int /\ n - k \in Nat /\ n - (n - k) = k
  OBVIOUS
<1>2. U # {} /\ U \subseteq Nat
  BY <1>1
<1>3. PICK d \in U : \A e \in U : d <= e
  <2> HIDE DEF U
  <2> QED BY <1>2, Least
<1>4. \A k \in T : n - d >= k
  <2> SUFFICES ASSUME NEW k \in T PROVE n - d >= k
    OBVIOUS
  <2>1. d <= n - k
    BY <1>1, <1>3
  <2> QED BY <1>1, <1>3, <2>1
<1> QED BY <1>3, <1>4

(* A set of subsets of a finite set has a least one, with respect to       *)
(* inclusion.                                                              *)
LEMMA LeastSubset ==
  ASSUME NEW S, IsFiniteSet(S), NEW C, C \subseteq SUBSET S, C # {}
  PROVE  \E T \in C : \A U \in C : U \subseteq T => U = T
<1>1. IsWellFoundedOn(StrictSubsetOrdering(S), SUBSET S)
  BY FS_StrictSubsetOrderingWellFounded, FS_FiniteSubsetsOfFinite
<1>2. PICK T \in C : \A U \in C : <<U, T>> \notin StrictSubsetOrdering(S)
  BY <1>1, WFMin
<1> QED BY <1>2 DEF StrictSubsetOrdering

-----------------------------------------------------------------------------
(* A fold: the value of the empty set is base; that of another one comes   *)
(* from the element that pick takes out and the value of the rest.         *)
IsFold(F, S, base, pick, step) ==
  F = [s \in SUBSET S |-> IF s = {} THEN base
                          ELSE step[<<pick[s], F[s \ {pick[s]}]>>]]

(* Its values are in V when all steps stay there.                          *)
FoldsInto(F, S, V, base, pick, step) ==
  F \in [SUBSET S -> V] /\ IsFold(F, S, base, pick, step)

StaysIn(S, V, base, pick, step) ==
  /\ base \in V
  /\ \A s \in SUBSET S : s # {} => pick[s] \in s
  /\ \A x \in S, v \in V : step[<<x, v>>] \in V

(* The subsets with n elements at most.                                    *)
Upto(S, n) == {s \in SUBSET S : Cardinality(s) <= n}

(* There is a fold.  It is built on the subsets of 0, 1, 2, ... elements.  *)
LEMMA FoldExists ==
  ASSUME NEW S, IsFiniteSet(S), NEW V, NEW base, NEW pick, NEW step,
         StaysIn(S, V, base, pick, step)
  PROVE  \E F : FoldsInto(F, S, V, base, pick, step)
<1> USE DEF StaysIn
<1> DEFINE Built(F, n) ==
             /\ F \in [Upto(S, n) -> V]
             /\ F = [s \in Upto(S, n) |-> IF s = {} THEN base
                                          ELSE step[<<pick[s], F[s \ {pick[s]}]>>]]
           Bad == {n \in Nat : ~\E F : Built(F, n)}
<1>1. \A s \in SUBSET S : IsFiniteSet(s) /\ Cardinality(s) \in Nat
  BY FS_Subset, FS_CardinalityType
<1>2. \E F : Built(F, 0)
  <2>1. ASSUME NEW s \in Upto(S, 0) PROVE s = {}
    <3>1. s \in SUBSET S /\ Cardinality(s) <= 0
      BY DEF Upto
    <3>2. IsFiniteSet(s) /\ Cardinality(s) \in Nat
      BY <1>1, <3>1
    <3>3. Cardinality(s) = 0
      BY <3>1, <3>2
    <3> QED BY <3>2, <3>3, FS_EmptySet
  <2> DEFINE F == [s \in Upto(S, 0) |-> base]
  <2>2. Built(F, 0)
    BY <2>1
  <2> QED BY <2>2
<1>3. ASSUME NEW n \in Nat, \E F : Built(F, n) PROVE \E F : Built(F, n + 1)
  <2>1. PICK F : Built(F, n)
    BY <1>3
  <2> DEFINE G == [s \in Upto(S, n + 1) |-> IF s = {} THEN base
                                            ELSE step[<<pick[s], F[s \ {pick[s]}]>>]]
  <2>2. \A s \in Upto(S, n + 1) : s # {} => s \ {pick[s]} \in Upto(S, n)
    <3> SUFFICES ASSUME NEW s \in Upto(S, n + 1), s # {}
                 PROVE  s \ {pick[s]} \in Upto(S, n)
      OBVIOUS
    <3>1. s \in SUBSET S /\ Cardinality(s) <= n + 1
      BY DEF Upto
    <3>2. IsFiniteSet(s) /\ Cardinality(s) \in Nat /\ pick[s] \in s
      BY <1>1, <3>1
    <3>3. Cardinality(s \ {pick[s]}) = Cardinality(s) - 1
      BY <3>2, FS_RemoveElement
    <3>4. Cardinality(s \ {pick[s]}) <= n
      BY <3>1, <3>2, <3>3
    <3> QED BY <3>1, <3>4 DEF Upto
  <2>3. ASSUME NEW s \in Upto(S, n) PROVE s \in Upto(S, n + 1)
    <3>1. s \in SUBSET S /\ Cardinality(s) <= n
      BY DEF Upto
    <3>2. Cardinality(s) \in Nat
      BY <1>1, <3>1
    <3>3. Cardinality(s) <= n + 1
      BY <3>1, <3>2
    <3> QED BY <3>1, <3>3 DEF Upto
  <2>4. \A s \in Upto(S, n) : G[s] = F[s]
    BY <2>1, <2>3
  <2>5. G \in [Upto(S, n + 1) -> V]
    <3> SUFFICES ASSUME NEW s \in Upto(S, n + 1), s # {}
                 PROVE  step[<<pick[s], F[s \ {pick[s]}]>>] \in V
      OBVIOUS
    <3>1. F[s \ {pick[s]}] \in V /\ pick[s] \in S
      BY <2>1, <2>2 DEF Upto
    <3> QED BY <3>1
  <2>6. \A s \in Upto(S, n + 1) : s # {} => G[s \ {pick[s]}] = F[s \ {pick[s]}]
    BY <2>2, <2>4
  <2>7. G = [s \in Upto(S, n + 1) |-> IF s = {} THEN base
                                      ELSE step[<<pick[s], G[s \ {pick[s]}]>>]]
    BY <2>6
  <2> HIDE DEF G
  <2> QED BY <2>5, <2>7
<1>4. Bad = {}
  <2> SUFFICES ASSUME Bad # {} PROVE FALSE
    OBVIOUS
  <2> HIDE DEF Built
  <2>1. PICK n \in Bad : \A m \in Bad : n <= m
    BY Least
  <2>2. n \in Nat /\ n # 0
    BY <1>2
  <2>3. n - 1 \in Nat /\ (n - 1) + 1 = n /\ ~(n <= n - 1)
    BY <2>2
  <2>4. n - 1 \notin Bad
    BY <2>1, <2>3
  <2> QED BY <1>3, <2>1, <2>3, <2>4
<1>5. Cardinality(S) \in Nat /\ Upto(S, Cardinality(S)) = SUBSET S
  BY <1>1, FS_Subset DEF Upto
<1>6. PICK F : Built(F, Cardinality(S))
  BY <1>4, <1>5
<1> QED BY <1>5, <1>6 DEF IsFold, FoldsInto

-----------------------------------------------------------------------------
(* A sum: the fold that adds g up.                                          *)
IsSum(F, g, S) ==
  F = [s \in SUBSET S |->
         IF s = {} THEN 0
         ELSE g[CHOOSE x \in s : TRUE] + F[s \ {CHOOSE x \in s : TRUE}]]

(* F is the sum of naturals over the subsets of a finite set.              *)
SumOver(F, g, S) ==
  /\ IsFiniteSet(S)
  /\ g \in [S -> Nat]
  /\ F \in [SUBSET S -> Nat]
  /\ IsSum(F, g, S)

LEMMA SumExists ==
  ASSUME NEW S, IsFiniteSet(S), NEW g \in [S -> Nat]
  PROVE  \E F : SumOver(F, g, S)
<1> DEFINE pick == [s \in SUBSET S |-> CHOOSE x \in s : TRUE]
           step == [p \in S \X Nat |-> g[p[1]] + p[2]]
<1>1. ASSUME NEW s \in SUBSET S, s # {} PROVE pick[s] \in s
  <2>1. pick[s] = CHOOSE x \in s : TRUE
    OBVIOUS
  <2>2. PICK x : x \in s
    BY <1>1
  <2> QED BY <2>1, <2>2, Zenon
<1>2. \A x \in S, v \in Nat : step[<<x, v>>] = g[x] + v
  OBVIOUS
<1>3. ASSUME NEW x \in S, NEW v \in Nat PROVE step[<<x, v>>] \in Nat
  <2>1. g[x] + v \in Nat
    OBVIOUS
  <2> HIDE DEF step
  <2> QED BY <1>2, <2>1
<1>4. PICK F : FoldsInto(F, S, Nat, 0, pick, step)
  <2> HIDE DEF pick, step
  <2>1. StaysIn(S, Nat, 0, pick, step)
    BY <1>1, <1>3 DEF StaysIn
  <2> QED BY <2>1, FoldExists
<1>5. ASSUME NEW s \in SUBSET S, s # {}, F \in [SUBSET S -> Nat]
      PROVE  step[<<pick[s], F[s \ {pick[s]}]>>]
             = g[CHOOSE x \in s : TRUE] + F[s \ {CHOOSE x \in s : TRUE}]
  <2> DEFINE c == CHOOSE x \in s : TRUE
  <2>1. c = pick[s] /\ c \in s
    BY <1>1, <1>5
  <2> HIDE DEF c, step, pick
  <2>2. c \in S /\ F[s \ {c}] \in Nat
    BY <1>5, <2>1
  <2>3. step[<<c, F[s \ {c}]>>] = g[c] + F[s \ {c}]
    BY <1>2, <2>2
  <2>4. step[<<pick[s], F[s \ {pick[s]}]>>] = g[c] + F[s \ {c}]
    BY <2>1, <2>3
  <2> QED BY <2>4 DEF c
<1>6. IsSum(F, g, S)
  <2> HIDE DEF step, pick
  <2> QED BY <1>4, <1>5 DEF FoldsInto, IsFold, IsSum
<1> QED BY <1>4, <1>6 DEF FoldsInto, SumOver

(* It is one over the subsets of a part, too.                              *)
LEMMA SumRestricted ==
  ASSUME NEW S, NEW g, NEW F, SumOver(F, g, S), NEW T \in SUBSET S
  PROVE  \E G : IsSum(G, g, T)
<1> DEFINE G == [s \in SUBSET T |-> F[s]]
<1>1. G[{}] = 0
  BY DEF SumOver, IsSum
<1>2. ASSUME NEW s \in SUBSET T, s # {}
      PROVE  G[s] = g[CHOOSE x \in s : TRUE] + G[s \ {CHOOSE x \in s : TRUE}]
  <2> DEFINE c == CHOOSE x \in s : TRUE
  <2>1. F[s] = g[c] + F[s \ {c}]
    BY <1>2 DEF SumOver, IsSum
  <2>2. G[s] = F[s] /\ G[s \ {c}] = F[s \ {c}]
    OBVIOUS
  <2> QED BY <2>1, <2>2
<1>3. G = [s \in SUBSET T |-> G[s]]
  OBVIOUS
<1> HIDE DEF G
<1>4. IsSum(G, g, T)
  BY <1>1, <1>2, <1>3 DEF IsSum
<1> QED BY <1>4

(* A sum over T is the same whatever larger set it is a part of.           *)
LEMMA SumUnique ==
  ASSUME NEW S, NEW g, NEW F, SumOver(F, g, S),
         NEW T \in SUBSET S, NEW G, IsSum(G, g, T)
  PROVE  G[T] = F[T]
<1> USE DEF SumOver
<1> DEFINE Bad == {s \in SUBSET T : G[s] # F[s]}
<1> SUFFICES ASSUME Bad # {} PROVE FALSE
  OBVIOUS
<1>1. PICK s \in Bad : \A u \in Bad : u \subseteq s => u = s
  <2> HIDE DEF Bad
  <2>1. Bad \subseteq SUBSET T /\ IsFiniteSet(T)
    BY FS_Subset DEF Bad
  <2> QED BY <2>1, LeastSubset
<1>2. CASE s = {}
  BY <1>1, <1>2 DEF IsSum
<1>3. CASE s # {}
  <2> DEFINE c == CHOOSE x \in s : TRUE
  <2>1. c \in s
    BY <1>3
  <2>2. G[s] = g[c] + G[s \ {c}] /\ F[s] = g[c] + F[s \ {c}]
    BY <1>3 DEF IsSum
  <2> HIDE DEF c
  <2>3. s \ {c} \in SUBSET T /\ s \ {c} # s
    BY <2>1
  <2>4. G[s \ {c}] = F[s \ {c}]
    BY <1>1, <2>3
  <2> QED BY <1>1, <2>2, <2>4
<1> QED BY <1>2, <1>3

(* Any element may be taken out of a sum, not only the one that CHOOSE     *)
(* gives.                                                                  *)
LEMMA SumTakesOut ==
  ASSUME NEW S, NEW g, NEW F, SumOver(F, g, S), NEW s \in SUBSET S, NEW x \in s
  PROVE  F[s] = g[x] + F[s \ {x}]
<1> USE DEF SumOver
<1> DEFINE Bad == {t \in SUBSET S : \E y \in t : F[t] # g[y] + F[t \ {y}]}
<1> SUFFICES ASSUME Bad # {} PROVE FALSE
  OBVIOUS
<1>1. PICK t \in Bad : \A u \in Bad : u \subseteq t => u = t
  <2> HIDE DEF Bad
  <2>1. Bad \subseteq SUBSET S
    BY DEF Bad
  <2> QED BY <2>1, LeastSubset
<1>2. PICK y \in t : F[t] # g[y] + F[t \ {y}]
  OBVIOUS
<1> DEFINE c == CHOOSE z \in t : TRUE
<1>3. c \in t
  BY <1>2
<1>4. F[t] = g[c] + F[t \ {c}]
  BY <1>2 DEF IsSum
<1> HIDE DEF c
<1>5. y # c
  BY <1>2, <1>4
<1>6. /\ t \ {c} \in SUBSET S /\ t \ {c} # t /\ y \in t \ {c}
      /\ t \ {y} \in SUBSET S /\ t \ {y} # t /\ c \in t \ {y}
  BY <1>2, <1>3, <1>5
<1>7. \A u \in SUBSET S : u \subseteq t /\ u # t => \A z \in u : F[u] = g[z] + F[u \ {z}]
  BY <1>1
<1>8. /\ F[t \ {c}] = g[y] + F[(t \ {c}) \ {y}]
      /\ F[t \ {y}] = g[c] + F[(t \ {y}) \ {c}]
  <2> HIDE DEF Bad
  <2> QED BY <1>6, <1>7
<1>9. (t \ {c}) \ {y} = (t \ {y}) \ {c} /\ (t \ {c}) \ {y} \in SUBSET S
  OBVIOUS
<1>10. g[y] \in Nat /\ g[c] \in Nat /\ F[(t \ {c}) \ {y}] \in Nat
  BY <1>2, <1>3, <1>9
<1> DEFINE rest == F[(t \ {c}) \ {y}]
<1>11. F[t] = g[c] + (g[y] + rest) /\ F[t \ {y}] = g[c] + rest
  BY <1>4, <1>8, <1>9
<1> HIDE DEF rest
<1> QED BY <1>2, <1>10, <1>11 DEF rest

(* Sums over disjoint sets add up.                                       *)
LEMMA SumUnion ==
  ASSUME NEW S, NEW g, NEW F, SumOver(F, g, S),
         NEW s \in SUBSET S, NEW t \in SUBSET S, s \cap t = {}
  PROVE  F[s \cup t] = F[s] + F[t]
<1> DEFINE Bad == {u \in SUBSET t : F[s \cup u] # F[s] + F[u]}
<1> SUFFICES ASSUME Bad # {} PROVE FALSE
  OBVIOUS
<1>1. PICK u \in Bad : \A v \in Bad : v \subseteq u => v = u
  <2> HIDE DEF Bad
  <2>1. Bad \subseteq SUBSET t /\ IsFiniteSet(t)
    BY FS_Subset DEF Bad, SumOver
  <2> QED BY <2>1, LeastSubset
<1>2. CASE u = {}
  <2>1. F[{}] = 0 /\ F[s] \in Nat
    BY DEF IsSum, SumOver
  <2>2. s \cup u = s /\ F[s] = F[s] + 0
    BY <1>2, <2>1
  <2>3. F[s \cup u] # F[s] + F[u]
    BY <1>1
  <2> HIDE DEF Bad
  <2> QED BY <1>2, <2>1, <2>2, <2>3
<1>3. CASE u # {}
  <2>1. PICK x \in u : TRUE
    BY <1>3
  <2>2. /\ u \in SUBSET S /\ s \cup u \in SUBSET S
        /\ u \ {x} \in SUBSET t /\ u \ {x} # u /\ u \ {x} \in SUBSET S
        /\ (s \cup u) \ {x} = s \cup (u \ {x})
    BY <2>1
  <2>3. F[s \cup (u \ {x})] = F[s] + F[u \ {x}]
    BY <1>1, <2>2
  <2>4. F[s \cup u] = g[x] + F[s \cup (u \ {x})] /\ F[u] = g[x] + F[u \ {x}]
    <3> HIDE DEF Bad
    <3>1. F[s \cup u] = g[x] + F[(s \cup u) \ {x}]
      <4>1. x \in s \cup u
        BY <2>1
      <4> QED BY <2>2, <4>1, SumTakesOut
    <3>2. F[u] = g[x] + F[u \ {x}]
      BY <2>1, <2>2, SumTakesOut
    <3> QED BY <2>2, <3>1, <3>2
  <2>5. g[x] \in Nat /\ F[s] \in Nat /\ F[u \ {x}] \in Nat
    BY <2>1, <2>2 DEF SumOver
  <2>6. F[s \cup u] # F[s] + F[u]
    BY <1>1
  <2> HIDE DEF Bad
  <2> QED BY <2>3, <2>4, <2>5, <2>6
<1> QED BY <1>2, <1>3

(* A part sums up to less.                                                 *)
LEMMA SumOfPart ==
  ASSUME NEW S, NEW g, NEW F, SumOver(F, g, S), NEW t \in SUBSET S, NEW s \in SUBSET t
  PROVE  F[s] <= F[t]
<1>1. s \in SUBSET S /\ t \ s \in SUBSET S /\ s \cap (t \ s) = {} /\ s \cup (t \ s) = t
  OBVIOUS
<1>2. F[t] = F[s] + F[t \ s]
  <2>1. F[s \cup (t \ s)] = F[s] + F[t \ s]
    BY <1>1, SumUnion
  <2> QED BY <1>1, <2>1
<1>3. F[s] \in Nat /\ F[t \ s] \in Nat
  BY <1>1 DEF SumOver
<1> QED BY <1>2, <1>3

-----------------------------------------------------------------------------
(* The n best of a finite set P by a value f: as many as there are, n at   *)
(* most, none of whom is below one left out.                               *)
Size(n, P) == IF n <= Cardinality(P) THEN n ELSE Cardinality(P)

IsTop(best, P, f, n) ==
  /\ best \in SUBSET P
  /\ Cardinality(best) = Size(n, P)
  /\ \A x \in best, y \in P \ best : f[y] <= f[x]

(* Those strictly above x, and those who are not below it.                 *)
Ahead(P, f, x) == {y \in P : f[y] > f[x]}

Beside(P, f, x) == {y \in P \ {x} : f[y] >= f[x]}

(* A finite set has a highest element.                                     *)
LEMMA Highest ==
  ASSUME NEW P, IsFiniteSet(P), NEW f \in [P -> Nat], NEW S \in SUBSET P, S # {}
  PROVE  \E x \in S : \A y \in S : f[y] <= f[x]
<1>1. PICK F : SumOver(F, f, P)
  BY SumExists
<1>2. F[P] \in Nat
  BY <1>1 DEF SumOver
<1>3. ASSUME NEW x \in P PROVE f[x] <= F[P]
  <2>1. F[P] = f[x] + F[P \ {x}]
    BY <1>1, SumTakesOut
  <2>2. F[P \ {x}] \in Nat
    BY <1>1 DEF SumOver
  <2> QED BY <2>1, <2>2
<1> DEFINE Gap == {F[P] - f[x] : x \in S}
<1>4. Gap # {} /\ Gap \subseteq Nat
  BY <1>2, <1>3
<1>5. PICK d \in Gap : \A e \in Gap : d <= e
  <2> HIDE DEF Gap
  <2> QED BY <1>4, Least
<1>6. PICK x \in S : d = F[P] - f[x]
  OBVIOUS
<1>7. \A y \in S : f[y] <= f[x]
  <2> SUFFICES ASSUME NEW y \in S PROVE f[y] <= f[x]
    OBVIOUS
  <2>1. F[P] - f[x] <= F[P] - f[y]
    BY <1>5, <1>6
  <2>2. f[x] \in Nat /\ f[y] \in Nat
    OBVIOUS
  <2> QED BY <1>2, <2>1, <2>2
<1> QED BY <1>7

(* There are n best, for every n.                                          *)
LEMMA TopExists ==
  ASSUME NEW P, IsFiniteSet(P), NEW f \in [P -> Nat], NEW n \in Nat
  PROVE  \E best : IsTop(best, P, f, n)
<1>1. \A s \in SUBSET P : IsFiniteSet(s) /\ Cardinality(s) \in Nat
  BY FS_Subset, FS_CardinalityType
<1> DEFINE Found(k) == \E best \in SUBSET P :
                         /\ Cardinality(best) = k
                         /\ \A x \in best, y \in P \ best : f[y] <= f[x]
           Bad == {k \in Nat : k <= Cardinality(P) /\ ~Found(k)}
<1>2. Found(0)
  BY FS_EmptySet
<1>3. ASSUME NEW k \in Nat, k + 1 <= Cardinality(P), Found(k) PROVE Found(k + 1)
  <2>1. PICK best \in SUBSET P : /\ Cardinality(best) = k
                                 /\ \A x \in best, y \in P \ best : f[y] <= f[x]
    BY <1>3
  <2>2. P \ best # {}
    <3>1. Cardinality(P) \in Nat /\ Cardinality(P) # k
      BY <1>1, <1>3
    <3>2. best # P
      BY <2>1, <3>1
    <3> QED BY <3>2
  <2>3. PICK x \in P \ best : \A y \in P \ best : f[y] <= f[x]
    BY <2>2, Highest
  <2> DEFINE more == best \cup {x}
  <2>4. Cardinality(more) = k + 1
    BY <1>1, <2>1, FS_AddElement
  <2>5. \A y \in more, z \in P \ more : f[z] <= f[y]
    BY <2>1, <2>3
  <2> QED BY <2>4, <2>5
<1>4. Bad = {}
  <2> SUFFICES ASSUME Bad # {} PROVE FALSE
    OBVIOUS
  <2> HIDE DEF Found
  <2>1. PICK k \in Bad : \A m \in Bad : k <= m
    BY Least
  <2>2. k \in Nat /\ k # 0 /\ k <= Cardinality(P) /\ ~Found(k)
    BY <1>2, <2>1
  <2>3. /\ k - 1 \in Nat /\ (k - 1) + 1 = k /\ ~(k <= k - 1)
        /\ k - 1 <= Cardinality(P)
    BY <1>1, <2>2
  <2>4. k - 1 \notin Bad
    BY <2>1, <2>3
  <2> QED BY <1>3, <2>2, <2>3, <2>4
<1>5. Size(n, P) \in Nat /\ Size(n, P) <= Cardinality(P)
  BY <1>1 DEF Size
<1>6. Found(Size(n, P))
  <2> HIDE DEF Found
  <2> QED BY <1>4, <1>5
<1> QED BY <1>6 DEF IsTop

(* Somebody is in every list of the best exactly when fewer than n others  *)
(* are not below.                                                          *)
LEMMA SureOfPlace ==
  ASSUME NEW P, IsFiniteSet(P), NEW f \in [P -> Nat], NEW n \in Nat, NEW x
  PROVE  (\A best : IsTop(best, P, f, n) => x \in best)
         <=> x \in P /\ Cardinality(Beside(P, f, x)) < n
<1>1. \A s \in SUBSET P : IsFiniteSet(s) /\ Cardinality(s) \in Nat
  BY FS_Subset, FS_CardinalityType
<1>2. \A s, t \in SUBSET P : s \subseteq t => Cardinality(s) <= Cardinality(t)
  BY <1>1, FS_Subset
<1> DEFINE Q == Beside(P, f, x)
<1>3. Q \in SUBSET P /\ x \notin Q
  BY DEF Beside
<1>4. ASSUME \A best : IsTop(best, P, f, n) => x \in best, ~(x \in P /\ Cardinality(Q) < n)
      PROVE  FALSE
  <2>1. x \in P
    BY <1>4, TopExists DEF IsTop
  <2>2. n <= Cardinality(Q)
    BY <1>1, <1>3, <1>4, <2>1
  <2> DEFINE R == P \ {x}
  <2>3. R \in SUBSET P /\ Q \in SUBSET R /\ n <= Cardinality(R)
    BY <1>1, <1>2, <1>3, <2>2
  <2>4. PICK best : IsTop(best, R, [y \in R |-> f[y]], n)
    <3>1. [y \in R |-> f[y]] \in [R -> Nat]
      OBVIOUS
    <3> QED BY <1>1, <2>3, <3>1, TopExists
  <2>5. /\ best \in SUBSET R /\ best \in SUBSET P /\ Cardinality(best) = n
        /\ \A y \in best, z \in R \ best : f[z] <= f[y]
    BY <2>3, <2>4 DEF IsTop, Size
  <2>6. ASSUME NEW y \in best PROVE f[x] <= f[y]
    <3> SUFFICES ASSUME f[y] < f[x] PROVE FALSE
      BY <2>1, <2>5
    <3>1. \A z \in Q : z \in best
      <4> SUFFICES ASSUME NEW z \in Q, z \notin best PROVE FALSE
        OBVIOUS
      <4>1. f[z] <= f[y] /\ f[z] >= f[x]
        BY <2>3, <2>5 DEF Beside
      <4>2. f[z] \in Nat /\ f[y] \in Nat /\ f[x] \in Nat
        BY <1>3, <2>1, <2>5
      <4> QED BY <4>1, <4>2
    <3>2. y \notin Q
      BY <2>1, <2>5 DEF Beside
    <3>3. Cardinality(Q \cup {y}) = Cardinality(Q) + 1
      BY <1>1, <1>3, <3>2, FS_AddElement
    <3>4. Cardinality(Q \cup {y}) <= Cardinality(best)
      BY <1>2, <1>3, <2>5, <3>1
    <3> QED BY <1>1, <1>3, <2>2, <2>5, <3>3, <3>4
  <2>7. n <= Cardinality(P)
    BY <1>1, <1>2, <1>3, <2>2
  <2>8. IsTop(best, P, f, n)
    BY <2>5, <2>6, <2>7 DEF IsTop, Size
  <2> QED BY <1>4, <2>5, <2>8
<1>5. ASSUME x \in P, Cardinality(Q) < n, NEW best, IsTop(best, P, f, n), x \notin best
      PROVE  FALSE
  <2>1. best \in SUBSET P /\ best \subseteq Q
    BY <1>5 DEF IsTop, Beside
  <2>2. Cardinality(best) < n
    BY <1>1, <1>2, <1>3, <1>5, <2>1
  <2>3. Cardinality(best) = Cardinality(P)
    BY <1>1, <1>5, <2>1, <2>2 DEF IsTop, Size
  <2>4. best = P
    BY <2>1, <2>3, FS_Subset
  <2> QED BY <1>5, <2>4
<1> QED BY <1>4, <1>5

(* Somebody is in one of the lists exactly when fewer than n are above.    *)
LEMMA ChanceOfPlace ==
  ASSUME NEW P, IsFiniteSet(P), NEW f \in [P -> Nat], NEW n \in Nat, NEW x
  PROVE  (\E best : IsTop(best, P, f, n) /\ x \in best)
         <=> x \in P /\ Cardinality(Ahead(P, f, x)) < n
<1>1. \A s \in SUBSET P : IsFiniteSet(s) /\ Cardinality(s) \in Nat
  BY FS_Subset, FS_CardinalityType
<1>2. \A s, t \in SUBSET P : s \subseteq t => Cardinality(s) <= Cardinality(t)
  BY <1>1, FS_Subset
<1> DEFINE Q == Ahead(P, f, x)
<1>3. Q \in SUBSET P
  BY DEF Ahead
<1>4. x \in P => x \notin Q
  BY DEF Ahead
<1>5. ASSUME NEW best, IsTop(best, P, f, n), x \in best
      PROVE  x \in P /\ Cardinality(Q) < n
  <2>1. best \in SUBSET P /\ x \in P /\ Cardinality(best) <= n
    BY <1>1, <1>5 DEF IsTop, Size
  <2>2. Q \subseteq best \ {x}
    <3> SUFFICES ASSUME NEW y \in Q, y \notin best PROVE FALSE
      BY <1>4, <2>1
    <3>1. f[y] <= f[x] /\ f[y] > f[x]
      BY <1>3, <1>5 DEF IsTop, Ahead
    <3>2. f[y] \in Nat /\ f[x] \in Nat
      BY <1>3, <2>1
    <3> QED BY <3>1, <3>2
  <2>3. Cardinality(best \ {x}) = Cardinality(best) - 1
    BY <1>1, <1>5, <2>1, FS_RemoveElement
  <2>4. Cardinality(Q) <= Cardinality(best \ {x})
    BY <1>2, <1>3, <2>1, <2>2
  <2> QED BY <1>1, <1>3, <2>1, <2>3, <2>4
<1>6. ASSUME x \in P, Cardinality(Q) < n
      PROVE  \E best : IsTop(best, P, f, n) /\ x \in best
  <2> DEFINE R == P \ {x}
             k == Size(n, P) - 1
  <2>1. /\ R \in SUBSET P /\ Cardinality(R) = Cardinality(P) - 1
        /\ Cardinality(P) # 0
    <3>1. Cardinality(R) = Cardinality(P) - 1 /\ Cardinality(R) \in Nat
      BY <1>1, <1>6, FS_RemoveElement
    <3> QED BY <1>1, <3>1
  <2>2. k \in Nat /\ k <= Cardinality(R) /\ Size(n, P) = k + 1
    BY <1>1, <1>3, <1>6, <2>1 DEF Size
  <2> HIDE DEF k
  <2>3. PICK best : IsTop(best, R, [y \in R |-> f[y]], k)
    <3>1. [y \in R |-> f[y]] \in [R -> Nat]
      OBVIOUS
    <3> QED BY <1>1, <2>1, <2>2, <3>1, TopExists
  <2>4. /\ best \in SUBSET R /\ best \in SUBSET P /\ Cardinality(best) = k
        /\ \A y \in best, z \in R \ best : f[z] <= f[y]
    BY <2>1, <2>2, <2>3 DEF IsTop, Size
  <2> DEFINE more == best \cup {x}
  <2>5. more \in SUBSET P /\ Cardinality(more) = k + 1
    BY <1>1, <1>6, <2>4, FS_AddElement
  <2>6. ASSUME NEW z \in P \ more PROVE f[z] <= f[x]
    <3> SUFFICES ASSUME f[z] > f[x] PROVE FALSE
      BY <1>6
    <3>1. \A y \in best : f[y] > f[x]
      <4> SUFFICES ASSUME NEW y \in best PROVE f[y] > f[x]
        OBVIOUS
      <4>1. f[z] <= f[y]
        BY <2>4, <2>6
      <4>2. f[z] \in Nat /\ f[y] \in Nat /\ f[x] \in Nat
        BY <1>6, <2>4, <2>6
      <4> QED BY <4>1, <4>2
    <3>2. best \cup {z} \subseteq Q
      BY <2>4, <2>6, <3>1 DEF Ahead
    <3>3. Cardinality(best \cup {z}) = k + 1
      BY <1>1, <2>4, <2>6, FS_AddElement
    <3>4. k + 1 <= Cardinality(Q)
      BY <1>2, <1>3, <2>4, <2>6, <3>2, <3>3
    <3>5. Cardinality(Q) <= Cardinality(R)
      BY <1>2, <1>3, <1>4, <1>6, <2>1
    <3> QED BY <1>1, <1>3, <1>6, <2>1, <2>2, <3>4, <3>5 DEF Size
  <2>7. IsTop(more, P, f, n)
    BY <2>2, <2>4, <2>5, <2>6 DEF IsTop
  <2> QED BY <2>7
<1> QED BY <1>5, <1>6

(* Who is sure of a place stays so while he does not fall and nobody else  *)
(* rises or joins.                                                         *)
LEMMA StaysSure ==
  ASSUME NEW P, IsFiniteSet(P), NEW f \in [P -> Nat],
         NEW Q, IsFiniteSet(Q), NEW g \in [Q -> Nat], NEW n \in Nat, NEW x,
         x \in P => x \in Q /\ f[x] <= g[x],
         \A y \in Q \ {x} : y \in P /\ g[y] <= f[y],
         \A best : IsTop(best, P, f, n) => x \in best
  PROVE  \A best : IsTop(best, Q, g, n) => x \in best
<1>1. x \in P /\ Cardinality(Beside(P, f, x)) < n
  BY SureOfPlace
<1>2. Beside(Q, g, x) \subseteq Beside(P, f, x)
  <2> SUFFICES ASSUME NEW y \in Q, y # x, g[y] >= g[x]
               PROVE  y \in P /\ f[y] >= f[x]
    BY DEF Beside
  <2>1. y \in P /\ g[y] <= f[y] /\ f[x] <= g[x]
    BY <1>1
  <2>2. f[x] \in Nat /\ g[x] \in Nat /\ f[y] \in Nat /\ g[y] \in Nat
    BY <1>1, <2>1
  <2> QED BY <2>1, <2>2
<1>3. IsFiniteSet(Beside(P, f, x)) /\ Beside(P, f, x) \in SUBSET P
  BY FS_Subset DEF Beside
<1>4. /\ Cardinality(Beside(Q, g, x)) <= Cardinality(Beside(P, f, x))
      /\ Cardinality(Beside(Q, g, x)) \in Nat /\ Cardinality(Beside(P, f, x)) \in Nat
  BY <1>2, <1>3, FS_Subset, FS_CardinalityType
<1> QED BY <1>1, <1>4, SureOfPlace

(* Who has a chance had it before, if he has not risen since and nobody    *)
(* else has fallen or left.                                                *)
LEMMA HadChance ==
  ASSUME NEW P, IsFiniteSet(P), NEW f \in [P -> Nat],
         NEW Q, IsFiniteSet(Q), NEW g \in [Q -> Nat], NEW n \in Nat, NEW x,
         x \in Q => x \in P /\ g[x] <= f[x],
         \A y \in P \ {x} : y \in Q /\ f[y] <= g[y],
         \E best : IsTop(best, Q, g, n) /\ x \in best
  PROVE  \E best : IsTop(best, P, f, n) /\ x \in best
<1>1. x \in Q /\ Cardinality(Ahead(Q, g, x)) < n
  BY ChanceOfPlace
<1>2. Ahead(P, f, x) \subseteq Ahead(Q, g, x)
  <2> SUFFICES ASSUME NEW y \in P, f[y] > f[x]
               PROVE  y \in Q /\ g[y] > g[x]
    BY DEF Ahead
  <2>1. x \in P /\ g[x] <= f[x]
    BY <1>1
  <2>2. y # x
    BY <2>1
  <2>3. y \in Q /\ f[y] <= g[y]
    BY <2>2
  <2>4. f[x] \in Nat /\ g[x] \in Nat /\ f[y] \in Nat /\ g[y] \in Nat
    BY <1>1, <2>1, <2>3
  <2> QED BY <2>1, <2>3, <2>4
<1>3. IsFiniteSet(Ahead(Q, g, x)) /\ Ahead(Q, g, x) \in SUBSET Q
  BY FS_Subset DEF Ahead
<1>4. /\ Cardinality(Ahead(P, f, x)) <= Cardinality(Ahead(Q, g, x))
      /\ Cardinality(Ahead(P, f, x)) \in Nat /\ Cardinality(Ahead(Q, g, x)) \in Nat
  BY <1>2, <1>3, FS_Subset, FS_CardinalityType
<1> QED BY <1>1, <1>4, ChanceOfPlace
=============================================================================
