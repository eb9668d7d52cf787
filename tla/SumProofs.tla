------------------------------ MODULE SumProofs ------------------------------
(***************************************************************************)
(* What SumFunctionOnSet of the community modules computes, for any        *)
(* function and any finite set.  It folds over the subsets of the set by a *)
(* recursive function: that this function exists, and that the order of    *)
(* its choices does not matter, follows by taking a smallest subset that   *)
(* would be wrong.                                                         *)
(***************************************************************************)
EXTENDS Integers, Functions, FiniteSets, FiniteSetTheorems, WellFoundedInduction, TLAPS

(* What the fold of the library unfolds to.                                *)
First(s) == CHOOSE x \in s : TRUE

Step(f, g, s) == IF s = {} THEN 0 ELSE f[First(s)] + g[s \ {First(s)}]

Summing(f, S, g) == g = [s \in SUBSET S |-> Step(f, g, s)]

Iter(f, S) == CHOOSE g : Summing(f, S, g)

(* SumFunctionOnSet is the last value of that recursive function.          *)
LEMMA SumIsIter ==
  ASSUME NEW f, NEW S PROVE SumFunctionOnSet(f, S) = Iter(f, S)[S]
BY DEF SumFunctionOnSet, FoldFunctionOnSet, MapThenFoldSet, Iter, Summing, Step, First

(* The fold takes a member out.                                            *)
LEMMA FirstIn == ASSUME NEW s, s # {} PROVE First(s) \in s
BY DEF First

(* Of the subsets of a finite set in B, one has no other in it.            *)
LEMMA Smallest ==
  ASSUME NEW S, IsFiniteSet(S), NEW B, B \subseteq SUBSET S, B # {}
  PROVE  \E T \in B : \A U \in SUBSET T : U \in B => U = T
<1>1. IsWellFoundedOn(StrictSubsetOrdering(S), SUBSET S)
  BY FS_FiniteSubsetsOfFinite, FS_StrictSubsetOrderingWellFounded
<1>2. PICK T \in B : \A U \in B : <<U, T>> \notin StrictSubsetOrdering(S)
  BY <1>1, WFMin
<1>3. ASSUME NEW U \in SUBSET T, U \in B, U # T PROVE FALSE
  BY <1>2, <1>3 DEF StrictSubsetOrdering
<1> QED
  BY <1>3

(* The recursive function at one subset.                                   *)
LEMMA SummingAt ==
  ASSUME NEW f, NEW S, NEW g, Summing(f, S, g), NEW s \in SUBSET S
  PROVE  g[s] = Step(f, g, s)
BY DEF Summing

(* Over a smaller set the recursion has the same values.                   *)
LEMMA SummingUnique ==
  ASSUME NEW S, IsFiniteSet(S), NEW T \in SUBSET S, NEW f, NEW g, NEW h,
         Summing(f, S, g), Summing(f, T, h), NEW t \in SUBSET T
  PROVE  g[t] = h[t]
<1> DEFINE B == {u \in SUBSET T : g[u] # h[u]}
<1>1. SUFFICES ASSUME B # {} PROVE FALSE
  OBVIOUS
<1>2. PICK u \in B : \A v \in SUBSET u : v \in B => v = u
  <2>1. B \subseteq SUBSET S
    OBVIOUS
  <2> HIDE DEF B
  <2> QED
    BY <1>1, <2>1, Smallest
<1>3. u \in SUBSET T /\ u \in SUBSET S /\ g[u] # h[u]
  OBVIOUS
<1>4. g[u] = Step(f, g, u) /\ h[u] = Step(f, h, u)
  BY <1>3, SummingAt
<1>5. u # {}
  BY <1>3, <1>4 DEF Step
<1> DEFINE v == u \ {First(u)}
<1>6. v \in SUBSET u /\ v # u /\ v \in SUBSET T
  BY <1>3, <1>5, FirstIn
<1>7. g[v] = h[v]
  BY <1>2, <1>6
<1> QED
  BY <1>3, <1>4, <1>5, <1>7 DEF Step

(* The recursion has a solution: the values of the smaller ones make one.  *)
LEMMA IterSums ==
  ASSUME NEW S, IsFiniteSet(S), NEW f PROVE Summing(f, S, Iter(f, S))
<1> DEFINE B == {T \in SUBSET S : ~\E g : Summing(f, T, g)}
<1>1. SUFFICES B = {}
  <2>1. \E g : Summing(f, S, g)
    OBVIOUS
  <2> QED
    BY <2>1 DEF Iter
<1>2. SUFFICES ASSUME B # {} PROVE FALSE
  OBVIOUS
<1>3. PICK T \in B : \A U \in SUBSET T : U \in B => U = T
  <2>1. B \subseteq SUBSET S
    OBVIOUS
  <2> HIDE DEF B
  <2> QED
    BY <1>2, <2>1, Smallest
<1>4. T \in SUBSET S /\ ~\E g : Summing(f, T, g)
  OBVIOUS
<1> DEFINE V(s) == Iter(f, s)[s]
<1>5. ASSUME NEW s \in SUBSET T, s # T PROVE Summing(f, s, Iter(f, s))
  <2>1. \E g : Summing(f, s, g)
    BY <1>3, <1>4, <1>5
  <2> QED
    BY <2>1 DEF Iter
<1>6. ASSUME NEW s \in SUBSET T, s # T, s # {}
      PROVE  V(s) = f[First(s)] + V(s \ {First(s)})
  <2> DEFINE r == s \ {First(s)}
  <2>1. First(s) \in s /\ r \in SUBSET s /\ r \in SUBSET T /\ r # T
    BY <1>6, FirstIn
  <2>2. Summing(f, s, Iter(f, s)) /\ Summing(f, r, Iter(f, r))
    BY <1>5, <1>6, <2>1
  <2>3. IsFiniteSet(s)
    BY <1>4, FS_Subset
  <2>4. Iter(f, s)[r] = Iter(f, r)[r]
    BY <2>1, <2>2, <2>3, SummingUnique
  <2>5. Iter(f, s)[s] = Step(f, Iter(f, s), s)
    BY <2>2, SummingAt
  <2> QED
    BY <1>6, <2>4, <2>5 DEF Step
<1>7. ASSUME {} # T PROVE V({}) = 0
  <2>1. V({}) = Step(f, Iter(f, {}), {})
    BY <1>5, <1>7, SummingAt
  <2> QED
    BY <2>1 DEF Step
<1> DEFINE val(s) == IF s = {} THEN 0 ELSE f[First(s)] + V(s \ {First(s)})
           G == [s \in SUBSET T |-> val(s)]
<1>8. ASSUME NEW s \in SUBSET T, s # {} PROVE V(s \ {First(s)}) = G[s \ {First(s)}]
  <2> DEFINE r == s \ {First(s)}
  <2>1. r \in SUBSET T /\ r # T
    BY <1>8, FirstIn
  <2>2. V(r) = val(r)
    BY <1>6, <1>7, <2>1
  <2> QED
    BY <2>1, <2>2
<1>9. ASSUME NEW s \in SUBSET T PROVE val(s) = Step(f, G, s)
  BY <1>8 DEF Step
<1>10. G = [s \in SUBSET T |-> Step(f, G, s)]
  BY <1>9
<1>11. Summing(f, T, G)
  BY <1>10 DEF Summing
<1> QED
  BY <1>4, <1>11

-----------------------------------------------------------------------------
Integral(f, S) == \A x \in S : f[x] \in Int

(* An empty sum is zero.                                                   *)
LEMMA SumOfNone == ASSUME NEW f PROVE SumFunctionOnSet(f, {}) = 0
<1>1. Summing(f, {}, Iter(f, {}))
  BY FS_EmptySet, IterSums
<1> QED
  BY <1>1, SummingAt, SumIsIter DEF Step

(* The sum without the member that the fold takes out first.               *)
LEMMA SumFromFirst ==
  ASSUME NEW f, NEW S, IsFiniteSet(S), S # {}
  PROVE  SumFunctionOnSet(f, S) = f[First(S)] + SumFunctionOnSet(f, S \ {First(S)})
<1> DEFINE R == S \ {First(S)}
<1>1. R \in SUBSET S /\ IsFiniteSet(R)
  BY FS_Subset
<1>2. Summing(f, S, Iter(f, S)) /\ Summing(f, R, Iter(f, R))
  BY <1>1, IterSums
<1>3. Iter(f, S)[R] = Iter(f, R)[R]
  BY <1>1, <1>2, SummingUnique
<1>4. Iter(f, S)[S] = f[First(S)] + Iter(f, S)[R]
  BY <1>2, SummingAt DEF Step
<1> QED
  BY <1>3, <1>4, SumIsIter

(* The sum of integers is an integer.                                      *)
LEMMA SumType ==
  ASSUME NEW f, NEW S, IsFiniteSet(S), Integral(f, S)
  PROVE  SumFunctionOnSet(f, S) \in Int
<1> DEFINE B == {T \in SUBSET S : SumFunctionOnSet(f, T) \notin Int}
<1>1. SUFFICES ASSUME B # {} PROVE FALSE
  OBVIOUS
<1>2. PICK T \in B : \A U \in SUBSET T : U \in B => U = T
  <2>1. B \subseteq SUBSET S
    OBVIOUS
  <2> HIDE DEF B
  <2> QED
    BY <1>1, <2>1, Smallest
<1>3. T \in SUBSET S /\ IsFiniteSet(T) /\ SumFunctionOnSet(f, T) \notin Int
  BY FS_Subset
<1>4. T # {}
  BY <1>3, SumOfNone
<1> DEFINE R == T \ {First(T)}
<1>5. First(T) \in T /\ R \in SUBSET T /\ R # T
  BY <1>4, FirstIn
<1>6. SumFunctionOnSet(f, R) \in Int
  BY <1>2, <1>3, <1>5
<1>7. f[First(T)] \in Int
  BY <1>3, <1>5 DEF Integral
<1>8. SumFunctionOnSet(f, T) = f[First(T)] + SumFunctionOnSet(f, R)
  BY <1>3, <1>4, SumFromFirst
<1> QED
  BY <1>3, <1>6, <1>7, <1>8

(* Any member may be taken out first.                                      *)
LEMMA SumRemove ==
  ASSUME NEW f, NEW S, IsFiniteSet(S), Integral(f, S), NEW x \in S
  PROVE  SumFunctionOnSet(f, S) = f[x] + SumFunctionOnSet(f, S \ {x})
<1> DEFINE B == {T \in SUBSET S :
                   \E y \in T : SumFunctionOnSet(f, T) # f[y] + SumFunctionOnSet(f, T \ {y})}
<1>1. SUFFICES ASSUME B # {} PROVE FALSE
  OBVIOUS
<1>2. PICK T \in B : \A U \in SUBSET T : U \in B => U = T
  <2>1. B \subseteq SUBSET S
    OBVIOUS
  <2> HIDE DEF B
  <2> QED
    BY <1>1, <2>1, Smallest
<1>3. PICK y \in T : SumFunctionOnSet(f, T) # f[y] + SumFunctionOnSet(f, T \ {y})
  OBVIOUS
<1> DEFINE c == First(T)
           R == T \ {c}
           Q == T \ {y}
           P == R \ {y}
<1>4. /\ T \in SUBSET S /\ c \in T /\ R \in SUBSET T /\ R # T
      /\ IsFiniteSet(T) /\ IsFiniteSet(R) /\ IsFiniteSet(Q) /\ IsFiniteSet(P)
  BY FirstIn, FS_Subset
<1>5. SumFunctionOnSet(f, T) = f[c] + SumFunctionOnSet(f, R)
  BY <1>4, SumFromFirst
<1>6. y # c
  BY <1>3, <1>5
<1>. DEFINE Splits(U, v) == SumFunctionOnSet(f, U) = f[v] + SumFunctionOnSet(f, U \ {v})
<1>10. ASSUME NEW U \in SUBSET T, U # T, NEW v \in U PROVE Splits(U, v)
  BY <1>2, <1>4, <1>10
<1>7. Splits(R, y)
  <2>1. y \in R
    BY <1>6
  <2> HIDE DEF Splits, R
  <2> QED
    BY <1>4, <1>10, <2>1
<1>8. SumFunctionOnSet(f, Q) = f[c] + SumFunctionOnSet(f, P)
  <2>1. Q \in SUBSET T /\ Q # T /\ c \in Q /\ P = Q \ {c}
    BY <1>4, <1>6
  <2>2. Splits(Q, c)
    <3> HIDE DEF Splits, Q
    <3> QED
      BY <1>10, <2>1
  <2> QED
    BY <2>1, <2>2
<1>9. f[c] \in Int /\ f[y] \in Int /\ SumFunctionOnSet(f, P) \in Int
  BY <1>4, SumType DEF Integral
<1> QED
  BY <1>3, <1>5, <1>7, <1>8, <1>9

(* A member more adds its value.                                           *)
LEMMA SumAdd ==
  ASSUME NEW f, NEW S, IsFiniteSet(S), NEW x, x \notin S, Integral(f, S \cup {x})
  PROVE  SumFunctionOnSet(f, S \cup {x}) = f[x] + SumFunctionOnSet(f, S)
<1>1. IsFiniteSet(S \cup {x}) /\ (S \cup {x}) \ {x} = S
  BY FS_AddElement
<1> QED
  BY <1>1, SumRemove

(* Only the values on the set count.                                       *)
LEMMA SumSame ==
  ASSUME NEW f, NEW g, NEW S, IsFiniteSet(S), \A x \in S : f[x] = g[x]
  PROVE  SumFunctionOnSet(f, S) = SumFunctionOnSet(g, S)
<1> DEFINE B == {T \in SUBSET S : SumFunctionOnSet(f, T) # SumFunctionOnSet(g, T)}
<1>1. SUFFICES ASSUME B # {} PROVE FALSE
  OBVIOUS
<1>2. PICK T \in B : \A U \in SUBSET T : U \in B => U = T
  <2>1. B \subseteq SUBSET S
    OBVIOUS
  <2> HIDE DEF B
  <2> QED
    BY <1>1, <2>1, Smallest
<1>3. T \in SUBSET S /\ IsFiniteSet(T) /\ SumFunctionOnSet(f, T) # SumFunctionOnSet(g, T)
  BY FS_Subset
<1>4. T # {}
  BY <1>3, SumOfNone
<1> DEFINE R == T \ {First(T)}
<1>5. First(T) \in T /\ R \in SUBSET T /\ R # T
  BY <1>4, FirstIn
<1>6. SumFunctionOnSet(f, R) = SumFunctionOnSet(g, R)
  BY <1>2, <1>3, <1>5
<1>7. f[First(T)] = g[First(T)]
  BY <1>3, <1>5
<1>8. /\ SumFunctionOnSet(f, T) = f[First(T)] + SumFunctionOnSet(f, R)
      /\ SumFunctionOnSet(g, T) = g[First(T)] + SumFunctionOnSet(g, R)
  BY <1>3, <1>4, SumFromFirst
<1> QED
  BY <1>3, <1>6, <1>7, <1>8

(* Where one value changes, the sum changes by as much.                    *)
LEMMA SumChange ==
  ASSUME NEW f, NEW g, NEW S, IsFiniteSet(S), Integral(f, S), Integral(g, S), NEW x \in S,
         \A y \in S \ {x} : f[y] = g[y]
  PROVE  SumFunctionOnSet(g, S) = SumFunctionOnSet(f, S) + (g[x] - f[x])
<1>1. IsFiniteSet(S \ {x}) /\ Integral(f, S \ {x})
  BY FS_Subset DEF Integral
<1>2. SumFunctionOnSet(f, S \ {x}) = SumFunctionOnSet(g, S \ {x})
  BY <1>1, SumSame
<1>3. SumFunctionOnSet(f, S \ {x}) \in Int /\ f[x] \in Int /\ g[x] \in Int
  BY <1>1, SumType DEF Integral
<1>4. /\ SumFunctionOnSet(f, S) = f[x] + SumFunctionOnSet(f, S \ {x})
      /\ SumFunctionOnSet(g, S) = g[x] + SumFunctionOnSet(g, S \ {x})
  BY SumRemove
<1> QED
  BY <1>2, <1>3, <1>4

(* A sum of naturals is a natural.                                         *)
LEMMA SumNatural ==
  ASSUME NEW f, NEW S, IsFiniteSet(S), \A x \in S : f[x] \in Nat
  PROVE  SumFunctionOnSet(f, S) \in Nat
<1> DEFINE B == {T \in SUBSET S : SumFunctionOnSet(f, T) \notin Nat}
<1>1. SUFFICES ASSUME B # {} PROVE FALSE
  OBVIOUS
<1>2. PICK T \in B : \A U \in SUBSET T : U \in B => U = T
  <2>1. B \subseteq SUBSET S
    OBVIOUS
  <2> HIDE DEF B
  <2> QED
    BY <1>1, <2>1, Smallest
<1>3. T \in SUBSET S /\ IsFiniteSet(T) /\ SumFunctionOnSet(f, T) \notin Nat
  BY FS_Subset
<1>4. T # {}
  BY <1>3, SumOfNone
<1> DEFINE R == T \ {First(T)}
<1>5. First(T) \in T /\ R \in SUBSET T /\ R # T
  BY <1>4, FirstIn
<1>6. SumFunctionOnSet(f, R) \in Nat /\ f[First(T)] \in Nat
  BY <1>2, <1>3, <1>5
<1>7. SumFunctionOnSet(f, T) = f[First(T)] + SumFunctionOnSet(f, R)
  BY <1>3, <1>4, SumFromFirst
<1> QED
  BY <1>3, <1>6, <1>7

(* Sums add up member by member.                                           *)
LEMMA SumPlus ==
  ASSUME NEW f, NEW g, NEW h, NEW S, IsFiniteSet(S), Integral(f, S), Integral(g, S),
         \A x \in S : h[x] = f[x] + g[x]
  PROVE  SumFunctionOnSet(h, S) = SumFunctionOnSet(f, S) + SumFunctionOnSet(g, S)
<1> DEFINE B == {T \in SUBSET S :
                   SumFunctionOnSet(h, T) # SumFunctionOnSet(f, T) + SumFunctionOnSet(g, T)}
<1>1. SUFFICES ASSUME B # {} PROVE FALSE
  OBVIOUS
<1>2. PICK T \in B : \A U \in SUBSET T : U \in B => U = T
  <2>1. B \subseteq SUBSET S
    OBVIOUS
  <2> HIDE DEF B
  <2> QED
    BY <1>1, <2>1, Smallest
<1>3. /\ T \in SUBSET S /\ IsFiniteSet(T)
      /\ SumFunctionOnSet(h, T) # SumFunctionOnSet(f, T) + SumFunctionOnSet(g, T)
  BY FS_Subset
<1>4. T # {}
  BY <1>3, SumOfNone
<1> DEFINE R == T \ {First(T)}
<1>5. First(T) \in T /\ R \in SUBSET T /\ R # T /\ IsFiniteSet(R)
  BY <1>3, <1>4, FirstIn, FS_Subset
<1>6. SumFunctionOnSet(h, R) = SumFunctionOnSet(f, R) + SumFunctionOnSet(g, R)
  BY <1>2, <1>3, <1>5
<1>7. /\ h[First(T)] = f[First(T)] + g[First(T)]
      /\ f[First(T)] \in Int /\ g[First(T)] \in Int
      /\ SumFunctionOnSet(f, R) \in Int /\ SumFunctionOnSet(g, R) \in Int
  BY <1>3, <1>5, SumType DEF Integral
<1>8. /\ SumFunctionOnSet(h, T) = h[First(T)] + SumFunctionOnSet(h, R)
      /\ SumFunctionOnSet(f, T) = f[First(T)] + SumFunctionOnSet(f, R)
      /\ SumFunctionOnSet(g, T) = g[First(T)] + SumFunctionOnSet(g, R)
  BY <1>3, <1>4, SumFromFirst
<1> QED
  BY <1>3, <1>6, <1>7, <1>8

(* A sum of zeros is zero.                                                 *)
LEMMA SumZero ==
  ASSUME NEW f, NEW S, IsFiniteSet(S), \A x \in S : f[x] = 0
  PROVE  SumFunctionOnSet(f, S) = 0
<1>1. Integral(f, S) /\ \A x \in S : f[x] = f[x] + f[x]
  BY DEF Integral
<1>2. SumFunctionOnSet(f, S) = SumFunctionOnSet(f, S) + SumFunctionOnSet(f, S)
  BY <1>1, SumPlus
<1>3. SumFunctionOnSet(f, S) \in Int
  BY <1>1, SumType
<1>4. \A n \in Int : n = n + n => n = 0
  OBVIOUS
<1> QED
  BY ONLY <1>2, <1>3, <1>4

(* Naturals that sum up to zero are zero.                                  *)
LEMMA SumIsZero ==
  ASSUME NEW f, NEW S, IsFiniteSet(S), \A x \in S : f[x] \in Nat, SumFunctionOnSet(f, S) = 0, NEW x \in S
  PROVE  f[x] = 0
<1>1. IsFiniteSet(S \ {x}) /\ Integral(f, S)
  BY FS_Subset DEF Integral
<1>2. SumFunctionOnSet(f, S) = f[x] + SumFunctionOnSet(f, S \ {x})
  BY <1>1, SumRemove
<1>3. SumFunctionOnSet(f, S \ {x}) \in Nat
  BY <1>1, SumNatural
<1> QED
  BY <1>2, <1>3

(* A greater function has a greater sum.                                   *)
LEMMA SumLeq ==
  ASSUME NEW f, NEW g, NEW S, IsFiniteSet(S), Integral(f, S), Integral(g, S),
         \A x \in S : f[x] <= g[x]
  PROVE  SumFunctionOnSet(f, S) <= SumFunctionOnSet(g, S)
<1> DEFINE d == [x \in S |-> g[x] - f[x]]
<1>1. \A x \in S : d[x] \in Nat /\ d[x] \in Int /\ g[x] = f[x] + d[x]
  BY DEF Integral
<1> HIDE DEF d
<1>2. SumFunctionOnSet(g, S) = SumFunctionOnSet(f, S) + SumFunctionOnSet(d, S)
  BY <1>1, SumPlus DEF Integral
<1>3. SumFunctionOnSet(d, S) \in Nat /\ SumFunctionOnSet(f, S) \in Int
  BY <1>1, SumNatural, SumType
<1> QED
  BY <1>2, <1>3

(* The sum over a part is the sum over the whole of what lies in it.       *)
LEMMA SumPart ==
  ASSUME NEW f, NEW g, NEW S, NEW V \in SUBSET S, IsFiniteSet(S), Integral(f, S),
         \A x \in S : g[x] = IF x \in V THEN f[x] ELSE 0
  PROVE  SumFunctionOnSet(f, V) = SumFunctionOnSet(g, S)
<1> DEFINE B == {T \in SUBSET S : SumFunctionOnSet(f, V \cap T) # SumFunctionOnSet(g, T)}
<1>1. V \cap S = V
  OBVIOUS
<1>2. SUFFICES ASSUME B # {} PROVE FALSE
  BY <1>1
<1>3. PICK T \in B : \A U \in SUBSET T : U \in B => U = T
  <2>1. B \subseteq SUBSET S
    OBVIOUS
  <2> HIDE DEF B
  <2> QED
    BY <1>2, <2>1, Smallest
<1>4. T \in SUBSET S /\ IsFiniteSet(T) /\ SumFunctionOnSet(f, V \cap T) # SumFunctionOnSet(g, T)
  BY FS_Subset
<1>5. T # {}
  <2>1. V \cap {} = {}
    OBVIOUS
  <2> QED
    BY <1>4, <2>1, SumOfNone
<1> DEFINE c == First(T)
           R == T \ {c}
<1>6. c \in T /\ R \in SUBSET T /\ R # T /\ IsFiniteSet(V \cap R) /\ Integral(f, V \cap T)
  BY <1>4, <1>5, FirstIn, FS_Subset DEF Integral
<1>7. SumFunctionOnSet(f, V \cap R) = SumFunctionOnSet(g, R)
  BY <1>3, <1>4, <1>6
<1>8. SumFunctionOnSet(g, T) = g[c] + SumFunctionOnSet(g, R)
  BY <1>4, <1>5, SumFromFirst
<1>9. CASE c \in V
  <2>1. V \cap T = (V \cap R) \cup {c} /\ c \notin V \cap R
    BY <1>6, <1>9
  <2>2. SumFunctionOnSet(f, V \cap T) = f[c] + SumFunctionOnSet(f, V \cap R)
    BY <1>6, <2>1, SumAdd
  <2> QED
    BY <1>4, <1>6, <1>7, <1>8, <1>9, <2>2
<1>10. CASE c \notin V
  <2>1. V \cap T = V \cap R /\ g[c] = 0
    BY <1>4, <1>6, <1>10
  <2>2. SumFunctionOnSet(f, V \cap R) \in Int
    BY <1>6, SumType DEF Integral
  <2>3. SumFunctionOnSet(f, V \cap T) = SumFunctionOnSet(f, V \cap R)
    BY <2>1, Zenon
  <2>4. SumFunctionOnSet(g, T) = SumFunctionOnSet(g, R)
    <3> HIDE DEF R
    <3> QED
      BY <1>7, <1>8, <2>1, <2>2
  <2> QED
    BY <1>4, <1>7, <2>3, <2>4, Zenon
<1> QED
  BY <1>9, <1>10
=============================================================================
