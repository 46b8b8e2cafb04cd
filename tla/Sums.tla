-------------------------------- MODULE Sums --------------------------------
(***************************************************************************)
(* What SumFunctionOnSet computes on a finite set, whichever element the   *)
(* fold picks first: the well-founded order of the strict subsets of a     *)
(* finite set stands in for an induction principle.                        *)
(***************************************************************************)
EXTENDS Integers, FiniteSets, Functions, FiniteSetTheorems, TLAPS

\* f adds up m over every subset of S, picking elements as the fold does.
AddsUp(f, m, S) ==
  f = [s \in SUBSET S |-> IF s = {} THEN 0
                          ELSE LET x == CHOOSE x \in s : TRUE IN m[x] + f[s \ {x}]]

LEMMA SumDef ==
  ASSUME NEW m, NEW S
  PROVE  SumFunctionOnSet(m, S) = (CHOOSE f : AddsUp(f, m, S))[S]
  BY DEF SumFunctionOnSet, FoldFunctionOnSet, MapThenFoldSet, AddsUp

\* A family of subsets of a finite set has a smallest member.
LEMMA Smallest ==
  ASSUME NEW S, IsFiniteSet(S), NEW T, T \subseteq SUBSET S, T # {}
  PROVE  \E s \in T : \A u \in T : u \subseteq s => u = s
  <1>1. IsWellFoundedOn(StrictSubsetOrdering(S), SUBSET S)
    BY FS_StrictSubsetOrderingWellFounded, FS_FiniteSubsetsOfFinite
  <1>2. PICK s \in T : \A u \in T : <<u, s>> \notin StrictSubsetOrdering(S)
    BY <1>1, WFMin
  <1>3. ASSUME NEW u \in T, u \subseteq s
        PROVE  u = s
    BY <1>2, <1>3 DEF StrictSubsetOrdering
  <1> QED
    BY <1>3

LEMMA AddsUpAt ==
  ASSUME NEW f, NEW m, NEW S, AddsUp(f, m, S), NEW s \in SUBSET S
  PROVE  f[s] = IF s = {} THEN 0 ELSE m[CHOOSE x \in s : TRUE] + f[s \ {CHOOSE x \in s : TRUE}]
  BY DEF AddsUp

LEMMA Chosen == ASSUME NEW s, s # {} PROVE (CHOOSE x \in s : TRUE) \in s
  OBVIOUS

\* Two functions that add up m agree where both are defined.
LEMMA AddsUpUnique ==
  ASSUME NEW S, NEW R, IsFiniteSet(S), NEW m, NEW f, NEW g, AddsUp(f, m, S), AddsUp(g, m, R),
         NEW s \in SUBSET S, s \in SUBSET R
  PROVE  f[s] = g[s]
  <1> DEFINE T == {u \in SUBSET s : f[u] # g[u]}
  <1>1. SUFFICES ASSUME T # {} PROVE FALSE
    OBVIOUS
  <1>2. T \subseteq SUBSET S
    OBVIOUS
  <1>3. PICK u \in T : \A v \in T : v \subseteq u => v = u
    <2> HIDE DEF T
    <2> QED
      BY <1>1, <1>2, Smallest
  <1>4. u \in SUBSET S /\ u \in SUBSET R /\ f[u] # g[u]
    OBVIOUS
  <1>5. u # {}
    BY <1>4, AddsUpAt
  <1> DEFINE x == CHOOSE x \in u : TRUE
  <1>6. x \in u
    BY <1>5, Chosen
  <1>7. u \ {x} \notin T
    BY <1>3, <1>6
  <1>8. f[u \ {x}] = g[u \ {x}]
    BY <1>7
  <1>9. f[u] = m[x] + f[u \ {x}] /\ g[u] = m[x] + g[u \ {x}]
    BY <1>4, <1>5, AddsUpAt
  <1> QED
    BY <1>4, <1>8, <1>9

\* The value that adding up m over s has.
Value(m, s) == (CHOOSE f : AddsUp(f, m, s))[s]

LEMMA ValueIs ==
  ASSUME NEW m, NEW s, IsFiniteSet(s), NEW f, NEW S, IsFiniteSet(S), s \in SUBSET S, AddsUp(f, m, S),
         \E g : AddsUp(g, m, s)
  PROVE  Value(m, s) = f[s]
  <1> DEFINE g == CHOOSE g : AddsUp(g, m, s)
  <1>1. AddsUp(g, m, s)
    OBVIOUS
  <1>2. Value(m, s) = g[s]
    BY DEF Value
  <1> HIDE DEF g
  <1> QED
    BY <1>1, <1>2, AddsUpUnique

LEMMA AddsUpExists ==
  ASSUME NEW S, IsFiniteSet(S), NEW m
  PROVE  \E f : AddsUp(f, m, S)
  <1> DEFINE T == {u \in SUBSET S : ~\E f : AddsUp(f, m, u)}
  <1>1. SUFFICES ASSUME T # {} PROVE FALSE
    <2>1. S \notin T => \E f : AddsUp(f, m, S)
      OBVIOUS
    <2> QED
      BY <2>1
  <1>2. T \subseteq SUBSET S
    OBVIOUS
  <1>3. PICK u \in T : \A v \in T : v \subseteq u => v = u
    <2> HIDE DEF T
    <2> QED
      BY <1>1, <1>2, Smallest
  <1>4. /\ u \in SUBSET S /\ ~\E f : AddsUp(f, m, u)
        /\ \A v \in SUBSET u : v # u => \E f : AddsUp(f, m, v)
    BY <1>3
  <1> HIDE DEF T
  <1> DEFINE pick(v) == CHOOSE x \in v : TRUE
  <1> DEFINE G == [v \in SUBSET u |-> IF v = {} THEN 0 ELSE m[pick(v)] + Value(m, v \ {pick(v)})]
  <1>5. ASSUME NEW v \in SUBSET u, v # u
        PROVE  G[v] = Value(m, v)
    <2>1. IsFiniteSet(v)
      BY <1>4, FS_Subset
    <2>2. PICK f : AddsUp(f, m, v)
      BY <1>4, <1>5
    <2>3. Value(m, v) = f[v]
      BY <2>1, <2>2, ValueIs
    <2>4. CASE v = {}
      BY <2>2, <2>3, <2>4, AddsUpAt
    <2>5. CASE v # {}
      <3>1. pick(v) \in v
        BY <2>5, Chosen
      <3>2. f[v] = m[pick(v)] + f[v \ {pick(v)}]
        BY <2>2, <2>5, AddsUpAt
      <3> HIDE DEF pick
      <3>3. /\ v \ {pick(v)} \in SUBSET u /\ v \ {pick(v)} # u /\ v \ {pick(v)} \in SUBSET v
            /\ IsFiniteSet(v \ {pick(v)})
        BY <2>1, <3>1, FS_RemoveElement
      <3>4. Value(m, v \ {pick(v)}) = f[v \ {pick(v)}]
        BY <1>4, <2>1, <2>2, <3>3, ValueIs
      <3> QED
        BY <2>3, <2>5, <3>2, <3>4
    <2> QED
      BY <2>4, <2>5
  <1>6. ASSUME NEW v \in SUBSET u
        PROVE  G[v] = IF v = {} THEN 0 ELSE m[pick(v)] + G[v \ {pick(v)}]
    <2>1. CASE v = {}
      BY <2>1
    <2>2. CASE v # {}
      <3>1. pick(v) \in v
        BY <2>2, Chosen
      <3>2. v \ {pick(v)} \in SUBSET u /\ v \ {pick(v)} # u
        <4> HIDE DEF pick
        <4> QED
          BY <3>1
      <3>3. G[v \ {pick(v)}] = Value(m, v \ {pick(v)})
        BY <1>5, <3>2
      <3>4. G[v] = m[pick(v)] + Value(m, v \ {pick(v)})
        BY <2>2
      <3> QED
        BY <2>2, <3>3, <3>4
    <2> QED
      BY <2>1, <2>2
  <1>7. G = [v \in SUBSET u |-> IF v = {} THEN 0 ELSE m[pick(v)] + G[v \ {pick(v)}]]
    <2>1. G = [v \in SUBSET u |-> G[v]]
      OBVIOUS
    <2> HIDE DEF G
    <2> QED
      BY <1>6, <2>1
  <1>8. AddsUp(G, m, u)
    BY <1>7 DEF AddsUp
  <1> QED
    BY <1>4, <1>8

\* The fold over a finite set: nothing over nothing, and one element at a time.
LEMMA SumUnfold ==
  ASSUME NEW S, IsFiniteSet(S), NEW m
  PROVE  SumFunctionOnSet(m, S)
           = IF S = {} THEN 0
             ELSE m[CHOOSE x \in S : TRUE] + SumFunctionOnSet(m, S \ {CHOOSE x \in S : TRUE})
  <1>1. PICK f : AddsUp(f, m, S)
    BY AddsUpExists
  <1>2. ASSUME NEW s \in SUBSET S
        PROVE  SumFunctionOnSet(m, s) = f[s]
    <2>1. IsFiniteSet(s)
      BY FS_Subset
    <2>2. SumFunctionOnSet(m, s) = Value(m, s)
      BY SumDef DEF Value
    <2> QED
      BY <1>1, <2>1, <2>2, AddsUpExists, ValueIs
  <1>3. f[S] = IF S = {} THEN 0 ELSE m[CHOOSE x \in S : TRUE] + f[S \ {CHOOSE x \in S : TRUE}]
    BY <1>1, AddsUpAt
  <1>4. S \ {CHOOSE x \in S : TRUE} \in SUBSET S /\ S \in SUBSET S
    OBVIOUS
  <1> QED
    BY <1>2, <1>3, <1>4

LEMMA SumEmpty == ASSUME NEW m PROVE SumFunctionOnSet(m, {}) = 0
  BY SumUnfold, FS_EmptySet

LEMMA SumType ==
  ASSUME NEW S, IsFiniteSet(S), NEW m, \A x \in S : m[x] \in Int
  PROVE  SumFunctionOnSet(m, S) \in Int
  <1> DEFINE T == {u \in SUBSET S : SumFunctionOnSet(m, u) \notin Int}
  <1>1. SUFFICES ASSUME T # {} PROVE FALSE
    OBVIOUS
  <1>2. T \subseteq SUBSET S
    OBVIOUS
  <1>3. PICK u \in T : \A v \in T : v \subseteq u => v = u
    <2> HIDE DEF T
    <2> QED
      BY <1>1, <1>2, Smallest
  <1>4. u \in SUBSET S /\ SumFunctionOnSet(m, u) \notin Int /\ IsFiniteSet(u)
    BY FS_Subset
  <1>5. PICK x : x = CHOOSE e \in u : TRUE
    OBVIOUS
  <1>6. u # {}
    BY <1>4, SumEmpty
  <1>7. x \in u
    BY <1>5, <1>6, Chosen
  <1>8. SumFunctionOnSet(m, u \ {x}) \in Int
    BY <1>3, <1>4, <1>7
  <1>9. SumFunctionOnSet(m, u) = m[x] + SumFunctionOnSet(m, u \ {x})
    BY <1>4, <1>5, <1>6, SumUnfold
  <1> QED
    BY <1>4, <1>7, <1>8, <1>9

LEMMA SumNat ==
  ASSUME NEW S, IsFiniteSet(S), NEW m, \A x \in S : m[x] \in Nat
  PROVE  SumFunctionOnSet(m, S) \in Nat
  <1> DEFINE T == {u \in SUBSET S : SumFunctionOnSet(m, u) \notin Nat}
  <1>1. SUFFICES ASSUME T # {} PROVE FALSE
    OBVIOUS
  <1>2. T \subseteq SUBSET S
    OBVIOUS
  <1>3. PICK u \in T : \A v \in T : v \subseteq u => v = u
    <2> HIDE DEF T
    <2> QED
      BY <1>1, <1>2, Smallest
  <1>4. u \in SUBSET S /\ SumFunctionOnSet(m, u) \notin Nat /\ IsFiniteSet(u)
    BY FS_Subset
  <1>5. PICK x : x = CHOOSE e \in u : TRUE
    OBVIOUS
  <1>6. u # {}
    BY <1>4, SumEmpty
  <1>7. x \in u
    BY <1>5, <1>6, Chosen
  <1>8. SumFunctionOnSet(m, u \ {x}) \in Nat
    BY <1>3, <1>4, <1>7
  <1>9. SumFunctionOnSet(m, u) = m[x] + SumFunctionOnSet(m, u \ {x})
    BY <1>4, <1>5, <1>6, SumUnfold
  <1> QED
    BY <1>4, <1>7, <1>8, <1>9

\* Whichever element the fold picks, any one element may be taken out.
LEMMA SumRemove ==
  ASSUME NEW S, IsFiniteSet(S), NEW m, \A x \in S : m[x] \in Int, NEW c \in S
  PROVE  SumFunctionOnSet(m, S) = m[c] + SumFunctionOnSet(m, S \ {c})
  <1> DEFINE T == {u \in SUBSET S : \E d \in u : SumFunctionOnSet(m, u) # m[d] + SumFunctionOnSet(m, u \ {d})}
  <1>1. SUFFICES ASSUME T # {} PROVE FALSE
    OBVIOUS
  <1>2. T \subseteq SUBSET S
    OBVIOUS
  <1>3. PICK u \in T : \A v \in T : v \subseteq u => v = u
    <2> HIDE DEF T
    <2> QED
      BY <1>1, <1>2, Smallest
  <1>4. PICK d \in u : SumFunctionOnSet(m, u) # m[d] + SumFunctionOnSet(m, u \ {d})
    BY <1>3
  <1>5. u \in SUBSET S /\ IsFiniteSet(u)
    BY FS_Subset
  <1>6. PICK x \in u : x = CHOOSE e \in u : TRUE
    BY Chosen
  <1>7. SumFunctionOnSet(m, u) = m[x] + SumFunctionOnSet(m, u \ {x})
    BY <1>5, <1>6, SumUnfold
  <1>8. x # d
    BY <1>4, <1>7
  <1>9. /\ SumFunctionOnSet(m, u \ {x}) = m[d] + SumFunctionOnSet(m, (u \ {x}) \ {d})
        /\ SumFunctionOnSet(m, u \ {d}) = m[x] + SumFunctionOnSet(m, (u \ {d}) \ {x})
    <2>1. u \ {x} \notin T /\ u \ {d} \notin T
      BY <1>3, <1>6
    <2> QED
      BY <1>5, <1>8, <2>1
  <1>10. (u \ {x}) \ {d} = (u \ {d}) \ {x}
    OBVIOUS
  <1>11. SumFunctionOnSet(m, (u \ {d}) \ {x}) \in Int /\ m[x] \in Int /\ m[d] \in Int
    <2>1. IsFiniteSet((u \ {d}) \ {x}) /\ (u \ {d}) \ {x} \subseteq S
      BY <1>5, FS_Subset
    <2> QED
      BY <1>5, <2>1, SumType
  <1>12. PICK rest \in Int, a \in Int, b \in Int :
           /\ rest = SumFunctionOnSet(m, (u \ {d}) \ {x}) /\ a = m[x] /\ b = m[d]
           /\ SumFunctionOnSet(m, u) = a + (b + rest) /\ SumFunctionOnSet(m, u \ {d}) = a + rest
    BY <1>7, <1>9, <1>10, <1>11
  <1>13. a + (b + rest) = b + (a + rest)
    OBVIOUS
  <1> QED
    BY <1>4, <1>12, <1>13

\* Only the elements that are summed matter.
LEMMA SumAgrees ==
  ASSUME NEW S, IsFiniteSet(S), NEW m, NEW n, \A x \in S : m[x] = n[x]
  PROVE  SumFunctionOnSet(m, S) = SumFunctionOnSet(n, S)
  <1> DEFINE T == {u \in SUBSET S : SumFunctionOnSet(m, u) # SumFunctionOnSet(n, u)}
  <1>1. SUFFICES ASSUME T # {} PROVE FALSE
    OBVIOUS
  <1>2. T \subseteq SUBSET S
    OBVIOUS
  <1>3. PICK u \in T : \A v \in T : v \subseteq u => v = u
    <2> HIDE DEF T
    <2> QED
      BY <1>1, <1>2, Smallest
  <1>4. u \in SUBSET S /\ IsFiniteSet(u) /\ SumFunctionOnSet(m, u) # SumFunctionOnSet(n, u)
    BY FS_Subset
  <1>5. u # {}
    BY <1>4, SumEmpty
  <1>6. PICK x \in u : x = CHOOSE e \in u : TRUE
    BY <1>5, Chosen
  <1>7. /\ SumFunctionOnSet(m, u) = m[x] + SumFunctionOnSet(m, u \ {x})
        /\ SumFunctionOnSet(n, u) = n[x] + SumFunctionOnSet(n, u \ {x})
    BY <1>4, <1>5, <1>6, SumUnfold
  <1>8. SumFunctionOnSet(m, u \ {x}) = SumFunctionOnSet(n, u \ {x})
    BY <1>3, <1>4, <1>6
  <1> QED
    BY <1>4, <1>6, <1>7, <1>8

\* One element joins the sum, and those that were there keep their values.
LEMMA SumAdd ==
  ASSUME NEW S, IsFiniteSet(S), NEW m, NEW n, \A x \in S : m[x] \in Int /\ n[x] = m[x],
         NEW c, c \notin S, n[c] \in Int
  PROVE  SumFunctionOnSet(n, S \cup {c}) = SumFunctionOnSet(m, S) + n[c]
  <1>1. IsFiniteSet(S \cup {c}) /\ (S \cup {c}) \ {c} = S
    BY FS_AddElement
  <1>2. SumFunctionOnSet(n, S \cup {c}) = n[c] + SumFunctionOnSet(n, S)
    BY <1>1, SumRemove
  <1>3. SumFunctionOnSet(n, S) = SumFunctionOnSet(m, S) /\ SumFunctionOnSet(m, S) \in Int
    BY SumAgrees, SumType
  <1> QED
    BY <1>2, <1>3

\* More elements of a set of naturals do not make the sum smaller.
LEMMA SumGrows ==
  ASSUME NEW S, IsFiniteSet(S), NEW m, \A x \in S : m[x] \in Nat, NEW R, R \subseteq S
  PROVE  SumFunctionOnSet(m, R) <= SumFunctionOnSet(m, S)
  <1> DEFINE T == {u \in SUBSET S : \E v \in SUBSET u : ~(SumFunctionOnSet(m, v) <= SumFunctionOnSet(m, u))}
  <1>1. SUFFICES ASSUME T # {} PROVE FALSE
    BY <1>1
  <1>0. T \subseteq SUBSET S
    OBVIOUS
  <1>2. PICK s \in T : \A u \in T : u \subseteq s => u = s
    <2> HIDE DEF T
    <2> QED
      BY <1>0, <1>1, Smallest
  <1>3. PICK v \in SUBSET s : ~(SumFunctionOnSet(m, v) <= SumFunctionOnSet(m, s))
    OBVIOUS
  <1>4. s \subseteq S
    OBVIOUS
  <1> HIDE DEF T
  <1>5. IsFiniteSet(s) /\ IsFiniteSet(v)
    BY <1>4, FS_Subset
  <1>6. SumFunctionOnSet(m, s) \in Nat /\ SumFunctionOnSet(m, v) \in Nat
    BY <1>4, <1>5, SumNat
  <1>7. PICK d \in s : d \notin v
    <2>1. v # s
      BY <1>3, <1>6
    <2> QED
      BY <2>1
  <1>8. SumFunctionOnSet(m, s) = m[d] + SumFunctionOnSet(m, s \ {d})
    BY <1>4, <1>5, SumRemove
  <1>9. s \ {d} \notin T
    BY <1>2, <1>7
  <1>10. SumFunctionOnSet(m, v) <= SumFunctionOnSet(m, s \ {d})
    <2>1. s \ {d} \in SUBSET S /\ v \in SUBSET (s \ {d})
      BY <1>4, <1>7
    <2> QED
      BY <1>9, <2>1 DEF T
  <1>11. SumFunctionOnSet(m, s \ {d}) \in Nat
    <2>1. IsFiniteSet(s \ {d})
      BY <1>5, FS_Subset
    <2> QED
      BY <1>4, <2>1, SumNat
  <1> QED
    BY <1>3, <1>4, <1>6, <1>8, <1>10, <1>11

\* Where every value grows, the sum does.
LEMMA SumMonotone ==
  ASSUME NEW S, IsFiniteSet(S), NEW m, NEW n, \A x \in S : m[x] \in Nat /\ n[x] \in Nat /\ m[x] <= n[x]
  PROVE  SumFunctionOnSet(m, S) <= SumFunctionOnSet(n, S)
<1> DEFINE T == {u \in SUBSET S : ~(SumFunctionOnSet(m, u) <= SumFunctionOnSet(n, u))}
<1>1. SUFFICES ASSUME T # {} PROVE FALSE
  OBVIOUS
<1>2. T \subseteq SUBSET S
  OBVIOUS
<1>3. PICK u \in T : \A v \in T : v \subseteq u => v = u
  <2> HIDE DEF T
  <2> QED BY <1>1, <1>2, Smallest
<1>4. u \subseteq S /\ ~(SumFunctionOnSet(m, u) <= SumFunctionOnSet(n, u)) /\ IsFiniteSet(u)
  BY FS_Subset
<1>5. u # {}
  BY <1>4, SumEmpty
<1>6. PICK x \in u : TRUE
  BY <1>5
<1>7. u \ {x} \notin T /\ u \ {x} \in SUBSET S /\ IsFiniteSet(u \ {x})
  BY <1>3, <1>4, <1>6, FS_Subset
<1>8. SumFunctionOnSet(m, u \ {x}) <= SumFunctionOnSet(n, u \ {x})
  BY <1>7
<1>9. /\ SumFunctionOnSet(m, u) = m[x] + SumFunctionOnSet(m, u \ {x})
      /\ SumFunctionOnSet(n, u) = n[x] + SumFunctionOnSet(n, u \ {x})
  BY <1>4, <1>6, SumRemove
<1>10. /\ SumFunctionOnSet(m, u \ {x}) \in Nat /\ SumFunctionOnSet(n, u \ {x}) \in Nat
       /\ m[x] \in Nat /\ n[x] \in Nat /\ m[x] <= n[x]
  BY <1>4, <1>6, <1>7, SumNat
<1> QED BY <1>4, <1>8, <1>9, <1>10

=============================================================================
