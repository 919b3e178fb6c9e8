---------------------------- MODULE Sums_proofs ----------------------------
(***************************************************************************)
(* Facts about sums over finite sets, for the modules that add up with     *)
(* MapThenSumSet.  The sum is a recursive function on the subsets of the   *)
(* set; that it exists, and that it does not matter in which order         *)
(* elements are taken, is shown for a least counterexample.                *)
(***************************************************************************)
EXTENDS FiniteSetsExt, FiniteSetTheorems, TLAPS

\* The element that is taken first.
Pick(s) == CHOOSE x \in s : TRUE

\* f adds the weights of each subset of S, one picked element at a time.
Adds(f, w, S) == f = [s \in SUBSET S |-> IF s = {} THEN 0 ELSE w[Pick(s)] + f[s \ {Pick(s)}]]
\* The sum of the weights of S.
SumOver(w, S) == (CHOOSE f : Adds(f, w, S))[S]

\* Among sets of subsets of a finite set one has no smaller one.
LEMMA LeastSubset ==
  ASSUME NEW S, IsFiniteSet(S), NEW Bad \in SUBSET (SUBSET S), Bad # {}
  PROVE  \E b \in Bad : \A c \in Bad : c \subseteq b => c = b
<1>1. IsWellFoundedOn(StrictSubsetOrdering(S), SUBSET S)
  BY FS_StrictSubsetOrderingWellFounded, FS_FiniteSubsetsOfFinite
<1>2. PICK b \in Bad : \A c \in Bad : <<c, b>> \notin StrictSubsetOrdering(S)
  BY <1>1, WFMin
<1>3. \A c \in Bad : c \subseteq b /\ c # b => <<c, b>> \in StrictSubsetOrdering(S)
  BY DEF StrictSubsetOrdering
<1>4. \A c \in Bad : c \subseteq b => c = b
  BY <1>2, <1>3
<1> QED
  BY <1>4

\* What is picked is an element.
LEMMA PickIsIn == ASSUME NEW s, s # {} PROVE Pick(s) \in s
BY DEF Pick

\* Two functions that add up agree where both are defined.
LEMMA AddsAgree ==
  ASSUME NEW w, NEW S, IsFiniteSet(S), NEW T \in SUBSET S, NEW f, NEW g, Adds(f, w, S), Adds(g, w, T)
  PROVE  \A s \in SUBSET T : f[s] = g[s]
<1> DEFINE Bad == {s \in SUBSET T : f[s] # g[s]}
<1> SUFFICES ASSUME Bad # {} PROVE FALSE
  OBVIOUS
<1>0. IsFiniteSet(T) /\ Bad \in SUBSET (SUBSET T)
  BY FS_Subset
<1> HIDE DEF Bad
<1>1. PICK b \in Bad : \A c \in Bad : c \subseteq b => c = b
  BY <1>0, LeastSubset
<1> USE DEF Bad
<1>2. f[b] = IF b = {} THEN 0 ELSE w[Pick(b)] + f[b \ {Pick(b)}]
  BY DEF Adds
<1>3. g[b] = IF b = {} THEN 0 ELSE w[Pick(b)] + g[b \ {Pick(b)}]
  BY DEF Adds
<1>4. b # {} => b \ {Pick(b)} # b /\ b \ {Pick(b)} \in SUBSET T
  BY PickIsIn
<1>5. b # {} => f[b \ {Pick(b)}] = g[b \ {Pick(b)}]
  BY <1>1, <1>4
<1> QED
  BY <1>2, <1>3, <1>5

\* There is a function that adds up.
LEMMA AddsExists == ASSUME NEW w, NEW S, IsFiniteSet(S) PROVE \E f : Adds(f, w, S)
<1> DEFINE Bad == {s \in SUBSET S : ~\E f : Adds(f, w, s)}
<1> SUFFICES ASSUME Bad # {} PROVE FALSE
  OBVIOUS
<1>0. Bad \in SUBSET (SUBSET S)
  OBVIOUS
<1> HIDE DEF Bad
<1>1. PICK b \in Bad : \A c \in Bad : c \subseteq b => c = b
  BY <1>0, LeastSubset
<1> USE DEF Bad
<1>2. ASSUME NEW s \in SUBSET b, s # {} PROVE Adds(CHOOSE f : Adds(f, w, s \ {Pick(s)}), w, s \ {Pick(s)})
  <2>1. s \ {Pick(s)} \in SUBSET S /\ s \ {Pick(s)} \subseteq b /\ s \ {Pick(s)} # b
    BY <1>2, PickIsIn
  <2> QED
    BY <1>1, <2>1
<1> DEFINE F == [s \in SUBSET b |-> IF s = {} THEN 0 ELSE w[Pick(s)] + SumOver(w, s \ {Pick(s)})]
<1>3. ASSUME NEW s \in SUBSET b, s # {} PROVE F[s \ {Pick(s)}] = SumOver(w, s \ {Pick(s)})
  <2> DEFINE t == s \ {Pick(s)}
  <2> DEFINE g == CHOOSE f : Adds(f, w, t)
  <2>1. Adds(g, w, t)
    BY <1>2, <1>3
  <2>2. g[t] = IF t = {} THEN 0 ELSE w[Pick(t)] + g[t \ {Pick(t)}]
    BY <2>1 DEF Adds
  <2>3. t # {} => g[t \ {Pick(t)}] = SumOver(w, t \ {Pick(t)})
    <3> SUFFICES ASSUME t # {} PROVE g[t \ {Pick(t)}] = SumOver(w, t \ {Pick(t)})
      OBVIOUS
    <3> DEFINE h == CHOOSE f : Adds(f, w, t \ {Pick(t)})
    <3>1. Adds(h, w, t \ {Pick(t)})
      BY <1>2
    <3>2. IsFiniteSet(t)
      BY FS_Subset
    <3> HIDE DEF g, h, t
    <3>3. g[t \ {Pick(t)}] = h[t \ {Pick(t)}]
      BY <2>1, <3>1, <3>2, AddsAgree
    <3> QED
      BY <3>3 DEF h, SumOver
  <2>4. F[t] = IF t = {} THEN 0 ELSE w[Pick(t)] + SumOver(w, t \ {Pick(t)})
    OBVIOUS
  <2>5. SumOver(w, t) = g[t]
    BY DEF SumOver
  <2> QED
    BY <2>2, <2>3, <2>4, <2>5
<1>4. F = [s \in SUBSET b |-> IF s = {} THEN 0 ELSE w[Pick(s)] + F[s \ {Pick(s)}]]
  <2> DEFINE G == [s \in SUBSET b |-> IF s = {} THEN 0 ELSE w[Pick(s)] + F[s \ {Pick(s)}]]
  <2> SUFFICES \A s \in SUBSET b : F[s] = G[s]
    OBVIOUS
  <2> SUFFICES ASSUME NEW s \in SUBSET b PROVE F[s] = G[s]
    OBVIOUS
  <2>1. F[s] = IF s = {} THEN 0 ELSE w[Pick(s)] + SumOver(w, s \ {Pick(s)})
    OBVIOUS
  <2>2. G[s] = IF s = {} THEN 0 ELSE w[Pick(s)] + F[s \ {Pick(s)}]
    OBVIOUS
  <2> HIDE DEF F, G
  <2> QED
    BY <1>3, <2>1, <2>2
<1> HIDE DEF F
<1>5. Adds(F, w, b)
  BY <1>4 DEF Adds
<1> QED
  BY <1>5

\* The sum of a set is that of the picked element and of the others.
LEMMA SumPicks ==
  ASSUME NEW w, NEW S, IsFiniteSet(S)
  PROVE  SumOver(w, S) = IF S = {} THEN 0 ELSE w[Pick(S)] + SumOver(w, S \ {Pick(S)})
<1> DEFINE f == CHOOSE f : Adds(f, w, S)
<1> DEFINE T == S \ {Pick(S)}
<1> DEFINE g == CHOOSE g : Adds(g, w, T)
<1>1. Adds(f, w, S)
  BY AddsExists
<1>2. IsFiniteSet(T) /\ T \in SUBSET S
  BY FS_Subset
<1>3. Adds(g, w, T)
  BY <1>2, AddsExists
<1> HIDE DEF f, g, T
<1>4. f[T] = g[T]
  BY <1>1, <1>2, <1>3, AddsAgree
<1>5. f[S] = IF S = {} THEN 0 ELSE w[Pick(S)] + f[T]
  BY <1>1 DEF Adds, T
<1>6. SumOver(w, S) = f[S] /\ SumOver(w, T) = g[T]
  BY DEF SumOver, f, g
<1> QED
  BY <1>4, <1>5, <1>6 DEF T

\* Nothing sums up to zero.
LEMMA SumOfNone == ASSUME NEW w PROVE SumOver(w, {}) = 0
BY SumPicks, FS_EmptySet

\* A sum of integers is an integer, and of naturals a natural.
LEMMA SumType ==
  ASSUME NEW w, NEW S, IsFiniteSet(S), NEW N \in {Int, Nat}, \A x \in S : w[x] \in N
  PROVE  SumOver(w, S) \in N
<1> DEFINE Bad == {s \in SUBSET S : SumOver(w, s) \notin N}
<1> SUFFICES ASSUME Bad # {} PROVE FALSE
  OBVIOUS
<1>0. Bad \in SUBSET (SUBSET S)
  OBVIOUS
<1> HIDE DEF Bad
<1>1. PICK b \in Bad : \A c \in Bad : c \subseteq b => c = b
  BY <1>0, LeastSubset
<1> USE DEF Bad
<1>2. IsFiniteSet(b) /\ b # {}
  <2>1. IsFiniteSet(b)
    BY FS_Subset
  <2>2. SumOver(w, b) \notin N /\ 0 \in N
    OBVIOUS
  <2> QED
    BY <2>1, <2>2, SumOfNone
<1>3. Pick(b) \in b
  BY <1>2, PickIsIn
<1>4. SumOver(w, b \ {Pick(b)}) \in N
  BY <1>1, <1>3
<1>5. w[Pick(b)] \in N
  BY <1>3
<1>6. SumOver(w, b) = w[Pick(b)] + SumOver(w, b \ {Pick(b)})
  BY <1>2, SumPicks
<1> QED
  BY <1>4, <1>5, <1>6

\* Any element may be taken first.
LEMMA SumTakes ==
  ASSUME NEW w, NEW S, IsFiniteSet(S), \A x \in S : w[x] \in Int, NEW x \in S
  PROVE  SumOver(w, S) = w[x] + SumOver(w, S \ {x})
<1> DEFINE Bad == {s \in SUBSET S : \E y \in s : SumOver(w, s) # w[y] + SumOver(w, s \ {y})}
<1> SUFFICES ASSUME Bad # {} PROVE FALSE
  OBVIOUS
<1>0. Bad \in SUBSET (SUBSET S)
  OBVIOUS
<1> HIDE DEF Bad
<1>1. PICK b \in Bad : \A c \in Bad : c \subseteq b => c = b
  BY <1>0, LeastSubset
<1> USE DEF Bad
<1>2. PICK y \in b : SumOver(w, b) # w[y] + SumOver(w, b \ {y})
  OBVIOUS
<1>3. IsFiniteSet(b) /\ \A s \in SUBSET b : IsFiniteSet(s) /\ SumOver(w, s) \in Int
  BY FS_Subset, SumType
<1> DEFINE p == Pick(b)
<1>4. p \in b
  BY PickIsIn
<1>5. SumOver(w, b) = w[p] + SumOver(w, b \ {p})
  BY <1>2, <1>3, SumPicks
<1> HIDE DEF p
<1>6. p # y
  BY <1>2, <1>5
<1>7. b \ {p} \notin Bad /\ b \ {y} \notin Bad
  BY <1>1, <1>4
<1>8. SumOver(w, b \ {p}) = w[y] + SumOver(w, (b \ {p}) \ {y})
  BY <1>6, <1>7, <1>1
<1>9. SumOver(w, b \ {y}) = w[p] + SumOver(w, (b \ {y}) \ {p})
  BY <1>4, <1>6, <1>7, <1>1
<1>10. (b \ {p}) \ {y} = (b \ {y}) \ {p}
  OBVIOUS
<1>11. w[p] \in Int /\ w[y] \in Int /\ SumOver(w, (b \ {p}) \ {y}) \in Int
  BY <1>3, <1>4
<1> DEFINE rest == SumOver(w, (b \ {p}) \ {y})
<1>12. SumOver(w, b) = w[p] + (w[y] + rest) /\ SumOver(w, b \ {y}) = w[p] + rest
  BY <1>5, <1>8, <1>9, <1>10
<1>13. w[p] \in Int /\ w[y] \in Int /\ rest \in Int
  BY <1>11
<1> HIDE DEF Bad, rest
<1>14. w[p] + (w[y] + rest) = w[y] + (w[p] + rest)
  BY <1>13
<1> QED
  BY <1>2, <1>12, <1>14

\* One more element adds its weight.
LEMMA SumAdds ==
  ASSUME NEW w, NEW S, IsFiniteSet(S), NEW x, x \notin S, \A y \in S \cup {x} : w[y] \in Int
  PROVE  SumOver(w, S \cup {x}) = SumOver(w, S) + w[x]
<1>1. IsFiniteSet(S \cup {x}) /\ (S \cup {x}) \ {x} = S
  BY FS_AddElement
<1>2. SumOver(w, S \cup {x}) = w[x] + SumOver(w, (S \cup {x}) \ {x})
  BY <1>1, SumTakes
<1>3. SumOver(w, S) \in Int /\ w[x] \in Int
  BY SumType
<1> DEFINE rest == SumOver(w, S)
<1>4. SumOver(w, S \cup {x}) = w[x] + rest
  BY <1>1, <1>2
<1> HIDE DEF rest
<1>5. w[x] + rest = rest + w[x]
  BY <1>3 DEF rest
<1> QED
  BY <1>4, <1>5 DEF rest

\* A part of a set of naturals sums up to no more than the whole.
LEMMA SumOfPart ==
  ASSUME NEW w, NEW S, IsFiniteSet(S), \A x \in S : w[x] \in Nat, NEW T \in SUBSET S
  PROVE  SumOver(w, T) <= SumOver(w, S)
<1> DEFINE Bad == {s \in SUBSET S : ~(SumOver(w, s \cap T) <= SumOver(w, s))}
<1> SUFFICES ASSUME Bad # {} PROVE FALSE
  <2>1. S \cap T = T
    OBVIOUS
  <2> QED
    BY <2>1
<1>0. Bad \in SUBSET (SUBSET S)
  OBVIOUS
<1> HIDE DEF Bad
<1>1. PICK b \in Bad : \A c \in Bad : c \subseteq b => c = b
  BY <1>0, LeastSubset
<1> USE DEF Bad
<1>2. \A s \in SUBSET S : IsFiniteSet(s) /\ SumOver(w, s) \in Nat
  BY FS_Subset, SumType
<1>3. b # {}
  BY <1>2
<1>4. PICK y \in b : TRUE
  BY <1>3
<1> DEFINE r == b \ {y}
<1>5. SumOver(w, r \cap T) <= SumOver(w, r)
  BY <1>1, <1>4
<1>6. SumOver(w, b) = w[y] + SumOver(w, r)
  BY <1>2, SumTakes
<1>7. SumOver(w, b \cap T) = SumOver(w, r \cap T) + IF y \in T THEN w[y] ELSE 0
  <2>1. CASE y \in T
    <3>1. y \in b \cap T /\ (b \cap T) \ {y} = r \cap T /\ IsFiniteSet(b \cap T)
      BY <1>2, <2>1
    <3>2. SumOver(w, b \cap T) = w[y] + SumOver(w, (b \cap T) \ {y})
      BY <3>1, SumTakes
    <3>3. w[y] \in Nat /\ SumOver(w, r \cap T) \in Nat
      BY <1>2
    <3> DEFINE rest == SumOver(w, r \cap T)
    <3>4. SumOver(w, b \cap T) = w[y] + rest /\ w[y] \in Nat /\ rest \in Nat
      BY <3>1, <3>2, <3>3
    <3> HIDE DEF rest, r
    <3>5. w[y] + rest = rest + w[y]
      BY <3>4
    <3> QED
      BY <2>1, <3>4, <3>5 DEF rest
  <2>2. CASE y \notin T
    <3>1. b \cap T = r \cap T /\ SumOver(w, r \cap T) \in Nat
      BY <1>2, <2>2
    <3> QED
      BY <2>2, <3>1
  <2> QED
    BY <2>1, <2>2
<1>8. w[y] \in Nat /\ SumOver(w, r) \in Nat /\ SumOver(w, r \cap T) \in Nat
  BY <1>2
<1>9. ~(SumOver(w, b \cap T) <= SumOver(w, b))
  OBVIOUS
<1> HIDE DEF Bad, r
<1> QED
  BY <1>5, <1>6, <1>7, <1>8, <1>9

\* Weights that agree on a set have the same sum.
LEMMA SumSame ==
  ASSUME NEW w, NEW u, NEW S, IsFiniteSet(S), \A x \in S : w[x] = u[x]
  PROVE  SumOver(w, S) = SumOver(u, S)
<1> DEFINE Bad == {s \in SUBSET S : SumOver(w, s) # SumOver(u, s)}
<1> SUFFICES ASSUME Bad # {} PROVE FALSE
  OBVIOUS
<1>0. Bad \in SUBSET (SUBSET S)
  OBVIOUS
<1> HIDE DEF Bad
<1>1. PICK b \in Bad : \A c \in Bad : c \subseteq b => c = b
  BY <1>0, LeastSubset
<1> USE DEF Bad
<1>2. IsFiniteSet(b)
  BY FS_Subset
<1>3. b # {}
  BY SumOfNone
<1>4. Pick(b) \in b
  BY <1>3, PickIsIn
<1>5. SumOver(w, b \ {Pick(b)}) = SumOver(u, b \ {Pick(b)})
  BY <1>1, <1>4
<1>6. /\ SumOver(w, b) = w[Pick(b)] + SumOver(w, b \ {Pick(b)})
      /\ SumOver(u, b) = u[Pick(b)] + SumOver(u, b \ {Pick(b)})
  BY <1>2, <1>3, SumPicks
<1> QED
  BY <1>4, <1>5, <1>6

\* One weight that changes changes the sum by as much.
LEMMA SumChanges ==
  ASSUME NEW w, NEW u, NEW S, IsFiniteSet(S), NEW x \in S,
         \A y \in S : w[y] \in Int /\ u[y] \in Int,
         \A y \in S : y # x => w[y] = u[y]
  PROVE  SumOver(u, S) = SumOver(w, S) + u[x] - w[x]
<1> DEFINE r == S \ {x}
<1>1. IsFiniteSet(r) /\ \A y \in r : w[y] = u[y] /\ w[y] \in Int
  BY FS_Subset
<1>2. SumOver(w, r) = SumOver(u, r) /\ SumOver(w, r) \in Int
  BY <1>1, SumSame, SumType
<1>3. SumOver(w, S) = w[x] + SumOver(w, r) /\ SumOver(u, S) = u[x] + SumOver(u, r)
  BY SumTakes
<1>4. w[x] \in Int /\ u[x] \in Int
  OBVIOUS
<1> DEFINE rest == SumOver(w, r)
<1>5. SumOver(w, S) = w[x] + rest /\ SumOver(u, S) = u[x] + rest /\ rest \in Int
  BY <1>2, <1>3
<1> HIDE DEF rest, r
<1>6. u[x] + rest = (w[x] + rest) + u[x] - w[x]
  BY <1>4, <1>5
<1> QED
  BY <1>5, <1>6

(***************************************************************************)
(* Sums of records by their amount.                                        *)
(***************************************************************************)
AmountSum(S) == SumOver([e \in S |-> e.amount], S)

\* The sum of the library is AmountSum.
LEMMA AmountsAddUp ==
  ASSUME NEW S, IsFiniteSet(S)
  PROVE  MapThenSumSet(LAMBDA e : e.amount, S) = AmountSum(S)
<1> DEFINE w == [e \in S |-> e.amount]
<1> DEFINE P(f) == f = [s \in SUBSET S |-> IF s = {} THEN 0 ELSE Pick(s).amount + f[s \ {Pick(s)}]]
<1> DEFINE g == CHOOSE f : P(f)
<1>1. MapThenSumSet(LAMBDA e : e.amount, S) = g[S]
  BY DEF MapThenSumSet, MapThenFoldSet, Pick
<1>2. ASSUME NEW f PROVE P(f) <=> Adds(f, w, S)
  <2> DEFINE a == [s \in SUBSET S |-> IF s = {} THEN 0 ELSE Pick(s).amount + f[s \ {Pick(s)}]]
  <2> DEFINE b == [s \in SUBSET S |-> IF s = {} THEN 0 ELSE w[Pick(s)] + f[s \ {Pick(s)}]]
  <2>1. ASSUME NEW s \in SUBSET S PROVE a[s] = b[s]
    <3>1. CASE s = {}
      BY <3>1
    <3>2. CASE s # {}
      <4>1. Pick(s) \in S
        BY <3>2, PickIsIn
      <4>2. w[Pick(s)] = Pick(s).amount
        BY <4>1
      <4> HIDE DEF w
      <4> QED
        BY <4>2
    <3> QED
      BY <3>1, <3>2
  <2>2. a = b
    BY <2>1
  <2> QED
    BY <2>2 DEF Adds
<1> HIDE DEF w, P
<1>3. \E f : P(f)
  BY <1>2, AddsExists
<1>4. P(g)
  BY <1>3
<1> HIDE DEF g
<1>5. Adds(g, w, S)
  BY <1>2, <1>4
<1> DEFINE h == CHOOSE f : Adds(f, w, S)
<1>6. Adds(h, w, S)
  BY AddsExists
<1> HIDE DEF h
<1>7. g[S] = h[S]
  BY <1>5, <1>6, AddsAgree
<1> QED
  BY <1>1, <1>7 DEF AmountSum, SumOver, h, w

\* No records sum up to zero, and each adds its amount.
LEMMA AmountOfNone == AmountSum({}) = 0
BY SumOfNone DEF AmountSum

LEMMA AmountType ==
  ASSUME NEW S, IsFiniteSet(S), \A e \in S : e.amount \in Int
  PROVE  AmountSum(S) \in Int
BY SumType DEF AmountSum

LEMMA AmountAdds ==
  ASSUME NEW S, IsFiniteSet(S), \A e \in S : e.amount \in Int, NEW x, x \notin S, x.amount \in Int
  PROVE  AmountSum(S \cup {x}) = AmountSum(S) + x.amount
<1> DEFINE w == [e \in S |-> e.amount]
<1> DEFINE u == [e \in S \cup {x} |-> e.amount]
<1>1. \A e \in S : w[e] = u[e]
  OBVIOUS
<1>2. u[x] = x.amount /\ \A e \in S \cup {x} : u[e] \in Int
  OBVIOUS
<1> HIDE DEF w, u
<1>3. SumOver(u, S \cup {x}) = SumOver(u, S) + u[x]
  BY <1>2, SumAdds
<1>4. SumOver(w, S) = SumOver(u, S)
  BY <1>1, SumSame
<1> QED
  BY <1>2, <1>3, <1>4 DEF AmountSum, w, u

LEMMA AmountTakes ==
  ASSUME NEW S, IsFiniteSet(S), \A e \in S : e.amount \in Int, NEW x \in S
  PROVE  AmountSum(S \ {x}) = AmountSum(S) - x.amount
<1>1. IsFiniteSet(S \ {x}) /\ x \notin S \ {x} /\ (S \ {x}) \cup {x} = S
  BY FS_Subset
<1>2. AmountSum(S) = AmountSum(S \ {x}) + x.amount
  BY <1>1, AmountAdds
<1>3. AmountSum(S \ {x}) \in Int /\ x.amount \in Int
  BY <1>1, AmountType
<1> QED
  BY <1>2, <1>3

\* Weights of zero sum up to zero.
LEMMA SumOfZeros ==
  ASSUME NEW w, NEW S, IsFiniteSet(S), \A x \in S : w[x] = 0
  PROVE  SumOver(w, S) = 0
<1> DEFINE Bad == {s \in SUBSET S : SumOver(w, s) # 0}
<1> SUFFICES ASSUME Bad # {} PROVE FALSE
  BY DEF Bad
<1>1. PICK b \in Bad : \A c \in Bad : c \subseteq b => c = b
  <2>1. Bad \in SUBSET (SUBSET S)
    OBVIOUS
  <2> HIDE DEF Bad
  <2> QED
    BY <2>1, LeastSubset
<1>2. IsFiniteSet(b) /\ b \subseteq S
  BY FS_Subset
<1>3. b # {}
  BY SumOfNone
<1>4. Pick(b) \in b
  BY <1>3, PickIsIn
<1>5. b \ {Pick(b)} \subseteq b /\ b \ {Pick(b)} # b
  BY <1>4
<1>6. SumOver(w, b \ {Pick(b)}) = 0
  BY <1>1, <1>2, <1>5
<1>7. SumOver(w, b) = w[Pick(b)] + SumOver(w, b \ {Pick(b)})
  BY <1>2, <1>3, SumPicks
<1> QED
  BY <1>1, <1>2, <1>4, <1>6, <1>7

\* Weights of zero can be left out.
LEMMA SumLeavesZeros ==
  ASSUME NEW w, NEW S, IsFiniteSet(S), NEW T \in SUBSET S, \A x \in S : w[x] \in Int,
         \A x \in S \ T : w[x] = 0
  PROVE  SumOver(w, S) = SumOver(w, T)
<1> DEFINE Bad == {s \in SUBSET (S \ T) : SumOver(w, T \cup s) # SumOver(w, T)}
<1>1. Bad = {}
  <2> SUFFICES ASSUME Bad # {} PROVE FALSE
    OBVIOUS
  <2>1. PICK b \in Bad : \A c \in Bad : c \subseteq b => c = b
    <3>1. Bad \in SUBSET (SUBSET (S \ T)) /\ IsFiniteSet(S \ T)
      BY FS_Subset
    <3> HIDE DEF Bad
    <3> QED
      BY <3>1, LeastSubset
  <2>2. PICK x : x \in b
    <3>1. b # {}
      BY DEF Bad
    <3> QED
      BY <3>1
  <2>3. b \ {x} \in SUBSET (S \ T) /\ b \ {x} # b /\ b \ {x} \subseteq b
    BY <2>2
  <2> DEFINE U == T \cup (b \ {x})
  <2>4. SumOver(w, U) = SumOver(w, T)
    BY <2>1, <2>3
  <2>5. IsFiniteSet(U) /\ x \notin U /\ U \cup {x} = T \cup b /\ U \subseteq S /\ x \in S /\ w[x] = 0
    BY <2>2, FS_Subset
  <2> HIDE DEF U
  <2>6. SumOver(w, U \cup {x}) = SumOver(w, U) + w[x]
    BY <2>5, SumAdds
  <2>7. SumOver(w, U) \in Int
    BY <2>5, SumType
  <2>8. SumOver(w, T \cup b) = SumOver(w, T)
    <3>1. SumOver(w, T \cup b) = SumOver(w, U) + w[x]
      BY <2>5, <2>6, Zenon
    <3> HIDE DEF Bad
    <3> QED
      BY <2>4, <2>5, <2>7, <3>1
  <2> QED
    BY <2>1, <2>8
<1>2. SumOver(w, T \cup (S \ T)) = SumOver(w, T)
  BY <1>1
<1>3. T \cup (S \ T) = S
  OBVIOUS
<1> QED
  BY <1>2, <1>3

\* Sums of the same elements add up.
LEMMA SumPlus ==
  ASSUME NEW u, NEW v, NEW w, NEW S, IsFiniteSet(S),
         \A x \in S : v[x] \in Int /\ w[x] \in Int /\ u[x] = v[x] + w[x]
  PROVE  SumOver(u, S) = SumOver(v, S) + SumOver(w, S)
<1> DEFINE Bad == {s \in SUBSET S : SumOver(u, s) # SumOver(v, s) + SumOver(w, s)}
<1> SUFFICES ASSUME Bad # {} PROVE FALSE
  BY DEF Bad
<1>1. PICK b \in Bad : \A c \in Bad : c \subseteq b => c = b
  <2>1. Bad \in SUBSET (SUBSET S)
    OBVIOUS
  <2> HIDE DEF Bad
  <2> QED
    BY <2>1, LeastSubset
<1>2. IsFiniteSet(b) /\ b \subseteq S
  BY FS_Subset
<1>3. b # {}
  <2> SUFFICES ASSUME b = {} PROVE FALSE
    OBVIOUS
  <2>1. SumOver(u, b) = 0 /\ SumOver(v, b) = 0 /\ SumOver(w, b) = 0
    BY SumOfNone, Zenon
  <2>2. SumOver(u, b) # SumOver(v, b) + SumOver(w, b)
    BY <1>1
  <2> HIDE DEF Bad
  <2> QED
    BY <2>1, <2>2
<1> DEFINE x == Pick(b)
<1> DEFINE r == b \ {x}
<1>4. x \in b /\ r \subseteq b /\ r # b /\ x \in S
  BY <1>2, <1>3, PickIsIn
<1>5. SumOver(u, r) = SumOver(v, r) + SumOver(w, r)
  BY <1>1, <1>2, <1>4
<1>6. /\ SumOver(u, b) = u[x] + SumOver(u, r)
      /\ SumOver(v, b) = v[x] + SumOver(v, r)
      /\ SumOver(w, b) = w[x] + SumOver(w, r)
  BY <1>2, <1>3, SumPicks
<1>7. IsFiniteSet(r) /\ \A y \in r : v[y] \in Int /\ w[y] \in Int
  BY <1>2, <1>4, FS_Subset
<1>8. SumOver(v, r) \in Int /\ SumOver(w, r) \in Int
  BY <1>7, SumType
<1>9. v[x] \in Int /\ w[x] \in Int /\ u[x] = v[x] + w[x]
  BY <1>4
<1>10. SumOver(u, b) # SumOver(v, b) + SumOver(w, b)
  BY <1>1
<1> HIDE DEF Bad, x, r
<1> QED
  BY <1>5, <1>6, <1>8, <1>9, <1>10

\* Elements are counted by weights of one.
LEMMA CountIsSum ==
  ASSUME NEW w, NEW S, IsFiniteSet(S), NEW T \in SUBSET S, \A x \in S : w[x] = IF x \in T THEN 1 ELSE 0
  PROVE  SumOver(w, S) = Cardinality(T)
<1> DEFINE Bad == {s \in SUBSET S : SumOver(w, s) # Cardinality(s \cap T)}
<1>1. Bad = {}
  <2> SUFFICES ASSUME Bad # {} PROVE FALSE
    OBVIOUS
  <2>1. PICK b \in Bad : \A c \in Bad : c \subseteq b => c = b
    <3>1. Bad \in SUBSET (SUBSET S)
      OBVIOUS
    <3> HIDE DEF Bad
    <3> QED
      BY <3>1, LeastSubset
  <2>2. IsFiniteSet(b) /\ b \subseteq S
    BY FS_Subset
  <2>3. b # {}
    BY <2>1, SumOfNone, FS_EmptySet
  <2> DEFINE x == Pick(b)
  <2> DEFINE r == b \ {x}
  <2>4. x \in b /\ r \subseteq b /\ r # b /\ x \in S
    BY <2>2, <2>3, PickIsIn
  <2>5. SumOver(w, r) = Cardinality(r \cap T)
    BY <2>1, <2>2, <2>4
  <2>6. SumOver(w, b) = w[x] + SumOver(w, r)
    BY <2>2, <2>3, SumPicks
  <2>7. IsFiniteSet(r \cap T) /\ x \notin r \cap T /\ Cardinality(r \cap T) \in Nat
    BY <2>2, FS_Subset, FS_CardinalityType
  <2>8. b \cap T = IF x \in T THEN (r \cap T) \cup {x} ELSE r \cap T
    BY <2>4
  <2>9. w[x] = IF x \in T THEN 1 ELSE 0
    BY <2>4
  <2>10. SumOver(w, b) # Cardinality(b \cap T)
    BY <2>1
  <2> HIDE DEF Bad, x, r
  <2>11. CASE x \in T
    <3>1. Cardinality((r \cap T) \cup {x}) = Cardinality(r \cap T) + 1
      BY <2>7, FS_AddElement
    <3>2. Cardinality(b \cap T) = Cardinality(r \cap T) + 1
      BY <2>8, <2>11, <3>1, Zenon
    <3> QED
      BY <2>5, <2>6, <2>7, <2>9, <2>10, <2>11, <3>2
  <2>12. CASE x \notin T
    <3>1. Cardinality(b \cap T) = Cardinality(r \cap T)
      BY <2>8, <2>12, Zenon
    <3> QED
      BY <2>5, <2>6, <2>7, <2>9, <2>10, <2>12, <3>1
  <2> QED
    BY <2>11, <2>12
<1>2. SumOver(w, S) = Cardinality(S \cap T)
  BY <1>1
<1>3. S \cap T = T
  OBVIOUS
<1> QED
  BY <1>2, <1>3

\* Of two sets with nothing in common the amounts add up.
LEMMA AmountJoins ==
  ASSUME NEW S, NEW T, IsFiniteSet(S), IsFiniteSet(T), S \cap T = {},
         \A e \in S \cup T : e.amount \in Int
  PROVE  AmountSum(S \cup T) = AmountSum(S) + AmountSum(T)
<1> DEFINE Bad == {s \in SUBSET T : AmountSum(S \cup s) # AmountSum(S) + AmountSum(s)}
<1> SUFFICES ASSUME Bad # {} PROVE FALSE
  BY DEF Bad
<1>1. PICK b \in Bad : \A c \in Bad : c \subseteq b => c = b
  <2>1. Bad \in SUBSET (SUBSET T)
    OBVIOUS
  <2> HIDE DEF Bad
  <2> QED
    BY <2>1, LeastSubset
<1>2. IsFiniteSet(b) /\ b \subseteq T
  BY FS_Subset
<1>3. AmountSum(S) \in Int
  BY AmountType
<1>4. b # {}
  <2> SUFFICES ASSUME b = {} PROVE FALSE
    OBVIOUS
  <2>1. AmountSum(S \cup b) # AmountSum(S) + AmountSum(b)
    BY <1>1
  <2>2. S \cup b = S
    OBVIOUS
  <2>3. AmountSum(S \cup b) = AmountSum(S)
    BY <2>2, Zenon
  <2>4. AmountSum(b) = 0
    BY AmountOfNone, Zenon
  <2> HIDE DEF Bad
  <2> QED
    BY <1>3, <2>1, <2>3, <2>4
<1>5. PICK x : x \in b
  BY <1>4
<1> DEFINE r == b \ {x}
<1>6. r \in SUBSET T /\ r \subseteq b /\ r # b /\ r \cup {x} = b /\ x \notin r /\ (S \cup r) \cup {x} = S \cup b
      /\ x \notin S \cup r
  BY <1>2, <1>5
<1>7. AmountSum(S \cup r) = AmountSum(S) + AmountSum(r)
  BY <1>1, <1>6
<1>8. IsFiniteSet(r) /\ IsFiniteSet(S \cup r)
  BY <1>2, FS_Subset, FS_Union
<1>9. /\ \A e \in r : e.amount \in Int
      /\ \A e \in S \cup r : e.amount \in Int
      /\ x.amount \in Int
  BY <1>2, <1>5
<1>10. AmountSum(S \cup b) # AmountSum(S) + AmountSum(b)
  BY <1>1
<1> HIDE DEF Bad, r
<1>11. AmountSum(r \cup {x}) = AmountSum(r) + x.amount
  BY <1>6, <1>8, <1>9, AmountAdds
<1>12. AmountSum((S \cup r) \cup {x}) = AmountSum(S \cup r) + x.amount
  BY <1>6, <1>8, <1>9, AmountAdds
<1>13. AmountSum(r) \in Int
  BY <1>8, <1>9, AmountType
<1>14. AmountSum(b) = AmountSum(r) + x.amount /\ AmountSum(S \cup b) = AmountSum(S \cup r) + x.amount
  BY <1>6, <1>11, <1>12, Zenon
<1> QED
  BY <1>3, <1>7, <1>9, <1>10, <1>13, <1>14

=============================================================================
