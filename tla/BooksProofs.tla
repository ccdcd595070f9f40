------------------------------ MODULE BooksProofs ------------------------------
(***************************************************************************)
(* Facts about the arithmetic of Books that the theorems about the ledger  *)
(* and about documents share: that SumFunction adds up the values of a     *)
(* function in whatever order it picks them, what follows for sums of      *)
(* parts, and what storing and mirroring do to lines and their totals.     *)
(***************************************************************************)
EXTENDS Books, FiniteSets, FiniteSetTheorems, TLAPS

(* Induction, as a fact about sets *)

\* A set of naturals with zero and every successor has them all.
LEMMA AllNaturals ==
  ASSUME NEW P \in SUBSET Nat, 0 \in P, \A n \in P : n + 1 \in P
  PROVE  P = Nat
<1>1. IsWellFoundedOn(OpToRel(<, Nat), Nat)
  BY NatLessThanWellFounded
<1>2. SUFFICES ASSUME Nat \ P # {} PROVE FALSE
  OBVIOUS
<1>3. PICK m \in Nat \ P : \A k \in Nat \ P : ~(<<k, m>> \in OpToRel(<, Nat))
  BY <1>1, <1>2, WFMin
<1>4. m # 0 /\ m - 1 \in Nat /\ m - 1 < m
  OBVIOUS
<1>5. <<m - 1, m>> \in OpToRel(<, Nat)
  BY <1>4 DEF OpToRel
<1>6. m - 1 \in P
  BY <1>3, <1>4, <1>5
<1>7. (m - 1) + 1 = m
  OBVIOUS
<1>8. QED
  BY <1>6, <1>7

\* A set of sets with the empty one, closed under adding an element, has every
\* finite set.
LEMMA AllFiniteSets ==
  ASSUME NEW S, IsFiniteSet(S), NEW P \in SUBSET SUBSET S, {} \in P,
         \A T \in P : \A x \in S \ T : T \cup {x} \in P
  PROVE  S \in P
<1>1. IsWellFoundedOn(StrictSubsetOrdering(S), FiniteSubsetsOf(S))
  BY FS_StrictSubsetOrderingWellFounded
<1> DEFINE Bad == {T \in SUBSET S : T \notin P}
<1>2. Bad \subseteq FiniteSubsetsOf(S)
  BY FS_FiniteSubsetsOfFinite
<1>3. SUFFICES ASSUME Bad # {} PROVE FALSE
  OBVIOUS
<1>4. PICK T \in Bad : \A U \in Bad : ~(<<U, T>> \in StrictSubsetOrdering(S))
  BY <1>1, <1>2, <1>3, WFMin
<1>5. PICK x : x \in T
  BY <1>4
<1>6. <<T \ {x}, T>> \in StrictSubsetOrdering(S)
  BY <1>5 DEF StrictSubsetOrdering
<1>7. T \ {x} \in P
  BY <1>4, <1>6
<1>8. (T \ {x}) \cup {x} = T /\ x \in S \ (T \ {x})
  BY <1>5
<1>9. QED
  BY <1>4, <1>7, <1>8

-----------------------------------------------------------------------------
(* SumFunction *)

\* The element SumFunction takes next from a set.
Picked(s) == CHOOSE x \in s : TRUE

\* g sums f over every subset of D.
Sums(f, D, g) ==
  g = [s \in SUBSET D |-> IF s = {} THEN 0 ELSE f[Picked(s)] + g[s \ {Picked(s)}]]

LEMMA SumUnfold ==
  ASSUME NEW f
  PROVE  SumFunction(f) = (CHOOSE g : Sums(f, DOMAIN f, g))[DOMAIN f]
BY DEF SumFunction, SumFunctionOnSet, FoldFunctionOnSet, MapThenFoldSet, Sums, Picked

LEMMA PickedIn == ASSUME NEW s, s # {} PROVE Picked(s) \in s
BY DEF Picked

\* Taking away what is picked makes a finite set smaller.
LEMMA Smaller ==
  ASSUME NEW s, IsFiniteSet(s), s # {}
  PROVE  /\ IsFiniteSet(s \ {Picked(s)})
         /\ Cardinality(s) \in Nat /\ Cardinality(s) > 0
         /\ Cardinality(s \ {Picked(s)}) = Cardinality(s) - 1
BY PickedIn, FS_RemoveElement, FS_CardinalityType, FS_EmptySet

\* Such a function exists: one for sets of n elements extends to n + 1.
LEMMA SumsExist ==
  ASSUME NEW D, IsFiniteSet(D), NEW f \in [D -> Int]
  PROVE  \E g : Sums(f, D, g) /\ g \in [SUBSET D -> Int]
<1> DEFINE next(g, s) == IF s = {} THEN 0 ELSE f[Picked(s)] + g[s \ {Picked(s)}]
           UpTo(n, g) == /\ g \in [SUBSET D -> Int]
                         /\ \A s \in SUBSET D : Cardinality(s) <= n => g[s] = next(g, s)
           P == {n \in Nat : \E g : UpTo(n, g)}
<1>f. \A s \in SUBSET D : IsFiniteSet(s) /\ Cardinality(s) \in Nat
  BY FS_Subset, FS_CardinalityType
<1>t. ASSUME NEW g \in [SUBSET D -> Int], NEW s \in SUBSET D PROVE next(g, s) \in Int
  <2>1. CASE s = {}
    BY <2>1
  <2>2. CASE s # {}
    <3>1. Picked(s) \in D /\ s \ {Picked(s)} \in SUBSET D
      BY <2>2, PickedIn
    <3>2. f[Picked(s)] \in Int /\ g[s \ {Picked(s)}] \in Int
      BY <3>1
    <3>3. QED
      BY <2>2, <3>2
  <2>3. QED
    BY <2>1, <2>2
<1>1. 0 \in P
  <2> DEFINE g == [s \in SUBSET D |-> 0]
  <2>1. \A s \in SUBSET D : Cardinality(s) <= 0 => s = {}
    BY <1>f, FS_EmptySet
  <2>2. UpTo(0, g)
    BY <2>1
  <2>3. QED
    BY <2>2
<1>2. ASSUME NEW n \in P PROVE n + 1 \in P
  <2>1. PICK g : UpTo(n, g)
    OBVIOUS
  <2> DEFINE h == [s \in SUBSET D |-> IF Cardinality(s) <= n THEN g[s] ELSE next(g, s)]
  <2>2. h \in [SUBSET D -> Int]
    <3>1. \A s \in SUBSET D : g[s] \in Int /\ next(g, s) \in Int
      BY <1>t, <2>1
    <3>. HIDE DEF next
    <3>2. QED
      BY <3>1
  <2>3. ASSUME NEW s \in SUBSET D, Cardinality(s) <= n + 1 PROVE h[s] = next(h, s)
    <3>1. h[s] = next(g, s)
      BY <2>1
    <3>2. CASE s = {}
      BY <3>1, <3>2
    <3>3. CASE s # {}
      <4>1. /\ s \ {Picked(s)} \in SUBSET D
            /\ Cardinality(s \ {Picked(s)}) <= n
        BY <1>f, <2>3, <3>3, Smaller
      <4>2. h[s \ {Picked(s)}] = g[s \ {Picked(s)}]
        BY <4>1
      <4>. HIDE DEF h
      <4>3. QED
        BY <3>1, <3>3, <4>2
    <3>4. QED
      BY <3>2, <3>3
  <2>. HIDE DEF h, next
  <2>4. UpTo(n + 1, h)
    BY <2>2, <2>3
  <2>5. QED
    BY <2>4
<1>3. Cardinality(D) \in P
  <2>1. P = Nat
    <3>. HIDE DEF UpTo
    <3>1. P \in SUBSET Nat
      OBVIOUS
    <3>. HIDE DEF P
    <3>2. QED
      BY <1>1, <1>2, <3>1, AllNaturals
  <2>2. QED
    BY <1>f, <2>1
<1>4. PICK g : UpTo(Cardinality(D), g)
  BY <1>3
<1>5. \A s \in SUBSET D : Cardinality(s) <= Cardinality(D)
  BY FS_Subset
<1>6. g = [s \in SUBSET D |-> next(g, s)]
  <2>1. \A s \in SUBSET D : g[s] = next(g, s)
    BY <1>4, <1>5
  <2>2. g = [s \in SUBSET D |-> g[s]]
    BY <1>4
  <2>. HIDE DEF next
  <2>3. QED
    BY <2>1, <2>2
<1>7. QED
  BY <1>4, <1>6 DEF Sums

\* Two of them agree on the subsets they share.
LEMMA SumsAgree ==
  ASSUME NEW D, IsFiniteSet(D), NEW f, NEW g, Sums(f, D, g),
         NEW E \in SUBSET D, NEW e, NEW h, Sums(e, E, h),
         \A x \in E : e[x] = f[x]
  PROVE  \A s \in SUBSET E : h[s] = g[s]
<1> DEFINE P == {s \in SUBSET E : h[s] = g[s]}
           Bad == {s \in SUBSET E : h[s] # g[s]}
<1>1. IsWellFoundedOn(StrictSubsetOrdering(E), FiniteSubsetsOf(E)) /\ IsFiniteSet(E)
  BY FS_StrictSubsetOrderingWellFounded, FS_Subset
<1>2. Bad \subseteq FiniteSubsetsOf(E)
  BY <1>1, FS_FiniteSubsetsOfFinite
<1>3. SUFFICES ASSUME Bad # {} PROVE FALSE
  OBVIOUS
<1>4. PICK s \in Bad : \A u \in Bad : ~(<<u, s>> \in StrictSubsetOrdering(E))
  BY <1>1, <1>2, <1>3, WFMin
<1>5. \A u \in SUBSET E : /\ h[u] = IF u = {} THEN 0 ELSE e[Picked(u)] + h[u \ {Picked(u)}]
                          /\ g[u] = IF u = {} THEN 0 ELSE f[Picked(u)] + g[u \ {Picked(u)}]
  BY DEF Sums
<1>6. s # {} /\ Picked(s) \in s
  BY <1>4, <1>5, PickedIn
<1>7. <<s \ {Picked(s)}, s>> \in StrictSubsetOrdering(E)
  BY <1>6 DEF StrictSubsetOrdering
<1>8. h[s \ {Picked(s)}] = g[s \ {Picked(s)}]
  BY <1>4, <1>7
<1>9. e[Picked(s)] = f[Picked(s)]
  BY <1>6
<1>10. QED
  BY <1>4, <1>5, <1>6, <1>8, <1>9

IntSums(f, D, g) == Sums(f, D, g) /\ g \in [SUBSET D -> Int]

\* The order makes no difference: any element may be taken first.
LEMMA SumsAnyOrder ==
  ASSUME NEW D, IsFiniteSet(D), NEW f \in [D -> Int],
         NEW g, IntSums(f, D, g)
  PROVE  \A s \in SUBSET D : \A x \in s : g[s] = f[x] + g[s \ {x}]
<1>0. Sums(f, D, g) /\ g \in [SUBSET D -> Int]
  BY DEF IntSums
<1> DEFINE Bad == {s \in SUBSET D : \E x \in s : g[s] # f[x] + g[s \ {x}]}
<1>1. IsWellFoundedOn(StrictSubsetOrdering(D), FiniteSubsetsOf(D))
  BY FS_StrictSubsetOrderingWellFounded
<1>2. Bad \subseteq FiniteSubsetsOf(D)
  BY FS_FiniteSubsetsOfFinite
<1>3. SUFFICES ASSUME Bad # {} PROVE FALSE
  OBVIOUS
<1>w. \E s \in Bad : \A u \in Bad : ~(<<u, s>> \in StrictSubsetOrdering(D))
  <2>. HIDE DEF Bad
  <2>1. QED
    BY <1>1, <1>2, <1>3, WFMin
<1>4. PICK s \in Bad : \A u \in Bad : ~(<<u, s>> \in StrictSubsetOrdering(D))
  BY <1>w
<1>5. PICK x \in s : g[s] # f[x] + g[s \ {x}]
  BY <1>4
<1>6. \A u \in SUBSET D : u # {} => g[u] = f[Picked(u)] + g[u \ {Picked(u)}]
  BY <1>0 DEF Sums
<1> DEFINE p == Picked(s)
<1>7. p \in s /\ p # x /\ g[s] = f[p] + g[s \ {p}]
  BY <1>4, <1>5, <1>6, PickedIn
<1>8. \A y \in s : <<s \ {y}, s>> \in StrictSubsetOrdering(D)
  BY <1>4 DEF StrictSubsetOrdering
<1>9. g[s \ {p}] = f[x] + g[(s \ {p}) \ {x}]
  BY <1>4, <1>5, <1>7, <1>8
<1>10. g[s \ {x}] = f[p] + g[(s \ {x}) \ {p}]
  BY <1>4, <1>5, <1>7, <1>8
<1>11. (s \ {x}) \ {p} = (s \ {p}) \ {x}
  OBVIOUS
<1> DEFINE rest == g[(s \ {p}) \ {x}]
<1>12. f[x] \in Int /\ f[p] \in Int /\ rest \in Int
  BY <1>0, <1>5, <1>7
<1>13. g[s] = f[p] + (f[x] + rest)
  BY <1>7, <1>9
<1>14. g[s \ {x}] = f[p] + rest
  BY <1>10, <1>11
<1>15. g[s] = f[x] + g[s \ {x}]
  <2>. HIDE DEF rest, p
  <2>1. f[p] + (f[x] + rest) = f[x] + (f[p] + rest)
    BY <1>12
  <2>2. QED
    BY <1>13, <1>14, <2>1
<1>16. QED
  BY <1>5, <1>15

\* A function on some of its arguments.
Part(f, E) == [x \in E |-> f[x]]

\* What SumFunction computes: nothing for no arguments, and otherwise the value
\* at any one argument and the sum over the others.
LEMMA SumParts ==
  ASSUME NEW D, IsFiniteSet(D), NEW f \in [D -> Int]
  PROVE  /\ SumFunction(Part(f, {})) = 0
         /\ \A E \in SUBSET D : SumFunction(Part(f, E)) \in Int
         /\ \A E \in SUBSET D : \A x \in E :
              SumFunction(Part(f, E)) = f[x] + SumFunction(Part(f, E \ {x}))
<1>1. PICK g : IntSums(f, D, g)
  BY SumsExist DEF IntSums
<1>i. Sums(f, D, g) /\ g \in [SUBSET D -> Int]
  BY <1>1 DEF IntSums
<1>2. ASSUME NEW E \in SUBSET D PROVE SumFunction(Part(f, E)) = g[E]
  <2> DEFINE h == CHOOSE h : Sums(Part(f, E), E, h)
  <2>1. IsFiniteSet(E) /\ Part(f, E) \in [E -> Int] /\ DOMAIN Part(f, E) = E
        /\ \A x \in E : Part(f, E)[x] = f[x]
    BY FS_Subset DEF Part
  <2>2. \E a : Sums(Part(f, E), E, a)
    BY <2>1, SumsExist
  <2>3. Sums(Part(f, E), E, h)
    BY <2>2
  <2>4. SumFunction(Part(f, E)) = h[E]
    BY <2>1, SumUnfold
  <2>. HIDE DEF h
  <2>5. QED
    BY <1>i, <2>1, <2>3, <2>4, SumsAgree
<1>3. g[{}] = 0
  BY <1>i DEF Sums
<1>4. SumFunction(Part(f, {})) = 0
  BY <1>2, <1>3
<1>5. \A E \in SUBSET D : SumFunction(Part(f, E)) \in Int
  BY <1>i, <1>2
<1>6. ASSUME NEW E \in SUBSET D, NEW x \in E
      PROVE  SumFunction(Part(f, E)) = f[x] + SumFunction(Part(f, E \ {x}))
  <2>1. E \ {x} \in SUBSET D
    OBVIOUS
  <2>2. g[E] = f[x] + g[E \ {x}]
    BY <1>1, SumsAnyOrder
  <2>3. QED
    BY <1>2, <2>1, <2>2
<1>7. QED
  BY <1>4, <1>5, <1>6

LEMMA SumWithOneMore ==
  ASSUME NEW D, IsFiniteSet(D), NEW f \in [D -> Int], NEW T \in SUBSET D, NEW x \in D \ T
  PROVE  SumFunction(Part(f, T \cup {x})) = f[x] + SumFunction(Part(f, T))
<1>1. T \cup {x} \in SUBSET D /\ x \in T \cup {x} /\ (T \cup {x}) \ {x} = T
  OBVIOUS
<1>2. QED
  BY <1>1, SumParts

LEMMA PartAll == ASSUME NEW D, NEW f, f = [x \in D |-> f[x]] PROVE Part(f, D) = f
BY DEF Part

\* The sum of two parts that have nothing in common.
LEMMA SumAdd ==
  ASSUME NEW D, IsFiniteSet(D), NEW f \in [D -> Int],
         NEW A \in SUBSET D, NEW B \in SUBSET D, A \cap B = {}
  PROVE  SumFunction(Part(f, A \cup B)) = SumFunction(Part(f, A)) + SumFunction(Part(f, B))
<1> DEFINE P == {T \in SUBSET A : SumFunction(Part(f, T \cup B))
                                  = SumFunction(Part(f, T)) + SumFunction(Part(f, B))}
<1>1. {} \in P
  <2>1. {} \cup B = B
    OBVIOUS
  <2>2. SumFunction(Part(f, {})) = 0 /\ SumFunction(Part(f, B)) \in Int
    BY SumParts
  <2>3. QED
    BY <2>1, <2>2
<1>2. ASSUME NEW T \in P, NEW x \in A \ T PROVE T \cup {x} \in P
  <2>1. (T \cup {x}) \cup B \in SUBSET D /\ T \cup {x} \in SUBSET D
    OBVIOUS
  <2>2. ((T \cup {x}) \cup B) \ {x} = T \cup B /\ (T \cup {x}) \ {x} = T
    OBVIOUS
  <2>3. /\ SumFunction(Part(f, (T \cup {x}) \cup B)) = f[x] + SumFunction(Part(f, T \cup B))
        /\ SumFunction(Part(f, T \cup {x})) = f[x] + SumFunction(Part(f, T))
    BY <2>1, <2>2, SumParts
  <2>4. /\ f[x] \in Int /\ SumFunction(Part(f, T)) \in Int
        /\ SumFunction(Part(f, B)) \in Int
    BY <2>1, SumParts
  <2>5. QED
    BY <2>3, <2>4
<1>3. IsFiniteSet(A) /\ P \in SUBSET SUBSET A
  BY FS_Subset
<1>4. A \in P
  <2>. HIDE DEF P
  <2>1. QED
    BY <1>1, <1>2, <1>3, AllFiniteSets
<1>5. QED
  BY <1>4

\* A sum of sums: the values added up by a key they have.
LEMMA SumByKey ==
  ASSUME NEW D, IsFiniteSet(D), NEW f \in [D -> Int],
         NEW K, IsFiniteSet(K), NEW key \in [D -> K]
  PROVE  SumFunction(f)
         = SumFunction([k \in K |-> SumFunction(Part(f, {x \in D : key[x] = k}))])
<1> DEFINE with(T) == {x \in D : key[x] \in T}
           sum == [k \in K |-> SumFunction(Part(f, {x \in D : key[x] = k}))]
           P == {T \in SUBSET K : SumFunction(Part(f, with(T))) = SumFunction(Part(sum, T))}
<1>0. sum \in [K -> Int]
  <2>1. \A k \in K : SumFunction(Part(f, {x \in D : key[x] = k})) \in Int
    BY SumParts
  <2>2. QED
    BY <2>1
<1>1. {} \in P
  <2>1. with({}) = {}
    OBVIOUS
  <2>2. SumFunction(Part(f, {})) = 0
    BY SumParts
  <2>3. SumFunction(Part(sum, {})) = 0
    <3>. HIDE DEF sum
    <3>1. QED
      BY <1>0, SumParts
  <2>4. QED
    BY <2>1, <2>2, <2>3
<1>2. ASSUME NEW T \in P, NEW k \in K \ T PROVE T \cup {k} \in P
  <2>1. with(T \cup {k}) = with(T) \cup {x \in D : key[x] = k}
    OBVIOUS
  <2>2. with(T) \cap {x \in D : key[x] = k} = {}
    OBVIOUS
  <2>3. SumFunction(Part(f, with(T \cup {k})))
        = SumFunction(Part(f, with(T))) + SumFunction(Part(f, {x \in D : key[x] = k}))
    <3> DEFINE mine == {x \in D : key[x] = k}
    <3>1. with(T) \in SUBSET D /\ mine \in SUBSET D
      OBVIOUS
    <3>2. with(T) \cap mine = {} /\ with(T \cup {k}) = with(T) \cup mine
      BY <2>1, <2>2
    <3>. HIDE DEF with, mine
    <3>3. SumFunction(Part(f, with(T) \cup mine))
          = SumFunction(Part(f, with(T))) + SumFunction(Part(f, mine))
      BY <3>1, <3>2, SumAdd
    <3>4. QED
      BY <3>2, <3>3 DEF mine
  <2>4. SumFunction(Part(sum, T \cup {k})) = sum[k] + SumFunction(Part(sum, T))
    <3>1. (T \cup {k}) \ {k} = T /\ T \cup {k} \in SUBSET K
      OBVIOUS
    <3>. HIDE DEF sum
    <3>2. QED
      BY <1>0, <3>1, SumParts
  <2>5. SumFunction(Part(f, with(T))) \in Int /\ sum[k] \in Int
    <3>1. with(T) \in SUBSET D
      OBVIOUS
    <3>2. QED
      BY <1>0, <3>1, SumParts
  <2>6. sum[k] = SumFunction(Part(f, {x \in D : key[x] = k}))
    OBVIOUS
  <2>7. SumFunction(Part(f, with(T))) = SumFunction(Part(sum, T))
    OBVIOUS
  <2>. HIDE DEF with, sum
  <2>8. QED
    BY <2>3, <2>4, <2>5, <2>6, <2>7
<1>3. K \in P
  <2>1. P \in SUBSET SUBSET K
    OBVIOUS
  <2>. HIDE DEF P
  <2>2. QED
    BY <1>1, <1>2, <2>1, AllFiniteSets
<1>4. with(K) = D
  OBVIOUS
<1>5. Part(f, D) = f /\ Part(sum, K) = sum
  BY <1>0, PartAll
<1>6. QED
  BY <1>3, <1>4, <1>5

-----------------------------------------------------------------------------
(* Consequences *)

\* A sum is an integer, and one argument can be taken apart from the others.
LEMMA SumType ==
  ASSUME NEW D, IsFiniteSet(D), NEW f \in [D -> Int]
  PROVE  SumFunction(f) \in Int
BY SumParts, PartAll

LEMMA SumExtend ==
  ASSUME NEW D, IsFiniteSet(D), NEW x \in D, NEW f \in [D -> Int]
  PROVE  SumFunction(f) = f[x] + SumFunction(Part(f, D \ {x}))
<1>1. Part(f, D) = f
  BY PartAll
<1>2. SumFunction(Part(f, D)) = f[x] + SumFunction(Part(f, D \ {x}))
  BY SumParts
<1>3. QED
  BY <1>1, <1>2

LEMMA SumNothing == ASSUME NEW f, DOMAIN f = {} PROVE SumFunction(f) = 0
<1>1. \A g : Sums(f, {}, g) => g[{}] = 0
  BY DEF Sums
<1>2. IsFiniteSet({}) /\ Part(f, {}) \in [{} -> Int]
  BY FS_EmptySet DEF Part
<1>3. \E g : Sums(Part(f, {}), {}, g)
  BY <1>2, SumsExist
<1>4. \A g : Sums(f, {}, g) <=> Sums(Part(f, {}), {}, g)
  <2>1. ASSUME NEW g
        PROVE  [s \in SUBSET {} |-> IF s = {} THEN 0 ELSE f[Picked(s)] + g[s \ {Picked(s)}]]
               = [s \in SUBSET {} |-> IF s = {} THEN 0
                    ELSE Part(f, {})[Picked(s)] + g[s \ {Picked(s)}]]
    <3>1. \A s \in SUBSET {} : s = {}
      OBVIOUS
    <3>2. QED
      BY <3>1
  <2>2. QED
    BY <2>1 DEF Sums
<1>5. QED
  BY <1>1, <1>3, <1>4, SumUnfold

\* Changing the value at one argument changes the sum by as much.
LEMMA SumChange ==
  ASSUME NEW D, IsFiniteSet(D), NEW x \in D, NEW f \in [D -> Int], NEW g \in [D -> Int],
         \A y \in D \ {x} : f[y] = g[y]
  PROVE  SumFunction(f) = SumFunction(g) + f[x] - g[x]
<1>1. Part(f, D \ {x}) = Part(g, D \ {x})
  BY DEF Part
<1> DEFINE rest == SumFunction(Part(g, D \ {x}))
<1>2. SumFunction(g) = g[x] + rest
  BY SumExtend
<1>f. SumFunction(f) = f[x] + SumFunction(Part(f, D \ {x}))
  BY SumExtend
<1>3. rest \in Int
  BY SumParts
<1>4. f[x] \in Int /\ g[x] \in Int
  OBVIOUS
<1>5. SumFunction(f) = f[x] + rest
  BY <1>1, <1>f
<1>. HIDE DEF rest
<1>6. QED
  BY <1>2, <1>3, <1>4, <1>5

\* The sum of differences is the difference of the sums.
LEMMA SumMinus ==
  ASSUME NEW D, IsFiniteSet(D), NEW f \in [D -> Int], NEW g \in [D -> Int]
  PROVE  SumFunction([x \in D |-> f[x] - g[x]]) = SumFunction(f) - SumFunction(g)
<1> DEFINE h == [x \in D |-> f[x] - g[x]]
           P == {T \in SUBSET D : SumFunction(Part(h, T))
                                  = SumFunction(Part(f, T)) - SumFunction(Part(g, T))}
<1>0. h \in [D -> Int] /\ \A x \in D : h[x] = f[x] - g[x]
  OBVIOUS
<1>. HIDE DEF h
<1>1. {} \in P
  BY <1>0, SumParts
<1>2. ASSUME NEW T \in P, NEW x \in D \ T PROVE T \cup {x} \in P
  <2>1. T \cup {x} \in SUBSET D
    OBVIOUS
  <2>f. SumFunction(Part(f, T \cup {x})) = f[x] + SumFunction(Part(f, T))
    BY SumWithOneMore
  <2>g. SumFunction(Part(g, T \cup {x})) = g[x] + SumFunction(Part(g, T))
    BY SumWithOneMore
  <2>h. SumFunction(Part(h, T \cup {x})) = h[x] + SumFunction(Part(h, T))
    BY <1>0, SumWithOneMore
  <2>3. /\ SumFunction(Part(f, T)) \in Int /\ SumFunction(Part(g, T)) \in Int
        /\ f[x] \in Int /\ g[x] \in Int
    BY SumParts
  <2>4. QED
    BY <1>0, <2>1, <2>f, <2>g, <2>h, <2>3
<1>3. D \in P
  <2>1. P \in SUBSET SUBSET D
    OBVIOUS
  <2>. HIDE DEF P
  <2>2. QED
    BY <1>1, <1>2, <2>1, AllFiniteSets
<1>4. Part(f, D) = f /\ Part(g, D) = g /\ Part(h, D) = h
  BY <1>0, PartAll
<1>5. QED
  BY <1>3, <1>4 DEF h

\* A sum of nothing but zeros.
LEMMA SumZeros ==
  ASSUME NEW D, IsFiniteSet(D)
  PROVE  SumFunction([x \in D |-> 0]) = 0
<1> DEFINE f == [x \in D |-> 0]
<1>1. f \in [D -> Int]
  OBVIOUS
<1>2. [x \in D |-> f[x] - f[x]] = f
  OBVIOUS
<1>3. SumFunction(f) \in Int /\ SumFunction(f) = SumFunction(f) - SumFunction(f)
  <2>. HIDE DEF f
  <2>1. QED
    BY <1>1, <1>2, SumMinus, SumType
<1>4. QED
  BY <1>3

\* Values may be added up under other names.
LEMMA SumRenamed ==
  ASSUME NEW D, IsFiniteSet(D), NEW E, NEW h \in [D -> E],
         \A a \in E : \E x \in D : h[x] = a,
         \A x, y \in D : h[x] = h[y] => x = y,
         NEW f \in [E -> Int]
  PROVE  SumFunction([x \in D |-> f[h[x]]]) = SumFunction(f)
<1> DEFINE g == [x \in D |-> f[h[x]]]
<1>1. g \in [D -> Int] /\ \A x \in D : g[x] = f[h[x]]
  OBVIOUS
<1>2. IsFiniteSet(E)
  <2>1. h \in Surjection(D, E)
    BY DEF Surjection
  <2>2. QED
    BY <2>1, FS_Surjection
<1>. HIDE DEF g
<1>3. ASSUME NEW a \in E
      PROVE  SumFunction(Part(g, {x \in D : h[x] = a})) = f[a]
  <2>1. PICK x \in D : h[x] = a
    OBVIOUS
  <2>2. {y \in D : h[y] = a} = {x}
    BY <2>1
  <2>3. {x} \in SUBSET D /\ {x} \ {x} = {}
    OBVIOUS
  <2>4. SumFunction(Part(g, {})) = 0
    BY <1>1, SumParts
  <2>5. SumFunction(Part(g, {x})) = g[x] + 0
    BY <1>1, <2>3, <2>4, SumParts
  <2>6. g[x] \in Int /\ g[x] = f[a]
    BY <1>1, <2>1
  <2>7. SumFunction(Part(g, {x})) = f[a]
    BY <2>5, <2>6
  <2>8. QED
    BY <2>2, <2>7
<1>4. [a \in E |-> SumFunction(Part(g, {x \in D : h[x] = a}))] = f
  BY <1>3
<1>5. SumFunction(g) = SumFunction(f)
  BY <1>1, <1>2, <1>4, SumByKey
<1>6. QED
  BY <1>5 DEF g

\* The pairs of a key and something that belongs to it are finitely many.
Pairs(R, D) == UNION {{i} \X D[i] : i \in R}

LEMMA PairsFinite ==
  ASSUME NEW R, IsFiniteSet(R), NEW D, \A i \in R : IsFiniteSet(D[i])
  PROVE  IsFiniteSet(Pairs(R, D))
<1> DEFINE rows == [i \in R |-> {i} \X D[i]]
           image == {rows[i] : i \in R}
<1>1. rows \in Surjection(R, image)
  BY DEF Surjection
<1>2. IsFiniteSet(image)
  BY <1>1, FS_Surjection
<1>3. \A T \in image : IsFiniteSet(T)
  <2>1. ASSUME NEW i \in R PROVE IsFiniteSet({i} \X D[i])
    BY FS_Singleton, FS_Product
  <2>2. QED
    BY <2>1
<1>4. IsFiniteSet(UNION image)
  <2>. HIDE DEF image
  <2>1. QED
    BY <1>2, <1>3, FS_UNION
<1>5. UNION image = Pairs(R, D)
  BY DEF Pairs
<1>6. QED
  BY <1>4, <1>5

\* A sum over pairs is a sum of sums.
LEMMA SumOfPairs ==
  ASSUME NEW R, IsFiniteSet(R), NEW D, \A i \in R : IsFiniteSet(D[i]),
         NEW f \in [Pairs(R, D) -> Int]
  PROVE  SumFunction(f)
         = SumFunction([i \in R |-> SumFunction([k \in D[i] |-> f[<<i, k>>]])])
<1> DEFINE L == Pairs(R, D)
           key == [o \in L |-> o[1]]
           mine(i) == {o \in L : key[o] = i}
<1>1. IsFiniteSet(L)
  BY PairsFinite
<1>2. key \in [L -> R]
  BY DEF Pairs
<1>3. ASSUME NEW i \in R
      PROVE  SumFunction(Part(f, mine(i))) = SumFunction([k \in D[i] |-> f[<<i, k>>]])
  <2>1. mine(i) = {i} \X D[i]
    BY DEF Pairs
  <2> DEFINE E == mine(i)
             N == D[i]
             pair == [k \in N |-> <<i, k>>]
             g == Part(f, E)
  <2>2. pair \in [N -> E]
    BY <2>1
  <2>3. \A o \in E : \E k \in N : pair[k] = o
    <3>. HIDE DEF mine
    <3>1. QED
      BY <2>1
  <2>4. \A k, l \in N : pair[k] = pair[l] => k = l
    OBVIOUS
  <2>5. g \in [E -> Int] /\ \A o \in E : g[o] = f[o]
    BY DEF Part
  <2>6. [k \in N |-> g[pair[k]]] = [k \in N |-> f[<<i, k>>]]
    BY <2>2, <2>5
  <2>7. IsFiniteSet(N)
    OBVIOUS
  <2>8. SumFunction([k \in N |-> g[pair[k]]]) = SumFunction(g)
    <3>. HIDE DEF pair, g, E, N
    <3>1. QED
      BY <2>2, <2>3, <2>4, <2>5, <2>7, SumRenamed
  <2>9. QED
    BY <2>6, <2>8
<1>4. SumFunction(f) = SumFunction([i \in R |-> SumFunction(Part(f, {o \in L : key[o] = i}))])
  <2>. HIDE DEF key
  <2>1. QED
    BY <1>1, <1>2, SumByKey
<1>5. [i \in R |-> SumFunction(Part(f, {o \in L : key[o] = i}))]
      = [i \in R |-> SumFunction([k \in D[i] |-> f[<<i, k>>]])]
  BY <1>3
<1>6. QED
  BY <1>4, <1>5

\* A sum stays among numbers that addition does not leave.
LEMMA SumWithin ==
  ASSUME NEW M \in SUBSET Int, 0 \in M, \A a, b \in M : a + b \in M,
         NEW D, IsFiniteSet(D), NEW f \in [D -> M]
  PROVE  SumFunction(f) \in M
<1> DEFINE P == {T \in SUBSET D : SumFunction(Part(f, T)) \in M}
<1>0. f \in [D -> Int]
  OBVIOUS
<1>1. {} \in P
  BY <1>0, SumParts
<1>2. ASSUME NEW T \in P, NEW x \in D \ T PROVE T \cup {x} \in P
  <2>1. SumFunction(Part(f, T \cup {x})) = f[x] + SumFunction(Part(f, T))
    BY <1>0, SumWithOneMore
  <2>2. f[x] \in M /\ SumFunction(Part(f, T)) \in M
    OBVIOUS
  <2>3. SumFunction(Part(f, T \cup {x})) \in M
    BY <2>1, <2>2
  <2>4. QED
    BY <2>3
<1>3. D \in P
  <2>1. P \in SUBSET SUBSET D
    OBVIOUS
  <2>. HIDE DEF P
  <2>2. QED
    BY <1>1, <1>2, <2>1, AllFiniteSets
<1>4. Part(f, D) = f
  BY <1>0, PartAll
<1>5. QED
  BY <1>3, <1>4

\* The sum over a sequence, its last element first.
LEMMA SumLast ==
  ASSUME NEW n \in Nat, NEW f \in [1..(n + 1) -> Int]
  PROVE  SumFunction(f) = f[n + 1] + SumFunction(Part(f, 1..n))
<1> DEFINE D == 1..(n + 1)
<1>0. IsFiniteSet(D)
  <2>1. 1 \in Int /\ n + 1 \in Int
    OBVIOUS
  <2>2. QED
    BY <2>1, FS_Interval
<1>1. n + 1 \in D /\ D \ {n + 1} = 1..n
  OBVIOUS
<1>. HIDE DEF D
<1>2. SumFunction(f) = f[n + 1] + SumFunction(Part(f, D \ {n + 1}))
  <2>1. f \in [D -> Int]
    BY DEF D
  <2>2. QED
    BY <1>0, <1>1, <2>1, SumExtend
<1>3. QED
  BY <1>1, <1>2

\* One more value adds as much to the sum of a sequence.
LEMMA SumAppended ==
  ASSUME NEW n \in Nat, NEW f \in [1..n -> Int], NEW g \in [1..(n + 1) -> Int],
         \A i \in 1..n : g[i] = f[i]
  PROVE  SumFunction(g) = SumFunction(f) + g[n + 1] /\ SumFunction(f) \in Int
<1>1. Part(g, 1..n) = f
  BY DEF Part
<1>2. SumFunction(g) = g[n + 1] + SumFunction(Part(g, 1..n))
  BY SumLast
<1>3. IsFiniteSet(1..n)
  <2>1. 1 \in Int /\ n \in Int
    OBVIOUS
  <2>2. QED
    BY <2>1, FS_Interval
<1>4. SumFunction(f) \in Int
  BY <1>3, SumType
<1>5. g[n + 1] \in Int
  OBVIOUS
<1>6. QED
  BY <1>1, <1>2, <1>4, <1>5

LEMMA SumOfTwo ==
  ASSUME NEW f \in [1..2 -> Int]
  PROVE  SumFunction(f) = f[1] + f[2]
<1>f. IsFiniteSet(1..2)
  <2>1. 1 \in Int /\ 2 \in Int
    OBVIOUS
  <2>2. QED
    BY <2>1, FS_Interval
<1>3. SumFunction(f) = f[2] + SumFunction(Part(f, 1..1))
  <2>1. 1 + 1 = 2 /\ 1 \in Nat
    OBVIOUS
  <2>2. QED
    BY <2>1, SumLast
<1>4. SumFunction(Part(f, 1..1)) = f[1] + SumFunction(Part(f, {}))
  <2>1. 1..1 \in SUBSET (1..2) /\ 1 \in 1..1 /\ (1..1) \ {1} = {}
    OBVIOUS
  <2>2. QED
    BY <1>f, <2>1, SumParts
<1>5. SumFunction(Part(f, {})) = 0
  BY <1>f, SumParts
<1>6. QED
  BY <1>3, <1>4, <1>5

\* What a line does to the balance of an account.
Effect(a, line) == IF line.account = a THEN line.debit - line.credit ELSE 0

LEMMA BalanceOfTwo ==
  ASSUME NEW a, NEW x, NEW y, Effect(a, x) \in Int, Effect(a, y) \in Int
  PROVE  AccountBalance(a, <<x, y>>) = Effect(a, x) + Effect(a, y)
<1> DEFINE f == [i \in 1..2 |-> Effect(a, <<x, y>>[i])]
<1>1. f \in [1..2 -> Int] /\ f[1] = Effect(a, x) /\ f[2] = Effect(a, y)
  OBVIOUS
<1>2. AccountBalance(a, <<x, y>>) = SumFunction(f)
  BY DEF AccountBalance, Effect
<1>. HIDE DEF f
<1>3. QED
  BY <1>1, <1>2, SumOfTwo

LEMMA BalanceOfThree ==
  ASSUME NEW a, NEW x, NEW y, NEW z,
         Effect(a, x) \in Int, Effect(a, y) \in Int, Effect(a, z) \in Int
  PROVE  AccountBalance(a, <<x, y, z>>) = Effect(a, x) + Effect(a, y) + Effect(a, z)
<1> DEFINE f == [i \in 1..3 |-> Effect(a, <<x, y, z>>[i])]
           g == [i \in 1..2 |-> Effect(a, <<x, y>>[i])]
<1>1. f \in [1..3 -> Int] /\ f[3] = Effect(a, z)
  OBVIOUS
<1>2. AccountBalance(a, <<x, y, z>>) = SumFunction(f)
  BY DEF AccountBalance, Effect
<1>3. AccountBalance(a, <<x, y>>) = SumFunction(g)
  BY DEF AccountBalance, Effect
<1>4. Part(f, 1..2) = g
  BY DEF Part
<1>. HIDE DEF f, g
<1>5. SumFunction(f) = f[3] + SumFunction(Part(f, 1..2))
  <2>1. 2 + 1 = 3 /\ 2 \in Nat
    OBVIOUS
  <2>2. QED
    BY <1>1, <2>1, SumLast
<1>6. AccountBalance(a, <<x, y>>) = Effect(a, x) + Effect(a, y)
  BY BalanceOfTwo
<1>7. QED
  BY <1>1, <1>2, <1>3, <1>4, <1>5, <1>6

-----------------------------------------------------------------------------
(* Lines: what is stored of them, and their mirror image *)

\* Rounding to cents leaves whole cents as they are.
LEMMA RoundWhole ==
  ASSUME NEW k \in Int
  PROVE  Numeric2(Cent * k) = Cent * k
BY DEF Numeric2, RoundCents, Cent

\* What is stored is a whole number of cents.
LEMMA StoredIsWhole ==
  ASSUME NEW a \in Int
  PROVE  Numeric2(a) \in Int /\ Numeric2(Numeric2(a)) = Numeric2(a)
BY DEF Numeric2, RoundCents, Cent

\* A function on 1..n into a set is a sequence over the set.
LEMMA IsSequence ==
  ASSUME NEW S, NEW n \in Nat, NEW f \in [1..n -> S]
  PROVE  f \in Seq(S)
OBVIOUS

\* What stands at a position of a sequence over a set is in the set.
LEMMA ElementOf ==
  ASSUME NEW S, NEW s \in Seq(S), NEW i \in DOMAIN s
  PROVE  s[i] \in S
OBVIOUS

\* Storing and mirroring keep a list of lines a list of lines.
LEMMA LinesType ==
  ASSUME NEW A, NEW ls \in Seq(Line(A))
  PROVE  Stored(ls) \in Seq(Line(A)) /\ Mirror(ls) \in Seq(Line(A))
<1>1. DOMAIN ls = 1..Len(ls) /\ Len(ls) \in Nat
  OBVIOUS
<1>2. \A i \in 1..Len(ls) :
        ls[i].account \in A /\ ls[i].debit \in Int /\ ls[i].credit \in Int
  <2>1. ASSUME NEW i \in 1..Len(ls) PROVE ls[i] \in Line(A)
    BY <1>1, ElementOf
  <2>2. QED
    BY <2>1 DEF Line
<1>3. Stored(ls) \in [1..Len(ls) -> Line(A)]
  <2>1. \A i \in 1..Len(ls) :
          Numeric2(ls[i].debit) \in Int /\ Numeric2(ls[i].credit) \in Int
    BY <1>2, StoredIsWhole
  <2>2. QED
    BY <1>1, <1>2, <2>1 DEF Stored, Line
<1>4. Mirror(ls) \in [1..Len(ls) -> Line(A)]
  BY <1>1, <1>2 DEF Mirror, Line
<1>5. QED
  BY <1>1, <1>3, <1>4, IsSequence

\* Exchanging debit and credit twice gives back the lines (void.py:75-85).
LEMMA MirrorTwice ==
  ASSUME NEW A, NEW ls \in Seq(Line(A))
  PROVE  Mirror(Mirror(ls)) = ls
<1>1. ls \in [DOMAIN ls -> Line(A)]
  <2>1. \A i \in DOMAIN ls : ls[i] \in Line(A)
    BY ElementOf
  <2>2. ls = [i \in DOMAIN ls |-> ls[i]]
    OBVIOUS
  <2>3. QED
    BY <2>1, <2>2
<1>2. ASSUME NEW i \in DOMAIN ls
      PROVE  ls[i] = [account |-> ls[i].account, debit |-> ls[i].debit,
                      credit |-> ls[i].credit]
  BY <1>1 DEF Line
<1>3. DOMAIN Mirror(ls) = DOMAIN ls
  BY DEF Mirror
<1>4. Mirror(Mirror(ls)) =
        [i \in DOMAIN ls |-> [account |-> ls[i].account, debit |-> ls[i].debit,
                              credit |-> ls[i].credit]]
  BY DEF Mirror
<1>5. QED
  BY <1>1, <1>2, <1>4

\* Storing the reversal of stored lines changes no amount.
LEMMA StoredMirror ==
  ASSUME NEW A, NEW ls \in Seq(Line(A))
  PROVE  /\ Stored(Stored(ls)) = Stored(ls)
         /\ Stored(Mirror(Stored(ls))) = Mirror(Stored(ls))
<1>1. ASSUME NEW i \in DOMAIN ls
      PROVE  ls[i].debit \in Int /\ ls[i].credit \in Int
  <2>1. ls[i] \in Line(A)
    BY <1>1, ElementOf
  <2>2. QED
    BY <2>1 DEF Line
<1>2. ASSUME NEW i \in DOMAIN ls
      PROVE  /\ Numeric2(Numeric2(ls[i].debit)) = Numeric2(ls[i].debit)
             /\ Numeric2(Numeric2(ls[i].credit)) = Numeric2(ls[i].credit)
  BY <1>1, StoredIsWhole
<1>3. QED
  BY <1>2 DEF Stored, Mirror

\* The totals of mirrored lines are the totals exchanged.
LEMMA MirrorTotals ==
  ASSUME NEW ls
  PROVE  TotalDebit(Mirror(ls)) = TotalCredit(ls) /\ TotalCredit(Mirror(ls)) = TotalDebit(ls)
<1>1. [i \in DOMAIN Mirror(ls) |-> Mirror(ls)[i].debit] = [i \in DOMAIN ls |-> ls[i].credit]
  BY DEF Mirror
<1>2. [i \in DOMAIN Mirror(ls) |-> Mirror(ls)[i].credit] = [i \in DOMAIN ls |-> ls[i].debit]
  BY DEF Mirror
<1>3. QED
  BY <1>1, <1>2, Zenon DEF TotalDebit, TotalCredit

WholeCents(ls) == \A i \in DOMAIN ls : ls[i].debit % Cent = 0 /\ ls[i].credit % Cent = 0

\* What is sent in whole cents is stored as it was sent, and passes the test on
\* the rounded difference only if there is none.
LEMMA WholeCentsKept ==
  ASSUME NEW A, NEW ls \in Seq(Line(A)), WholeCents(ls)
  PROVE  PassesBalanceCheck(ls) => Balanced(Stored(ls))
<1> DEFINE N == DOMAIN ls
           M == {a \in Int : a % Cent = 0}
           d == [i \in N |-> ls[i].debit]
           c == [i \in N |-> ls[i].credit]
<1>1. N = 1..Len(ls) /\ Len(ls) \in Nat
  OBVIOUS
<1>2. IsFiniteSet(N)
  BY <1>1, FS_Interval
<1>3. \A i \in N : ls[i].debit \in M /\ ls[i].credit \in M
  <2>1. \A i \in N : ls[i] \in Line(A)
    BY ElementOf
  <2>2. QED
    BY <2>1 DEF Line, WholeCents
<1>4. M \in SUBSET Int /\ 0 \in M /\ \A a, b \in M : a + b \in M
  BY DEF Cent
<1>5. d \in [N -> M] /\ c \in [N -> M]
  BY <1>3
<1>6. SumFunction(d) \in M
  <2>. HIDE DEF M, N, d
  <2>1. QED
    BY <1>2, <1>4, <1>5, SumWithin
<1>7. SumFunction(c) \in M
  <2>. HIDE DEF M, N, c
  <2>1. QED
    BY <1>2, <1>4, <1>5, SumWithin
<1>8. \A a \in M : Numeric2(a) = a
  BY DEF Numeric2, RoundCents, Cent
<1>9. /\ [i \in DOMAIN Stored(ls) |-> Stored(ls)[i].debit] = d
      /\ [i \in DOMAIN Stored(ls) |-> Stored(ls)[i].credit] = c
  <2>1. \A i \in N : Numeric2(ls[i].debit) = ls[i].debit /\ Numeric2(ls[i].credit) = ls[i].credit
    BY <1>3, <1>8
  <2>. HIDE DEF M
  <2>2. QED
    BY <2>1 DEF Stored
<1>10. /\ TotalDebit(Stored(ls)) = SumFunction(d) /\ TotalCredit(Stored(ls)) = SumFunction(c)
       /\ TotalDebit(ls) = SumFunction(d) /\ TotalCredit(ls) = SumFunction(c)
  <2>1. TotalDebit(ls) = SumFunction(d) /\ TotalCredit(ls) = SumFunction(c)
    BY DEF TotalDebit, TotalCredit
  <2>2. TotalDebit(Stored(ls)) = SumFunction(d) /\ TotalCredit(Stored(ls)) = SumFunction(c)
    BY <1>9, Zenon DEF TotalDebit, TotalCredit
  <2>3. QED
    BY <2>1, <2>2
<1>11. ASSUME NEW a \in M, NEW b \in M, RoundCents(a - b) = 0 PROVE a = b
  BY <1>11 DEF RoundCents, Cent
<1>12. QED
  BY <1>6, <1>7, <1>10, <1>11 DEF PassesBalanceCheck, Balanced

LEMMA BalanceType ==
  ASSUME NEW A, NEW ls \in Seq(Line(A)), NEW a
  PROVE  AccountBalance(a, ls) \in Int
<1> DEFINE N == DOMAIN ls
           f == [i \in N |-> IF ls[i].account = a THEN ls[i].debit - ls[i].credit ELSE 0]
<1>1. IsFiniteSet(N)
  <2>1. N = 1..Len(ls) /\ Len(ls) \in Nat
    OBVIOUS
  <2>2. QED
    BY <2>1, FS_Interval
<1>2. \A i \in N : ls[i] \in Line(A)
  BY ElementOf
<1>3. f \in [N -> Int]
  BY <1>2 DEF Line
<1>. HIDE DEF f, N
<1>4. SumFunction(f) \in Int
  BY <1>1, <1>3, SumType
<1>5. QED
  BY <1>4 DEF f, N, AccountBalance

\* Lines on other accounts leave the balance of an account alone.
LEMMA BalanceElsewhere ==
  ASSUME NEW A, NEW ls \in Seq(Line(A)), NEW a, \A i \in DOMAIN ls : ls[i].account # a
  PROVE  AccountBalance(a, Stored(ls)) = 0
<1> DEFINE N == DOMAIN ls
<1>1. IsFiniteSet(N)
  <2>1. N = 1..Len(ls) /\ Len(ls) \in Nat
    OBVIOUS
  <2>2. QED
    BY <2>1, FS_Interval
<1>2. SumFunction([i \in N |-> 0]) = 0
  <2>. HIDE DEF N
  <2>1. QED
    BY <1>1, SumZeros
<1>3. [i \in DOMAIN Stored(ls) |->
         IF Stored(ls)[i].account = a THEN Stored(ls)[i].debit - Stored(ls)[i].credit ELSE 0]
      = [i \in N |-> 0]
  BY DEF Stored
<1>4. AccountBalance(a, Stored(ls)) = SumFunction([i \in N |-> 0])
  BY <1>3, Zenon DEF AccountBalance
<1>5. QED
  BY <1>2, <1>4

\* Whole cents are stored as they are.
LEMMA StoredSame ==
  ASSUME NEW A, NEW ls \in Seq(Line(A)), WholeCents(ls)
  PROVE  Stored(ls) = ls
<1>1. ASSUME NEW i \in DOMAIN ls
      PROVE  ls[i] = [account |-> ls[i].account, debit |-> Numeric2(ls[i].debit),
                      credit |-> Numeric2(ls[i].credit)]
  <2>1. ls[i] \in Line(A)
    BY <1>1, ElementOf
  <2>2. ls[i].debit \in Int /\ ls[i].credit \in Int
    BY <2>1 DEF Line
  <2>3. ls[i].debit % Cent = 0 /\ ls[i].credit % Cent = 0
    BY DEF WholeCents
  <2>4. Numeric2(ls[i].debit) = ls[i].debit
    BY <2>2, <2>3 DEF Numeric2, RoundCents, Cent
  <2>5. Numeric2(ls[i].credit) = ls[i].credit
    BY <2>2, <2>3 DEF Numeric2, RoundCents, Cent
  <2>6. QED
    BY <2>1, <2>4, <2>5 DEF Line
<1>2. ls = [i \in DOMAIN ls |-> ls[i]]
  OBVIOUS
<1>3. QED
  BY <1>1, <1>2 DEF Stored
=============================================================================
