---------------------------- MODULE Sums_proofs ----------------------------
(***************************************************************************)
(* Sums over finite sets (SumFunctionOnSet of the community modules): that *)
(* their recursive definition has a value, that the order of the summands  *)
(* does not matter, and what a change of one summand does.  The models sum *)
(* money and stock by them.                                                *)
(***************************************************************************)
EXTENDS Integers, FiniteSets, Functions, FiniteSetTheorems, WellFoundedInduction, TLAPS

----------------------------------------------------------------------------
(* The recursion.                                                          *)

First(S) == CHOOSE x \in S : TRUE

\* g sums f over each of the subsets of S.
Adds(f, S, g) ==
    g = [s \in SUBSET S |-> IF s = {} THEN 0 ELSE f[First(s)] + g[s \ {First(s)}]]

\* The sum is the value at S of the function that adds up f.
LEMMA SumIs ==
    ASSUME NEW f, NEW S
    PROVE  SumFunctionOnSet(f, S) = (CHOOSE g : Adds(f, S, g))[S]
BY DEF SumFunctionOnSet, FoldFunctionOnSet, MapThenFoldSet, Adds, First

\* Among subsets of a finite set there is a smallest one.
LEMMA SmallestSubset ==
    ASSUME NEW S, IsFiniteSet(S), NEW Bad \in SUBSET SUBSET S, Bad # {}
    PROVE  \E s \in Bad : \A t \in SUBSET s : t # s => t \notin Bad
<1>1. IsWellFoundedOn(StrictSubsetOrdering(S), SUBSET S)
    BY FS_StrictSubsetOrderingWellFounded, FS_FiniteSubsetsOfFinite
<1>2. PICK s \in Bad : \A t \in Bad : ~ (<<t, s>> \in StrictSubsetOrdering(S))
    BY <1>1, WFMin
<1>3. ASSUME NEW t \in SUBSET s, t # s, t \in Bad
      PROVE  FALSE
    BY <1>2, <1>3 DEF StrictSubsetOrdering
<1>4. QED BY <1>3

\* What is left of a set without its first element.
LEMMA Rest ==
    ASSUME NEW S, NEW s \in SUBSET S, s # {}
    PROVE  /\ First(s) \in s /\ First(s) \in S
           /\ s \ {First(s)} \in SUBSET S
           /\ s \ {First(s)} \in SUBSET s /\ s \ {First(s)} # s
<1>1. First(s) \in s
    BY DEF First
<1>2. QED BY <1>1

LEMMA AddsAt ==
    ASSUME NEW f, NEW S, NEW g, Adds(f, S, g)
    PROVE  /\ g[{}] = 0
           /\ \A s \in SUBSET S : s # {} => g[s] = f[First(s)] + g[s \ {First(s)}]
<1>1. \A s \in SUBSET S : g[s] = IF s = {} THEN 0 ELSE f[First(s)] + g[s \ {First(s)}]
    BY DEF Adds
<1>2. QED BY <1>1

\* There is at most one way to add up.
LEMMA AddsAlike ==
    ASSUME NEW f, NEW S, IsFiniteSet(S), NEW T \in SUBSET S, NEW g, NEW h,
           Adds(f, S, g), Adds(f, T, h)
    PROVE  \A s \in SUBSET T : g[s] = h[s]
<1> DEFINE Bad == {s \in SUBSET T : g[s] # h[s]}
<1>1. SUFFICES ASSUME Bad # {} PROVE FALSE
    OBVIOUS
<1>2. PICK s \in Bad : \A t \in SUBSET s : t # s => t \notin Bad
    <2>1. Bad \in SUBSET SUBSET S
        OBVIOUS
    <2> HIDE DEF Bad
    <2>2. QED BY <1>1, <2>1, SmallestSubset
<1>3. s # {}
    BY <1>2, AddsAt
<1>4. g[s] = f[First(s)] + g[s \ {First(s)}] /\ h[s] = f[First(s)] + h[s \ {First(s)}]
    BY <1>3, AddsAt
<1>5. g[s \ {First(s)}] = h[s \ {First(s)}]
    BY <1>2, <1>3, Rest
<1>6. QED BY <1>4, <1>5

\* There is a way to add up.
LEMMA AddsExists ==
    ASSUME NEW f, NEW S, IsFiniteSet(S)
    PROVE  \E g : Adds(f, S, g)
<1> DEFINE Bad == {s \in SUBSET S : ~ \E g : Adds(f, s, g)}
<1>1. SUFFICES ASSUME Bad # {} PROVE FALSE
    OBVIOUS
<1>2. PICK T \in Bad : \A t \in SUBSET T : t # T => t \notin Bad
    <2>1. Bad \in SUBSET SUBSET S
        OBVIOUS
    <2> HIDE DEF Bad
    <2>2. QED BY <1>1, <2>1, SmallestSubset
<1> DEFINE Of(u) == CHOOSE g : Adds(f, u, g)
           Whole == [s \in SUBSET T |->
                       IF s = {} THEN 0
                       ELSE f[First(s)] + Of(s \ {First(s)})[s \ {First(s)}]]
<1>3. \A u \in SUBSET T : u # T => Adds(f, u, Of(u)) /\ IsFiniteSet(u)
    <2> SUFFICES ASSUME NEW u \in SUBSET T, u # T
                 PROVE  Adds(f, u, Of(u)) /\ IsFiniteSet(u)
        OBVIOUS
    <2>1. u \notin Bad /\ u \in SUBSET S
        BY <1>2
    <2>2. \E g : Adds(f, u, g)
        BY <2>1
    <2>3. IsFiniteSet(u)
        BY <2>1, FS_Subset
    <2>4. QED BY <2>2, <2>3
<1> HIDE DEF Of
<1>4. \A s \in SUBSET T : s # T => Whole[s] = Of(s)[s]
    <2> SUFFICES ASSUME NEW s \in SUBSET T, s # T
                 PROVE  Whole[s] = Of(s)[s]
        OBVIOUS
    <2>1. CASE s = {}
        BY <1>3, <2>1, AddsAt
    <2>2. CASE s # {}
        <3> DEFINE r == s \ {First(s)}
        <3>1. r \in SUBSET s /\ r \in SUBSET T /\ r # T /\ s \in SUBSET s /\ r \in SUBSET r
            BY <2>2, Rest
        <3>2. Of(s)[s] = f[First(s)] + Of(s)[r]
            BY <1>3, <2>2, <3>1, AddsAt
        <3>3. Of(s)[r] = Of(r)[r]
            <4>1. Adds(f, s, Of(s)) /\ Adds(f, r, Of(r)) /\ IsFiniteSet(s)
                BY <1>3, <3>1
            <4> HIDE DEF r
            <4>2. QED BY <3>1, <4>1, AddsAlike
        <3>4. QED BY <2>2, <3>2, <3>3
    <2>3. QED BY <2>1, <2>2
<1>5. Adds(f, T, Whole)
    <2>1. ASSUME NEW s \in SUBSET T, s # {}
          PROVE  Of(s \ {First(s)})[s \ {First(s)}] = Whole[s \ {First(s)}]
        <3>1. s \ {First(s)} \in SUBSET T /\ s \ {First(s)} # T
            BY <2>1, Rest
        <3>2. QED BY <1>4, <3>1
    <2>2. Whole = [s \in SUBSET T |->
                     IF s = {} THEN 0 ELSE f[First(s)] + Whole[s \ {First(s)}]]
        BY <2>1
    <2>3. QED BY <2>2 DEF Adds
<1>6. QED BY <1>2, <1>5

----------------------------------------------------------------------------
(* Sums.                                                                   *)

LEMMA SumOfNone == ASSUME NEW f PROVE SumFunctionOnSet(f, {}) = 0
<1>1. IsFiniteSet({})
    BY FS_EmptySet
<1>2. Adds(f, {}, CHOOSE g : Adds(f, {}, g))
    BY <1>1, AddsExists
<1>3. QED BY <1>2, SumIs, AddsAt

LEMMA SumByFirst ==
    ASSUME NEW f, NEW S, IsFiniteSet(S), S # {}
    PROVE  SumFunctionOnSet(f, S)
             = f[First(S)] + SumFunctionOnSet(f, S \ {First(S)})
<1> DEFINE g == CHOOSE h : Adds(f, S, h)
           r == S \ {First(S)}
           e == CHOOSE h : Adds(f, r, h)
<1>1. r \in SUBSET S /\ S \in SUBSET S /\ r \in SUBSET r /\ IsFiniteSet(r)
    <2>1. r \in SUBSET S
        OBVIOUS
    <2>2. QED BY <2>1, FS_Subset
<1>2. Adds(f, S, g)
    BY AddsExists
<1>3. Adds(f, r, e)
    BY <1>1, AddsExists
<1>4. SumFunctionOnSet(f, S) = g[S] /\ SumFunctionOnSet(f, r) = e[r]
    BY SumIs
<1> HIDE DEF g, r, e
<1>5. g[r] = e[r]
    BY <1>1, <1>2, <1>3, AddsAlike
<1>6. g[S] = f[First(S)] + g[r]
    BY <1>1, <1>2, AddsAt DEF r
<1>7. QED BY <1>4, <1>5, <1>6 DEF r

\* A sum of numbers is a number.
LEMMA SumType ==
    ASSUME NEW f, NEW S, IsFiniteSet(S), \A x \in S : f[x] \in Int
    PROVE  SumFunctionOnSet(f, S) \in Int
<1> DEFINE Bad == {s \in SUBSET S : SumFunctionOnSet(f, s) \notin Int}
<1>1. SUFFICES ASSUME Bad # {} PROVE FALSE
    OBVIOUS
<1>2. PICK s \in Bad : \A t \in SUBSET s : t # s => t \notin Bad
    <2>1. Bad \in SUBSET SUBSET S
        OBVIOUS
    <2> HIDE DEF Bad
    <2>2. QED BY <1>1, <2>1, SmallestSubset
<1>3. s \in SUBSET S /\ IsFiniteSet(s)
    BY <1>2, FS_Subset
<1>4. s # {}
    <2> SUFFICES ASSUME s = {}
                 PROVE  SumFunctionOnSet(f, s) \in Int
        BY <1>2
    <2>1. QED BY SumOfNone
<1>5. SumFunctionOnSet(f, s \ {First(s)}) \in Int /\ f[First(s)] \in Int
    BY <1>2, <1>3, <1>4, Rest
<1>6. QED BY <1>2, <1>3, <1>4, <1>5, SumByFirst

\* A sum of nothings is nothing.
LEMMA SumZero ==
    ASSUME NEW f, NEW S, IsFiniteSet(S), \A x \in S : f[x] = 0
    PROVE  SumFunctionOnSet(f, S) = 0
<1> DEFINE Bad == {s \in SUBSET S : SumFunctionOnSet(f, s) # 0}
<1>1. SUFFICES ASSUME Bad # {} PROVE FALSE
    <2>1. S \in SUBSET S
        OBVIOUS
    <2>2. QED BY <2>1
<1>2. PICK s \in Bad : \A t \in SUBSET s : t # s => t \notin Bad
    <2>1. Bad \in SUBSET SUBSET S
        OBVIOUS
    <2> HIDE DEF Bad
    <2>2. QED BY <1>1, <2>1, SmallestSubset
<1>3. s \in SUBSET S /\ IsFiniteSet(s)
    BY <1>2, FS_Subset
<1>4. s # {}
    <2> SUFFICES ASSUME s = {}
                 PROVE  SumFunctionOnSet(f, s) = 0
        BY <1>2
    <2>1. QED BY SumOfNone
<1>5. SumFunctionOnSet(f, s \ {First(s)}) = 0 /\ f[First(s)] = 0
    BY <1>2, <1>3, <1>4, Rest
<1>6. QED BY <1>2, <1>3, <1>4, <1>5, SumByFirst

\* A sum of natural numbers is one.
LEMMA SumNat ==
    ASSUME NEW f, NEW S, IsFiniteSet(S), \A x \in S : f[x] \in Nat
    PROVE  SumFunctionOnSet(f, S) \in Nat
<1> DEFINE Bad == {s \in SUBSET S : SumFunctionOnSet(f, s) \notin Nat}
<1>1. SUFFICES ASSUME Bad # {} PROVE FALSE
    <2>1. S \in SUBSET S
        OBVIOUS
    <2>2. QED BY <2>1
<1>2. PICK s \in Bad : \A t \in SUBSET s : t # s => t \notin Bad
    <2>1. Bad \in SUBSET SUBSET S
        OBVIOUS
    <2> HIDE DEF Bad
    <2>2. QED BY <1>1, <2>1, SmallestSubset
<1>3. s \in SUBSET S /\ IsFiniteSet(s)
    BY <1>2, FS_Subset
<1>4. s # {}
    <2> SUFFICES ASSUME s = {}
                 PROVE  SumFunctionOnSet(f, s) \in Nat
        BY <1>2
    <2>1. QED BY SumOfNone
<1>5. SumFunctionOnSet(f, s \ {First(s)}) \in Nat /\ f[First(s)] \in Nat
    BY <1>2, <1>3, <1>4, Rest
<1>6. QED BY <1>2, <1>3, <1>4, <1>5, SumByFirst

\* Any summand may be taken out first.
LEMMA SumByAny ==
    ASSUME NEW f, NEW S, IsFiniteSet(S), \A x \in S : f[x] \in Int
    PROVE  \A x \in S : SumFunctionOnSet(f, S) = f[x] + SumFunctionOnSet(f, S \ {x})
<1> DEFINE Splits(s) ==
      \A x \in s : SumFunctionOnSet(f, s) = f[x] + SumFunctionOnSet(f, s \ {x})
           Bad == {s \in SUBSET S : ~ Splits(s)}
<1>1. SUFFICES ASSUME Bad # {} PROVE FALSE
    OBVIOUS
<1>2. PICK s \in Bad : \A t \in SUBSET s : t # s => t \notin Bad
    <2>1. Bad \in SUBSET SUBSET S
        OBVIOUS
    <2> HIDE DEF Bad
    <2>2. QED BY <1>1, <2>1, SmallestSubset
<1>3. s \in SUBSET S /\ IsFiniteSet(s)
    BY <1>2, FS_Subset
<1>4. PICK x \in s : SumFunctionOnSet(f, s) # f[x] + SumFunctionOnSet(f, s \ {x})
    BY <1>2
<1> DEFINE c == First(s)
           both == (s \ {c}) \ {x}
<1>5. c \in s /\ SumFunctionOnSet(f, s) = f[c] + SumFunctionOnSet(f, s \ {c}) /\ x # c
    <2>1. s # {}
        BY <1>4
    <2>2. QED BY <1>3, <1>4, <2>1, Rest, SumByFirst
<1>6. SumFunctionOnSet(f, s \ {c}) = f[x] + SumFunctionOnSet(f, both)
    <2>1. s \ {c} \in SUBSET s /\ s \ {c} # s /\ s \ {c} \in SUBSET S /\ x \in s \ {c}
        BY <1>3, <1>4, <1>5
    <2>2. Splits(s \ {c})
        BY <1>2, <2>1
    <2>3. QED BY <2>1, <2>2
<1>7. SumFunctionOnSet(f, s \ {x}) = f[c] + SumFunctionOnSet(f, both)
    <2>1. s \ {x} \in SUBSET s /\ s \ {x} # s /\ s \ {x} \in SUBSET S /\ c \in s \ {x}
        BY <1>3, <1>4, <1>5
    <2>2. Splits(s \ {x})
        BY <1>2, <2>1
    <2>3. (s \ {x}) \ {c} = both
        OBVIOUS
    <2>4. QED BY <2>1, <2>2, <2>3
<1>8. SumFunctionOnSet(f, both) \in Int /\ f[x] \in Int /\ f[c] \in Int
    <2>1. both \in SUBSET S
        BY <1>3
    <2>2. IsFiniteSet(both) /\ \A y \in both : f[y] \in Int
        BY <2>1, FS_Subset
    <2> HIDE DEF both
    <2>3. QED BY <1>3, <1>4, <1>5, <2>2, SumType
<1> HIDE DEF c, both
<1>9. QED BY <1>4, <1>5, <1>6, <1>7, <1>8

\* No summand more gives no sum more.
LEMMA SumOrder ==
    ASSUME NEW f, NEW g, NEW S, IsFiniteSet(S),
           \A x \in S : f[x] \in Int /\ g[x] \in Int /\ f[x] <= g[x]
    PROVE  SumFunctionOnSet(f, S) <= SumFunctionOnSet(g, S)
<1> DEFINE Bad == {s \in SUBSET S : ~ (SumFunctionOnSet(f, s) <= SumFunctionOnSet(g, s))}
<1>1. SUFFICES ASSUME Bad # {} PROVE FALSE
    <2>1. S \in SUBSET S
        OBVIOUS
    <2>2. QED BY <2>1
<1>2. PICK s \in Bad : \A t \in SUBSET s : t # s => t \notin Bad
    <2>1. Bad \in SUBSET SUBSET S
        OBVIOUS
    <2> HIDE DEF Bad
    <2>2. QED BY <1>1, <2>1, SmallestSubset
<1>3. s \in SUBSET S /\ IsFiniteSet(s)
    BY <1>2, FS_Subset
<1>4. s # {}
    <2> SUFFICES ASSUME s = {}
                 PROVE  SumFunctionOnSet(f, s) <= SumFunctionOnSet(g, s)
        BY <1>2
    <2>1. SumFunctionOnSet(f, s) = 0 /\ SumFunctionOnSet(g, s) = 0
        BY SumOfNone
    <2>2. QED BY <2>1
<1> DEFINE c == First(s)
           r == s \ {c}
<1>5. c \in S /\ r \in SUBSET S /\ IsFiniteSet(r)
    <2>1. c \in S /\ r \in SUBSET S
        BY <1>3, <1>4, Rest
    <2>2. QED BY <2>1, FS_Subset
<1>6. SumFunctionOnSet(f, r) <= SumFunctionOnSet(g, r)
    BY <1>2, <1>3, <1>4, Rest
<1>7. SumFunctionOnSet(f, r) \in Int /\ SumFunctionOnSet(g, r) \in Int
    <2> HIDE DEF r
    <2>1. \A x \in r : f[x] \in Int /\ g[x] \in Int
        BY <1>5
    <2>2. QED BY <1>5, <2>1, SumType
<1>8. /\ SumFunctionOnSet(f, s) = f[c] + SumFunctionOnSet(f, r)
      /\ SumFunctionOnSet(g, s) = g[c] + SumFunctionOnSet(g, r)
    BY <1>3, <1>4, SumByFirst
<1>9. f[c] \in Int /\ g[c] \in Int /\ f[c] <= g[c] /\ ~ (SumFunctionOnSet(f, s) <= SumFunctionOnSet(g, s))
    BY <1>2, <1>5
<1> HIDE DEF c, r
<1>10. QED BY <1>6, <1>7, <1>8, <1>9

\* The same summands give the same sum.
LEMMA SumSame ==
    ASSUME NEW f, NEW g, NEW S, IsFiniteSet(S), \A x \in S : f[x] \in Int /\ f[x] = g[x]
    PROVE  SumFunctionOnSet(f, S) = SumFunctionOnSet(g, S)
<1>1. \A x \in S : /\ f[x] \in Int /\ g[x] \in Int
                   /\ f[x] <= g[x] /\ g[x] <= f[x]
    OBVIOUS
<1>2. SumFunctionOnSet(f, S) \in Int /\ SumFunctionOnSet(g, S) \in Int
    BY <1>1, SumType
<1>3. SumFunctionOnSet(f, S) <= SumFunctionOnSet(g, S)
    BY <1>1, SumOrder
<1>4. SumFunctionOnSet(g, S) <= SumFunctionOnSet(f, S)
    BY <1>1, SumOrder
<1>5. QED BY <1>2, <1>3, <1>4

\* A sum moves by what one of its summands moves.
LEMMA SumChanges ==
    ASSUME NEW f, NEW g, NEW S, IsFiniteSet(S), NEW x \in S,
           \A y \in S : f[y] \in Int /\ g[y] \in Int,
           \A y \in S \ {x} : g[y] = f[y]
    PROVE  SumFunctionOnSet(g, S) = SumFunctionOnSet(f, S) + g[x] - f[x]
<1> DEFINE r == S \ {x}
<1>1. r \in SUBSET S /\ IsFiniteSet(r)
    <2>1. r \in SUBSET S
        OBVIOUS
    <2>2. QED BY <2>1, FS_Subset
<1>2. /\ SumFunctionOnSet(f, S) = f[x] + SumFunctionOnSet(f, r)
      /\ SumFunctionOnSet(g, S) = g[x] + SumFunctionOnSet(g, r)
    BY SumByAny
<1>3. \A y \in r : f[y] \in Int /\ f[y] = g[y]
    OBVIOUS
<1> HIDE DEF r
<1>4. SumFunctionOnSet(f, r) = SumFunctionOnSet(g, r) /\ SumFunctionOnSet(f, r) \in Int
    BY <1>1, <1>3, SumSame, SumType
<1>5. QED BY <1>2, <1>4

\* One element more, one summand more.
LEMMA SumGrows ==
    ASSUME NEW f, NEW S, IsFiniteSet(S), NEW x, x \notin S, f[x] \in Int, \A y \in S : f[y] \in Int
    PROVE  SumFunctionOnSet(f, S \cup {x}) = SumFunctionOnSet(f, S) + f[x]
<1> DEFINE more == S \cup {x}
<1>1. IsFiniteSet(more)
    BY FS_AddElement
<1>2. x \in more /\ (\A y \in more : f[y] \in Int) /\ more \ {x} = S
    OBVIOUS
<1> HIDE DEF more
<1>3. SumFunctionOnSet(f, more) = f[x] + SumFunctionOnSet(f, S)
    BY <1>1, <1>2, SumByAny
<1>4. SumFunctionOnSet(f, S) \in Int
    BY SumType
<1>5. QED BY <1>3, <1>4 DEF more

\* Only the elements that count for something matter.
LEMMA SumSupport ==
    ASSUME NEW f, NEW S, IsFiniteSet(S), \A x \in S : f[x] \in Int,
           NEW X \in SUBSET S, \A x \in S \ X : f[x] = 0
    PROVE  SumFunctionOnSet(f, S) = SumFunctionOnSet(f, X)
<1> DEFINE Bad == {s \in SUBSET S : X \subseteq s /\ SumFunctionOnSet(f, s) # SumFunctionOnSet(f, X)}
<1>1. SUFFICES ASSUME Bad # {} PROVE FALSE
    <2>1. S \in SUBSET S
        OBVIOUS
    <2>2. QED BY <2>1
<1>2. PICK s \in Bad : \A t \in SUBSET s : t # s => t \notin Bad
    <2>1. Bad \in SUBSET SUBSET S
        OBVIOUS
    <2> HIDE DEF Bad
    <2>2. QED BY <1>1, <2>1, SmallestSubset
<1>3. s \in SUBSET S /\ IsFiniteSet(s) /\ X \subseteq s /\ s # X
    BY <1>2, FS_Subset
<1>4. PICK x \in s : x \notin X
    BY <1>3
<1> DEFINE r == s \ {x}
<1>5. r \in SUBSET s /\ r # s /\ r \in SUBSET S /\ X \subseteq r
    BY <1>3, <1>4
<1>6. SumFunctionOnSet(f, r) = SumFunctionOnSet(f, X)
    BY <1>2, <1>5
<1>7. SumFunctionOnSet(f, s) = f[x] + SumFunctionOnSet(f, r) /\ f[x] = 0
    BY <1>3, <1>4, SumByAny
<1>8. SumFunctionOnSet(f, r) \in Int
    <2> HIDE DEF r
    <2>1. IsFiniteSet(r) /\ \A y \in r : f[y] \in Int
        BY <1>5, FS_Subset
    <2>2. QED BY <2>1, SumType
<1> HIDE DEF r
<1>9. SumFunctionOnSet(f, s) = SumFunctionOnSet(f, X)
    BY <1>6, <1>7, <1>8
<1>10. QED BY <1>2, <1>9

\* Two sums make one.
LEMMA SumPlus ==
    ASSUME NEW f, NEW g, NEW h, NEW S, IsFiniteSet(S),
           \A x \in S : f[x] \in Int /\ g[x] \in Int /\ h[x] = f[x] + g[x]
    PROVE  SumFunctionOnSet(h, S) = SumFunctionOnSet(f, S) + SumFunctionOnSet(g, S)
<1> DEFINE Bad == {s \in SUBSET S : SumFunctionOnSet(h, s)
                                      # SumFunctionOnSet(f, s) + SumFunctionOnSet(g, s)}
<1>1. SUFFICES ASSUME Bad # {} PROVE FALSE
    <2>1. S \in SUBSET S
        OBVIOUS
    <2>2. QED BY <2>1
<1>2. PICK s \in Bad : \A t \in SUBSET s : t # s => t \notin Bad
    <2>1. Bad \in SUBSET SUBSET S
        OBVIOUS
    <2> HIDE DEF Bad
    <2>2. QED BY <1>1, <2>1, SmallestSubset
<1>3. s \in SUBSET S /\ IsFiniteSet(s)
    BY <1>2, FS_Subset
<1>4. s # {}
    <2> SUFFICES ASSUME s = {}
                 PROVE  SumFunctionOnSet(h, s) = SumFunctionOnSet(f, s) + SumFunctionOnSet(g, s)
        BY <1>2
    <2>1. SumFunctionOnSet(f, s) = 0 /\ SumFunctionOnSet(g, s) = 0 /\ SumFunctionOnSet(h, s) = 0
        BY SumOfNone
    <2>2. QED BY <2>1
<1> DEFINE c == First(s)
           r == s \ {c}
<1>5. c \in S /\ r \in SUBSET S /\ IsFiniteSet(r)
    <2>1. c \in S /\ r \in SUBSET S
        BY <1>3, <1>4, Rest
    <2>2. QED BY <2>1, FS_Subset
<1>6. SumFunctionOnSet(h, r) = SumFunctionOnSet(f, r) + SumFunctionOnSet(g, r)
    BY <1>2, <1>3, <1>4, Rest
<1>7. SumFunctionOnSet(f, r) \in Int /\ SumFunctionOnSet(g, r) \in Int
    <2> HIDE DEF r
    <2>1. \A x \in r : f[x] \in Int /\ g[x] \in Int
        BY <1>5
    <2>2. QED BY <1>5, <2>1, SumType
<1>8. /\ SumFunctionOnSet(f, s) = f[c] + SumFunctionOnSet(f, r)
      /\ SumFunctionOnSet(g, s) = g[c] + SumFunctionOnSet(g, r)
      /\ SumFunctionOnSet(h, s) = h[c] + SumFunctionOnSet(h, r)
    BY <1>3, <1>4, SumByFirst
<1>9. /\ f[c] \in Int /\ g[c] \in Int /\ h[c] = f[c] + g[c]
      /\ SumFunctionOnSet(h, s) # SumFunctionOnSet(f, s) + SumFunctionOnSet(g, s)
    BY <1>2, <1>5
<1> HIDE DEF c, r
<1>10. QED BY <1>6, <1>7, <1>8, <1>9

\* What is added to some of the summands is added to the sum.
LEMMA SumAdds ==
    ASSUME NEW f, NEW g, NEW h, NEW S, IsFiniteSet(S), NEW X \in SUBSET S,
           \A x \in S : f[x] \in Int, \A x \in X : g[x] \in Int /\ h[x] = f[x] + g[x],
           \A x \in S \ X : h[x] = f[x]
    PROVE  SumFunctionOnSet(h, S) = SumFunctionOnSet(f, S) + SumFunctionOnSet(g, X)
<1> DEFINE e == [x \in S |-> IF x \in X THEN g[x] ELSE 0]
<1>1. \A x \in S : f[x] \in Int /\ e[x] \in Int /\ h[x] = f[x] + e[x]
    OBVIOUS
<1>2. (\A x \in S : e[x] \in Int) /\ \A x \in S \ X : e[x] = 0
    OBVIOUS
<1>3. \A x \in X : g[x] \in Int /\ g[x] = e[x]
    OBVIOUS
<1> HIDE DEF e
<1>4. SumFunctionOnSet(h, S) = SumFunctionOnSet(f, S) + SumFunctionOnSet(e, S)
    BY <1>1, SumPlus
<1>5. SumFunctionOnSet(e, S) = SumFunctionOnSet(e, X)
    BY <1>2, SumSupport
<1>6. IsFiniteSet(X)
    BY FS_Subset
<1>7. SumFunctionOnSet(g, X) = SumFunctionOnSet(e, X)
    BY <1>3, <1>6, SumSame
<1>8. QED BY <1>4, <1>5, <1>7

----------------------------------------------------------------------------
(* The largest.                                                            *)

\* Of finitely many numbers one is the largest.
LEMMA LargestExists ==
    ASSUME NEW f, NEW S, IsFiniteSet(S), S # {}, \A x \in S : f[x] \in Int
    PROVE  \E x \in S : \A y \in S : f[y] <= f[x]
<1> DEFINE Bad == {s \in SUBSET S : s # {} /\ ~ \E x \in s : \A y \in s : f[y] <= f[x]}
<1>1. SUFFICES ASSUME Bad # {} PROVE FALSE
    <2>1. S \in SUBSET S
        OBVIOUS
    <2>2. QED BY <2>1
<1>2. PICK s \in Bad : \A t \in SUBSET s : t # s => t \notin Bad
    <2>1. Bad \in SUBSET SUBSET S
        OBVIOUS
    <2> HIDE DEF Bad
    <2>2. QED BY <1>1, <2>1, SmallestSubset
<1>3. s \in SUBSET S /\ s # {} /\ \A x \in s : ~ \A y \in s : f[y] <= f[x]
    BY <1>2
<1>4. PICK c \in s : TRUE
    BY <1>3
<1> DEFINE r == s \ {c}
<1>5. r \in SUBSET S /\ r \in SUBSET s /\ r # s
    BY <1>3, <1>4
<1>6. CASE r = {}
    <2>1. \A y \in s : y = c
        BY <1>6
    <2>2. f[c] \in Int
        BY <1>3, <1>4
    <2>3. \A y \in s : f[y] <= f[c]
        BY <2>1, <2>2
    <2>4. QED BY <1>3, <1>4, <2>3
<1>7. CASE r # {}
    <2>1. PICK m \in r : \A y \in r : f[y] <= f[m]
        BY <1>2, <1>5, <1>7
    <2>2. f[c] \in Int /\ f[m] \in Int /\ m \in s /\ \A y \in s : f[y] \in Int
        BY <1>3, <1>4, <1>5, <2>1
    <2>3. \A y \in s : y = c \/ f[y] <= f[m]
        BY <2>1
    <2>4. CASE f[c] <= f[m]
        BY <1>3, <2>2, <2>3, <2>4
    <2>5. CASE ~ (f[c] <= f[m])
        <3>1. \A y \in s : f[y] <= f[c]
            BY <2>2, <2>3, <2>5
        <3>2. QED BY <1>3, <1>4, <3>1
    <2>6. QED BY <2>4, <2>5
<1>8. QED BY <1>6, <1>7
=============================================================================
