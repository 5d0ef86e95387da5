--------------------------- MODULE AggregationProofs ---------------------------
(***************************************************************************)
(* Proofs about the arithmetic of the round buffer, for any number of      *)
(* clients, any tensors, sizes, noise and configurations.                  *)
(***************************************************************************)
EXTENDS Aggregation, FiniteSetTheorems, WellFoundedInduction, TLAPS

-----------------------------------------------------------------------------
(* Induction, as a property of a set: every member but the least has a     *)
(* smaller one.                                                            *)

LEMMA LeastNumber ==
    ASSUME NEW T, T \subseteq Nat, T # {}
    PROVE  \E x \in T : \A y \in T : x <= y
<1> DEFINE R == {ss \in Nat \X Nat : ss[1] < ss[2]}
<1>1. IsWellFoundedOn(R, Nat)
    BY NatLessThanWellFounded, Zenon DEF OpToRel
<1>2. \A x, y \in Nat : y < x => <<y, x>> \in R
    OBVIOUS
<1> HIDE DEF R
<1>3. PICK x \in T : \A y \in T : ~ (<<y, x>> \in R)
    BY <1>1, WFMin
<1>4. \A y \in T : x <= y
    <2> TAKE y \in T
    <2>1. x \in Nat /\ y \in Nat /\ ~(y < x)
        BY <1>2, <1>3
    <2> QED
        BY <2>1
<1> QED
    BY <1>4

LEMMA InductionOnNumbers ==
    ASSUME NEW T, 0 \in T, \A n \in Nat : n \in T => n + 1 \in T
    PROVE  Nat \subseteq T
<1> DEFINE U == Nat \ T
<1> SUFFICES ASSUME U # {}
             PROVE  FALSE
    OBVIOUS
<1>1. PICK n \in U : \A m \in U : n <= m
    BY LeastNumber
<1>2. n \in Nat /\ n # 0
    BY <1>1
<1>3. n - 1 \in Nat /\ n - 1 \notin U /\ (n - 1) + 1 = n
    BY <1>1, <1>2
<1> QED
    BY <1>1, <1>3

Pick(s) == CHOOSE x \in s : TRUE

LEMMA PickIsIn == \A s : s # {} => Pick(s) \in s
BY DEF Pick

(* Sets are built up in the order in which a fold takes them apart. *)
LEMMA InductionOnSubsets ==
    ASSUME NEW S, IsFiniteSet(S), NEW T, {} \in T,
           \A s \in SUBSET S : s # {} /\ s \ {Pick(s)} \in T => s \in T
    PROVE  SUBSET S \subseteq T
<1> DEFINE U == (SUBSET S) \ T
<1> SUFFICES ASSUME U # {}
             PROVE  FALSE
    OBVIOUS
<1>1. IsWellFoundedOn(StrictSubsetOrdering(S), SUBSET S)
    BY FS_StrictSubsetOrderingWellFounded, FS_FiniteSubsetsOfFinite
<1>2. PICK s \in U : \A t \in U : ~ (<<t, s>> \in StrictSubsetOrdering(S))
    BY <1>1, WFMin
<1>3. s \in SUBSET S /\ s # {} /\ Pick(s) \in s
    BY <1>2, PickIsIn
<1> DEFINE t == s \ {Pick(s)}
<1>4. t \in SUBSET S /\ t \subseteq s /\ t # s
    BY <1>3
<1> HIDE DEF t
<1>5. <<t, s>> \in StrictSubsetOrdering(S)
    BY <1>3, <1>4 DEF StrictSubsetOrdering
<1>6. t \in T
    BY <1>2, <1>4, <1>5
<1> QED
    BY <1>2, <1>3, <1>6 DEF t

-----------------------------------------------------------------------------
(* Sums over finite sets *)

(* g maps each subset of S to the sum of f over it. *)
Sums(g, f, S) ==
    /\ g[{}] = 0
    /\ \A s \in SUBSET S : s # {} => g[s] = f[Pick(s)] + g[s \ {Pick(s)}]

(* What the library's fold recurses with. *)
IsFold(g, f, S) ==
    g = [s \in SUBSET S |-> IF s = {} THEN 0 ELSE f[Pick(s)] + g[s \ {Pick(s)}]]

LEMMA FoldExists ==
    ASSUME NEW S, IsFiniteSet(S), NEW f
    PROVE  \E g : IsFold(g, f, S)
<1> DEFINE Next1(g, s) == IF s = {} THEN 0 ELSE f[Pick(s)] + g[s \ {Pick(s)}]
           UpTo(g, n) == \A s \in SUBSET S : Cardinality(s) <= n => g[s] = Next1(g, s)
           T == {n \in Nat : \E g : g = [s \in SUBSET S |-> g[s]] /\ UpTo(g, n)}
<1>1. \A s \in SUBSET S : /\ Cardinality(s) \in Nat /\ Cardinality(s) <= Cardinality(S)
                          /\ (Cardinality(s) = 0 <=> s = {})
                          /\ s # {} => /\ s \ {Pick(s)} \in SUBSET S
                                       /\ Cardinality(s \ {Pick(s)}) = Cardinality(s) - 1
    <2> TAKE s \in SUBSET S
    <2>1. IsFiniteSet(s) /\ Cardinality(s) \in Nat /\ Cardinality(s) <= Cardinality(S)
        BY FS_Subset, FS_CardinalityType
    <2>2. s # {} => Cardinality(s \ {Pick(s)}) = Cardinality(s) - 1
        BY <2>1, PickIsIn, FS_RemoveElement
    <2> QED
        BY <2>1, <2>2, FS_EmptySet
<1>2. 0 \in T
    <2> DEFINE g == [s \in SUBSET S |-> 0]
    <2>1. \A s \in SUBSET S : Cardinality(s) <= 0 => s = {}
        <3> TAKE s \in SUBSET S
        <3>1. Cardinality(s) \in Nat /\ (Cardinality(s) = 0 <=> s = {})
            BY <1>1, Zenon
        <3> QED
            BY <3>1
    <2>2. UpTo(g, 0)
        BY <2>1
    <2> QED
        BY <2>2
<1>3. ASSUME NEW n \in Nat, n \in T
      PROVE  n + 1 \in T
    <2>1. PICK g : g = [s \in SUBSET S |-> g[s]] /\ UpTo(g, n)
        BY <1>3
    <2> DEFINE h == [s \in SUBSET S |-> IF Cardinality(s) <= n THEN g[s] ELSE Next1(g, s)]
    <2>2. \A s \in SUBSET S : Cardinality(s) <= n + 1 => h[s] = Next1(g, s)
        BY <2>1
    <2>3. \A s \in SUBSET S : Cardinality(s) <= n + 1 => Next1(g, s) = Next1(h, s)
        <3> SUFFICES ASSUME NEW s \in SUBSET S, Cardinality(s) <= n + 1, s # {}
                     PROVE  g[s \ {Pick(s)}] = h[s \ {Pick(s)}]
            OBVIOUS
        <3> DEFINE t == s \ {Pick(s)}
        <3>1. /\ Cardinality(s) \in Nat
              /\ s \ {Pick(s)} \in SUBSET S
              /\ Cardinality(s \ {Pick(s)}) = Cardinality(s) - 1
            BY <1>1, Zenon
        <3>2. t \in SUBSET S /\ Cardinality(t) <= n
            BY <3>1
        <3> HIDE DEF t
        <3>3. g[t] = h[t]
            BY <3>2
        <3> QED
            BY <3>3 DEF t
    <2>4. h = [s \in SUBSET S |-> h[s]] /\ UpTo(h, n + 1)
        BY <2>2, <2>3
    <2> HIDE DEF h, UpTo
    <2> QED
        BY <2>4
<1>4. Cardinality(S) \in T
    <2>1. Cardinality(S) \in Nat
        BY FS_CardinalityType
    <2> HIDE DEF T
    <2> QED
        BY <1>2, <1>3, <2>1, InductionOnNumbers
<1>5. PICK g : g = [s \in SUBSET S |-> g[s]] /\ UpTo(g, Cardinality(S))
    BY <1>4
<1>6. \A s \in SUBSET S : g[s] = Next1(g, s)
    BY <1>1, <1>5
<1>7. IsFold(g, f, S)
    BY <1>5, <1>6, Zenon DEF IsFold
<1> QED
    BY <1>7

LEMMA FoldSums ==
    ASSUME NEW S, NEW f, NEW g, IsFold(g, f, S)
    PROVE  Sums(g, f, S)
<1>1. \A s \in SUBSET S : g[s] = IF s = {} THEN 0 ELSE f[Pick(s)] + g[s \ {Pick(s)}]
    BY Zenon DEF IsFold
<1> QED
    BY <1>1 DEF Sums

LEMMA SumsExist ==
    ASSUME NEW S, IsFiniteSet(S), NEW f
    PROVE  \E g : Sums(g, f, S)
BY FoldExists, FoldSums

(* The sums the model takes are sums in this sense. *)
SizesOf(w) == [c \in DOMAIN w |-> w[c].size]
ProductsOf(w) == [c \in DOMAIN w |-> w[c].value * w[c].size]
NthsOf(f, P) == [p \in P |-> Nth(f, p)]
SumOfNths(f, P) == MapThenSumSet(LAMBDA p : Nth(f, p), P)

LEMMA SumOfSizes ==
    ASSUME NEW w, IsFiniteSet(DOMAIN w)
    PROVE  \E g : /\ Sums(g, SizesOf(w), DOMAIN w)
                  /\ TotalSize(w) = g[DOMAIN w]
<1> DEFINE S == DOMAIN w
           f == [c \in S |-> w[c].size]
           Rec(g) == g = [s \in SUBSET S |-> IF s = {} THEN 0
                                              ELSE LET x == CHOOSE x \in s : TRUE
                                                   IN w[x].size + g[s \ {x}]]
           iter == CHOOSE g : Rec(g)
<1>0. IsFiniteSet(S)
    OBVIOUS
<1>1. f = SizesOf(w)
    BY DEF SizesOf
<1> HIDE DEF S
<1>2. \A g : IsFold(g, f, S) <=> Rec(g)
    BY PickIsIn DEF IsFold, Pick
<1>3. Sums(iter, f, S)
    <2>1. \E g : IsFold(g, f, S)
        BY <1>0, FoldExists, Zenon
    <2> HIDE DEF Rec
    <2>2. IsFold(iter, f, S)
        BY <1>2, <2>1
    <2> QED
        BY <2>2, FoldSums, Zenon
<1>4. MapThenSumSet(LAMBDA c : w[c].size, S) = iter[S]
    BY DEF MapThenSumSet, MapThenFoldSet
<1>5. TotalSize(w) = iter[S]
    BY <1>4 DEF S, TotalSize
<1> HIDE DEF f, iter
<1> QED
    BY <1>1, <1>3, <1>5 DEF S

LEMMA SumOfValues ==
    ASSUME NEW w, IsFiniteSet(DOMAIN w)
    PROVE  \E g : /\ Sums(g, ValuesOf(w), DOMAIN w)
                  /\ Mean(w) = Ratio(g[DOMAIN w], Cardinality(DOMAIN w))
<1> DEFINE S == DOMAIN w
           f == [c \in S |-> w[c].value]
           Rec(g) == g = [s \in SUBSET S |-> IF s = {} THEN 0
                                              ELSE LET x == CHOOSE x \in s : TRUE
                                                   IN w[x].value + g[s \ {x}]]
           iter == CHOOSE g : Rec(g)
<1>0. IsFiniteSet(S)
    OBVIOUS
<1>1. f = ValuesOf(w)
    BY DEF ValuesOf
<1> HIDE DEF S
<1>2. \A g : IsFold(g, f, S) <=> Rec(g)
    BY PickIsIn DEF IsFold, Pick
<1>3. Sums(iter, f, S)
    <2>1. \E g : IsFold(g, f, S)
        BY <1>0, FoldExists, Zenon
    <2> HIDE DEF Rec
    <2>2. IsFold(iter, f, S)
        BY <1>2, <2>1
    <2> QED
        BY <2>2, FoldSums, Zenon
<1>4. MapThenSumSet(LAMBDA c : w[c].value, S) = iter[S]
    BY DEF MapThenSumSet, MapThenFoldSet
<1>5. Mean(w) = Ratio(iter[S], Cardinality(S))
    BY <1>4 DEF S, Mean
<1> HIDE DEF f, iter
<1> QED
    BY <1>1, <1>3, <1>5 DEF S

LEMMA SumOfProducts ==
    ASSUME NEW w, IsFiniteSet(DOMAIN w)
    PROVE  \E g : /\ Sums(g, ProductsOf(w), DOMAIN w)
                  /\ Int32(TotalSize(w)) > 0 =>
                         AggFedAvg(w) = Ratio(g[DOMAIN w], Int32(TotalSize(w)))
<1> DEFINE S == DOMAIN w
           f == [c \in S |-> w[c].value * w[c].size]
           Rec(g) == g = [s \in SUBSET S |-> IF s = {} THEN 0
                                              ELSE LET x == CHOOSE x \in s : TRUE
                                                   IN (w[x].value * w[x].size) + g[s \ {x}]]
           iter == CHOOSE g : Rec(g)
<1>0. IsFiniteSet(S)
    OBVIOUS
<1>1. f = ProductsOf(w)
    BY DEF ProductsOf
<1> HIDE DEF S
<1>2. \A g : IsFold(g, f, S) <=> Rec(g)
    BY PickIsIn DEF IsFold, Pick
<1>3. Sums(iter, f, S)
    <2>1. \E g : IsFold(g, f, S)
        BY <1>0, FoldExists, Zenon
    <2> HIDE DEF Rec
    <2>2. IsFold(iter, f, S)
        BY <1>2, <2>1
    <2> QED
        BY <2>2, FoldSums, Zenon
<1>4. MapThenSumSet(LAMBDA c : w[c].value * w[c].size, S) = iter[S]
    BY DEF MapThenSumSet, MapThenFoldSet
<1>5. Int32(TotalSize(w)) > 0 =>
                         AggFedAvg(w) = Ratio(iter[S], Int32(TotalSize(w)))
    BY <1>4 DEF S, AggFedAvg
<1> HIDE DEF f, iter
<1> QED
    BY <1>1, <1>3, <1>5 DEF S

LEMMA SumOfNthsIsSum ==
    ASSUME NEW P, NEW v, IsFiniteSet(P)
    PROVE  \E g : /\ Sums(g, NthsOf(v, P), P)
                  /\ SumOfNths(v, P) = g[P]
<1> DEFINE f == [p \in P |-> Nth(v, p)]
           Rec(g) == g = [s \in SUBSET P |-> IF s = {} THEN 0
                                              ELSE LET x == CHOOSE x \in s : TRUE
                                                   IN Nth(v, x) + g[s \ {x}]]
           iter == CHOOSE g : Rec(g)
<1>1. f = NthsOf(v, P)
    BY DEF NthsOf
<1>2. \A g : IsFold(g, f, P) <=> Rec(g)
    BY PickIsIn DEF IsFold, Pick
<1>3. Sums(iter, f, P)
    <2>1. \E g : IsFold(g, f, P)
        BY FoldExists, Zenon
    <2> HIDE DEF Rec
    <2>2. IsFold(iter, f, P)
        BY <1>2, <2>1
    <2> QED
        BY <2>2, FoldSums, Zenon
<1>4. MapThenSumSet(LAMBDA p : Nth(v, p), P) = iter[P]
    BY DEF MapThenSumSet, MapThenFoldSet
<1>5. SumOfNths(v, P) = iter[P]
    BY <1>4 DEF SumOfNths
<1> HIDE DEF f, iter
<1> QED
    BY <1>1, <1>3, <1>5

LEMMA SumType ==
    ASSUME NEW S, IsFiniteSet(S), NEW f \in [S -> Int], NEW g, Sums(g, f, S)
    PROVE  g[S] \in Int
<1> DEFINE T == {s \in SUBSET S : g[s] \in Int}
<1>1. {} \in T
    BY DEF Sums
<1>2. ASSUME NEW s \in SUBSET S, s # {}, s \ {Pick(s)} \in T
      PROVE  s \in T
    BY <1>2, PickIsIn DEF Sums
<1> HIDE DEF T
<1>3. S \in T
    BY <1>1, <1>2, InductionOnSubsets
<1> QED
    BY <1>3 DEF T

(* If every term of one sum is at most m times that of another, so is the  *)
(* sum; likewise from below.                                               *)
LEMMA SumAtMostMultiple ==
    ASSUME NEW S, IsFiniteSet(S), NEW f \in [S -> Int], NEW h \in [S -> Int], NEW m \in Int,
           NEW gf, Sums(gf, f, S), NEW gh, Sums(gh, h, S),
           \A c \in S : f[c] <= m * h[c]
    PROVE  gf[S] <= m * gh[S]
<1> DEFINE T == {s \in SUBSET S : gf[s] \in Int /\ gh[s] \in Int /\ gf[s] <= m * gh[s]}
<1>1. {} \in T
    BY DEF Sums
<1>2. ASSUME NEW s \in SUBSET S, s # {}, s \ {Pick(s)} \in T
      PROVE  s \in T
    <2> DEFINE a == f[Pick(s)]
               b == h[Pick(s)]
               x == gf[s \ {Pick(s)}]
               y == gh[s \ {Pick(s)}]
    <2>1. a \in Int /\ b \in Int /\ a <= m * b
        BY <1>2, PickIsIn
    <2>2. x \in Int /\ y \in Int /\ x <= m * y
        BY <1>2
    <2>3. gf[s] = a + x /\ gh[s] = b + y
        BY <1>2 DEF Sums
    <2> HIDE DEF a, b, x, y
    <2>4. a + x <= m * (b + y)
        BY <2>1, <2>2
    <2> QED
        BY <2>1, <2>2, <2>3, <2>4
<1> HIDE DEF T
<1>3. S \in T
    BY <1>1, <1>2, InductionOnSubsets
<1> QED
    BY <1>3 DEF T

LEMMA SumAtLeastMultiple ==
    ASSUME NEW S, IsFiniteSet(S), NEW f \in [S -> Int], NEW h \in [S -> Int], NEW m \in Int,
           NEW gf, Sums(gf, f, S), NEW gh, Sums(gh, h, S),
           \A c \in S : m * h[c] <= f[c]
    PROVE  m * gh[S] <= gf[S]
<1> DEFINE T == {s \in SUBSET S : gf[s] \in Int /\ gh[s] \in Int /\ m * gh[s] <= gf[s]}
<1>1. {} \in T
    BY DEF Sums
<1>2. ASSUME NEW s \in SUBSET S, s # {}, s \ {Pick(s)} \in T
      PROVE  s \in T
    <2> DEFINE a == f[Pick(s)]
               b == h[Pick(s)]
               x == gf[s \ {Pick(s)}]
               y == gh[s \ {Pick(s)}]
    <2>1. a \in Int /\ b \in Int /\ m * b <= a
        BY <1>2, PickIsIn
    <2>2. x \in Int /\ y \in Int /\ m * y <= x
        BY <1>2
    <2>3. gf[s] = a + x /\ gh[s] = b + y
        BY <1>2 DEF Sums
    <2> HIDE DEF a, b, x, y
    <2>4. m * (b + y) <= a + x
        BY <2>1, <2>2
    <2> QED
        BY <2>1, <2>2, <2>3, <2>4
<1> HIDE DEF T
<1>3. S \in T
    BY <1>1, <1>2, InductionOnSubsets
<1> QED
    BY <1>3 DEF T

(* The sum of ones is the number of terms. *)
LEMMA SumOfOnes ==
    ASSUME NEW S, IsFiniteSet(S), NEW g, Sums(g, [c \in S |-> 1], S)
    PROVE  g[S] = Cardinality(S)
<1> DEFINE f == [c \in S |-> 1]
           T == {s \in SUBSET S : g[s] = Cardinality(s)}
<1> HIDE DEF f
<1>1. {} \in T
    BY FS_EmptySet DEF Sums
<1>2. ASSUME NEW s \in SUBSET S, s # {}, s \ {Pick(s)} \in T
      PROVE  s \in T
    <2>1. f[Pick(s)] = 1 /\ Pick(s) \in s
        BY <1>2, PickIsIn DEF f
    <2>2. /\ IsFiniteSet(s) /\ Cardinality(s) \in Nat
          /\ Cardinality(s \ {Pick(s)}) = Cardinality(s) - 1
        BY <1>2, <2>1, FS_Subset, FS_CardinalityType, FS_RemoveElement
    <2>3. g[s] = f[Pick(s)] + g[s \ {Pick(s)}]
        BY <1>2 DEF f, Sums
    <2>4. g[s \ {Pick(s)}] = Cardinality(s \ {Pick(s)})
        BY <1>2
    <2> QED
        BY <2>1, <2>2, <2>3, <2>4
<1> HIDE DEF T
<1>3. S \in T
    BY <1>1, <1>2, InductionOnSubsets
<1> QED
    BY <1>3 DEF T

(* So a sum lies between the number of its terms times the bounds of them. *)
LEMMA SumBetween ==
    ASSUME NEW S, IsFiniteSet(S), NEW f \in [S -> Int], NEW g, Sums(g, f, S),
           NEW lo \in Int, NEW hi \in Int, \A c \in S : lo <= f[c] /\ f[c] <= hi
    PROVE  lo * Cardinality(S) <= g[S] /\ g[S] <= hi * Cardinality(S)
<1> DEFINE one == [c \in S |-> 1]
<1>1. one \in [S -> Int]
    OBVIOUS
<1>2. \A c \in S : lo * one[c] <= f[c] /\ f[c] <= hi * one[c]
    OBVIOUS
<1>3. PICK h : Sums(h, one, S)
    BY <1>1, SumsExist, Zenon
<1>4. h[S] = Cardinality(S)
    BY <1>3, SumOfOnes, Zenon
<1> HIDE DEF one
<1>5. lo * h[S] <= g[S] /\ g[S] <= hi * h[S]
    BY <1>1, <1>2, <1>3, SumAtMostMultiple, SumAtLeastMultiple
<1> QED
    BY <1>4, <1>5

(* A sum of natural numbers is at least each of them. *)
LEMMA SumOfNaturals ==
    ASSUME NEW S, IsFiniteSet(S), NEW f \in [S -> Nat], NEW g, Sums(g, f, S)
    PROVE  g[S] \in Nat /\ \A c \in S : f[c] <= g[S]
<1> DEFINE T == {s \in SUBSET S : g[s] \in Nat /\ \A c \in s : f[c] <= g[s]}
<1>1. {} \in T
    BY DEF Sums
<1>2. ASSUME NEW s \in SUBSET S, s # {}, s \ {Pick(s)} \in T
      PROVE  s \in T
    <2> DEFINE t == s \ {Pick(s)}
    <2>1. f[Pick(s)] \in Nat /\ \A c \in s : c = Pick(s) \/ c \in t
        BY <1>2, PickIsIn
    <2>2. g[t] \in Nat /\ (\A c \in t : f[c] <= g[t]) /\ \A c \in t : f[c] \in Nat
        BY <1>2
    <2>3. g[s] = f[Pick(s)] + g[t]
        BY <1>2 DEF Sums
    <2> HIDE DEF t
    <2>4. g[s] \in Nat /\ \A c \in s : f[c] <= g[s]
        BY <2>1, <2>2, <2>3
    <2> QED
        BY <2>4
<1> HIDE DEF T
<1>3. S \in T
    BY <1>1, <1>2, InductionOnSubsets
<1> QED
    BY <1>3 DEF T

-----------------------------------------------------------------------------
(* Fractions *)

LEMMA GreatestNumber ==
    ASSUME NEW d \in Nat, NEW T, T \subseteq 0 .. d, T # {}
    PROVE  Max(T) \in T /\ \A y \in T : y <= Max(T)
<1> DEFINE U == {d - x : x \in T}
<1>1. U \subseteq Nat /\ U # {}
    <2>1. U \subseteq Nat
        OBVIOUS
    <2>2. PICK x \in T : TRUE
        OBVIOUS
    <2>3. d - x \in U
        OBVIOUS
    <2> HIDE DEF U
    <2> QED
        BY <2>1, <2>3
<1>2. PICK u \in U : \A v \in U : u <= v
    BY <1>1, LeastNumber
<1>3. PICK x \in T : u = d - x
    BY <1>2
<1>4. \A y \in T : x >= y
    <2> TAKE y \in T
    <2>1. d - y \in U
        OBVIOUS
    <2>2. x \in Int /\ y \in Int /\ d - x <= d - y
        BY <2>1, <1>2, <1>3
    <2> QED
        BY <2>2
<1>5. /\ Max(T) \in T
      /\ \A y \in T : Max(T) >= y
    BY <1>3, <1>4, Zenon DEF Max
<1> DEFINE m == Max(T)
<1> HIDE DEF m
<1>6. m \in T /\ \A y \in T : m >= y
    BY <1>5 DEF m
<1>7. m \in T /\ \A y \in T : y <= m
    BY <1>6
<1> QED
    BY <1>7 DEF m

LEMMA Scaling ==
    ASSUME NEW g \in Nat \ {0}, NEW x \in Int, NEW y \in Int
    PROVE  /\ g * x <= g * y <=> x <= y
           /\ g * x = g * y <=> x = y
OBVIOUS

LEMMA Division ==
    ASSUME NEW n \in Int, NEW g \in Nat \ {0}, n % g = 0
    PROVE  n \div g \in Int /\ n = g * (n \div g)
OBVIOUS

LEMMA RatioInLowestTerms ==
    ASSUME NEW n \in Int, NEW d \in Nat \ {0}
    PROVE  /\ Ratio(n, d) \in Fraction
           /\ \E g \in Nat \ {0} : n = g * Ratio(n, d).num /\ d = g * Ratio(n, d).den
<1> DEFINE T == {x \in 1 .. d : n % x = 0 /\ d % x = 0}
           g == Max(T)
<1>1. 1 \in T
    OBVIOUS
<1>2. g \in T
    <2>1. T \subseteq 0 .. d /\ T # {}
        BY <1>1
    <2> HIDE DEF T
    <2> QED
        BY <2>1, GreatestNumber
<1>3. g \in Nat \ {0} /\ n % g = 0 /\ d % g = 0
    BY <1>2
<1>4. Ratio(n, d) = [num |-> n \div g, den |-> d \div g]
    BY DEF Ratio
<1> HIDE DEF g
<1>5. n \div g \in Int /\ n = g * (n \div g)
    BY <1>3, Division
<1>6. d \div g \in Int /\ d = g * (d \div g)
    BY <1>3, Division
<1>7. d \div g \in Nat \ {0}
    BY <1>3, <1>6
<1> QED
    BY <1>3, <1>4, <1>5, <1>6, <1>7 DEF Fraction

(* So a quotient is compared by its numerator and denominator, reduced or  *)
(* not.                                                                    *)
LEMMA RatioAtMost ==
    ASSUME NEW n \in Int, NEW d \in Nat \ {0}, NEW q \in Fraction
    PROVE  /\ AtMost(Ratio(n, d), q) <=> n * q.den <= q.num * d
           /\ AtMost(q, Ratio(n, d)) <=> q.num * d <= n * q.den
<1> DEFINE r == Ratio(n, d)
           a == r.num
           b == r.den
           x == q.num
           y == q.den
<1>1. r \in Fraction
    BY RatioInLowestTerms, Zenon
<1>2. PICK g \in Nat \ {0} : n = g * a /\ d = g * b
    BY RatioInLowestTerms, Zenon
<1>3. a \in Int /\ b \in Nat \ {0} /\ x \in Int /\ y \in Nat \ {0}
    BY <1>1 DEF Fraction
<1>4. /\ AtMost(Ratio(n, d), q) <=> a * y <= x * b
      /\ AtMost(q, Ratio(n, d)) <=> x * b <= a * y
    BY DEF AtMost
<1> HIDE DEF r, a, b, x, y
<1>5. n * y = g * (a * y) /\ x * d = g * (x * b)
    BY <1>2, <1>3
<1>6. a * y \in Int /\ x * b \in Int
    BY <1>3
<1>7. /\ n * y <= x * d <=> a * y <= x * b
      /\ x * d <= n * y <=> x * b <= a * y
    BY <1>5, <1>6, Scaling
<1> QED
    BY <1>4, <1>7 DEF x, y

LEMMA RatioOrder ==
    ASSUME NEW n \in Int, NEW d \in Nat \ {0}, NEW k \in Int, NEW e \in Nat \ {0},
           n * e <= k * d
    PROVE  AtMost(Ratio(n, d), Ratio(k, e))
<1> DEFINE r == Ratio(k, e)
           a == r.num
           b == r.den
<1>1. r \in Fraction /\ a \in Int /\ b \in Nat \ {0}
    BY RatioInLowestTerms DEF Fraction
<1>2. PICK g \in Nat \ {0} : k = g * a /\ e = g * b
    BY RatioInLowestTerms, Zenon
<1> HIDE DEF r, a, b
<1>3. g * (n * b) <= g * (a * d)
    <2>1. n * e = g * (n * b) /\ k * d = g * (a * d)
        BY <1>1, <1>2
    <2> QED
        BY <2>1
<1>4. n * b <= a * d
    <2>1. n * b \in Int /\ a * d \in Int
        BY <1>1
    <2> QED
        BY <1>3, <2>1, Scaling
<1>5. n * r.den <= r.num * d
    BY <1>4 DEF a, b
<1> QED
    BY <1>1, <1>5, RatioAtMost DEF r

LEMMA AtMostTransitive ==
    ASSUME NEW p \in Fraction, NEW q \in Fraction, NEW r \in Fraction,
           AtMost(p, q), AtMost(q, r)
    PROVE  AtMost(p, r)
<1> DEFINE a == p.num
           b == p.den
           c == q.num
           d == q.den
           e == r.num
           f == r.den
<1>1. /\ a \in Int /\ c \in Int /\ e \in Int
      /\ b \in Nat \ {0} /\ d \in Nat \ {0} /\ f \in Nat \ {0}
    BY DEF Fraction
<1>2. a * d <= c * b /\ c * f <= e * d
    BY DEF AtMost
<1> HIDE DEF a, b, c, d, e, f
<1>3. f * (a * d) <= f * (c * b)
    BY <1>1, <1>2, Scaling
<1>4. b * (c * f) <= b * (e * d)
    BY <1>1, <1>2, Scaling
<1>5. f * (a * d) = d * (a * f) /\ f * (c * b) = b * (c * f) /\ b * (e * d) = d * (e * b)
    BY <1>1
<1>6. d * (a * f) <= d * (e * b)
    BY <1>1, <1>3, <1>4, <1>5
<1>7. a * f <= e * b
    BY <1>1, <1>6, Scaling
<1> QED
    BY <1>7 DEF AtMost, a, b, e, f

LEMMA ArithmeticType ==
    ASSUME NEW p \in Fraction, NEW q \in Fraction
    PROVE  /\ Plus(p, q) \in Fraction
           /\ Minus(p, q) \in Fraction
           /\ Times(p, q) \in Fraction
<1>1. /\ p.num \in Int /\ q.num \in Int
      /\ p.den \in Nat \ {0} /\ q.den \in Nat \ {0}
    BY DEF Fraction
<1>2. /\ p.num * q.den + q.num * p.den \in Int
      /\ p.num * q.den - q.num * p.den \in Int
      /\ p.num * q.num \in Int
      /\ p.den * q.den \in Nat \ {0}
    BY <1>1
<1> QED
    BY <1>2, RatioInLowestTerms DEF Plus, Minus, Times

LEMMA WholeType ==
    ASSUME NEW n \in Int
    PROVE  Whole(n) \in Fraction
BY DEF Whole, Fraction

LEMMA PlusMonotone ==
    ASSUME NEW p \in Fraction, NEW q \in Fraction, NEW r \in Fraction, NEW s \in Fraction,
           AtMost(p, r), AtMost(q, s)
    PROVE  AtMost(Plus(p, q), Plus(r, s))
<1> DEFINE a == p.num  b == p.den  c == q.num  d == q.den
           e == r.num  f == r.den  g == s.num  h == s.den
<1>1. /\ a \in Int /\ c \in Int /\ e \in Int /\ g \in Int
      /\ b \in Nat \ {0} /\ d \in Nat \ {0} /\ f \in Nat \ {0} /\ h \in Nat \ {0}
    BY DEF Fraction
<1>2. a * f <= e * b /\ c * h <= g * d
    BY DEF AtMost
<1>3. /\ Plus(p, q) = Ratio(a * d + c * b, b * d)
      /\ Plus(r, s) = Ratio(e * h + g * f, f * h)
    BY DEF Plus
<1> HIDE DEF a, b, c, d, e, f, g, h
<1>4. d * h \in Nat \ {0} /\ b * f \in Nat \ {0} /\ b * d \in Nat \ {0} /\ f * h \in Nat \ {0}
    BY <1>1
<1>5. (d * h) * (a * f) <= (d * h) * (e * b) /\ (b * f) * (c * h) <= (b * f) * (g * d)
    <2>1. a * f \in Int /\ e * b \in Int /\ c * h \in Int /\ g * d \in Int
        BY <1>1
    <2> QED
        BY <1>2, <1>4, <2>1, Scaling
<1>6. /\ (a * d + c * b) * (f * h) = (d * h) * (a * f) + (b * f) * (c * h)
      /\ (e * h + g * f) * (b * d) = (d * h) * (e * b) + (b * f) * (g * d)
    BY <1>1
<1>7. (a * d + c * b) * (f * h) <= (e * h + g * f) * (b * d)
    BY <1>1, <1>5, <1>6
<1> DEFINE n == a * d + c * b  k == e * h + g * f  x == b * d  y == f * h
<1>8. n \in Int /\ k \in Int /\ x \in Nat \ {0} /\ y \in Nat \ {0} /\ n * y <= k * x
    BY <1>1, <1>4, <1>7
<1> HIDE DEF n, k, x, y
<1>9. AtMost(Ratio(n, x), Ratio(k, y))
    BY <1>8, RatioOrder
<1> QED
    BY <1>3, <1>9 DEF n, k, x, y

LEMMA TimesMonotone ==
    ASSUME NEW m \in Fraction, m.num >= 0, NEW p \in Fraction, NEW q \in Fraction,
           AtMost(p, q)
    PROVE  AtMost(Times(m, p), Times(m, q))
<1> DEFINE a == p.num  b == p.den  c == q.num  d == q.den  e == m.num  f == m.den
<1>1. /\ a \in Int /\ c \in Int /\ e \in Nat
      /\ b \in Nat \ {0} /\ d \in Nat \ {0} /\ f \in Nat \ {0}
    BY DEF Fraction
<1>2. a * d <= c * b
    BY DEF AtMost
<1>3. Times(m, p) = Ratio(e * a, f * b) /\ Times(m, q) = Ratio(e * c, f * d)
    BY DEF Times
<1> HIDE DEF a, b, c, d, e, f
<1>4. e * f \in Nat /\ a * d \in Int /\ c * b \in Int
    BY <1>1
<1>5. (e * f) * (a * d) <= (e * f) * (c * b)
    BY <1>2, <1>4, Scaling
<1>6. (e * a) * (f * d) = (e * f) * (a * d) /\ (e * c) * (f * b) = (e * f) * (c * b)
    BY <1>1
<1> DEFINE n == e * a  k == e * c  x == f * b  y == f * d
<1>7. n \in Int /\ k \in Int /\ x \in Nat \ {0} /\ y \in Nat \ {0} /\ n * y <= k * x
    BY <1>1, <1>5, <1>6
<1> HIDE DEF n, k, x, y
<1>8. AtMost(Ratio(n, x), Ratio(k, y))
    BY <1>7, RatioOrder
<1> QED
    BY <1>3, <1>8 DEF n, k, x, y

LEMMA RatioAtMostWhole ==
    ASSUME NEW n \in Int, NEW d \in Nat \ {0}, NEW k \in Int
    PROVE  /\ AtMost(Ratio(n, d), Whole(k)) <=> n <= k * d
           /\ AtMost(Whole(k), Ratio(n, d)) <=> k * d <= n
<1>1. Whole(k) \in Fraction /\ Whole(k).num = k /\ Whole(k).den = 1
    BY WholeType DEF Whole
<1>2. n * 1 = n
    OBVIOUS
<1> QED
    BY <1>1, <1>2, RatioAtMost

LEMMA MinusMonotone ==
    ASSUME NEW p \in Fraction, NEW q \in Fraction, NEW k \in Int, NEW e \in Int
    PROVE  /\ AtMost(p, Whole(k)) /\ AtMost(Whole(e), q) => AtMost(Minus(p, q), Whole(k - e))
           /\ AtMost(Whole(k), p) /\ AtMost(q, Whole(e)) => AtMost(Whole(k - e), Minus(p, q))
<1> DEFINE a == p.num  b == p.den  c == q.num  d == q.den
<1>1. a \in Int /\ c \in Int /\ b \in Nat \ {0} /\ d \in Nat \ {0}
    BY DEF Fraction
<1>2. /\ AtMost(p, Whole(k)) <=> a * 1 <= k * b
      /\ AtMost(Whole(k), p) <=> k * b <= a * 1
      /\ AtMost(q, Whole(e)) <=> c * 1 <= e * d
      /\ AtMost(Whole(e), q) <=> e * d <= c * 1
    BY DEF AtMost, Whole
<1>3. Minus(p, q) = Ratio(a * d - c * b, b * d)
    BY DEF Minus
<1> HIDE DEF a, b, c, d
<1>4. a * d - c * b \in Int /\ b * d \in Nat \ {0} /\ k - e \in Int
    BY <1>1
<1>5. (k - e) * (b * d) = d * (k * b) - b * (e * d)
    BY <1>1
<1>6. /\ a * 1 <= k * b => d * a <= d * (k * b)
      /\ k * b <= a * 1 => d * (k * b) <= d * a
      /\ c * 1 <= e * d => b * c <= b * (e * d)
      /\ e * d <= c * 1 => b * (e * d) <= b * c
    <2>1. k * b \in Int /\ e * d \in Int /\ a * 1 = a /\ c * 1 = c
        BY <1>1
    <2> QED
        BY <1>1, <2>1, Scaling
<1>7. d * a = a * d /\ b * c = c * b
    BY <1>1
<1>8. /\ AtMost(p, Whole(k)) /\ AtMost(Whole(e), q) => a * d - c * b <= (k - e) * (b * d)
      /\ AtMost(Whole(k), p) /\ AtMost(q, Whole(e)) => (k - e) * (b * d) <= a * d - c * b
    <2>1. /\ d * (k * b) \in Int /\ b * (e * d) \in Int
          /\ a * d \in Int /\ c * b \in Int
        BY <1>1
    <2> QED
        BY <1>2, <1>5, <1>6, <1>7, <2>1
<1> QED
    BY <1>3, <1>4, <1>8, RatioAtMostWhole

(* c / (1 - m): what the series c + mc + mmc + ... tends to. *)
Limit(m, c) == Ratio(c * m.den, m.den - m.num)

LEMMA LimitIsLimit ==
    ASSUME NEW m \in Fraction, m.num >= 0, m.num < m.den, NEW c \in Int
    PROVE  /\ Limit(m, c) \in Fraction
           /\ Plus(Times(m, Limit(m, c)), Whole(c)) \in Fraction
           /\ AtMost(Plus(Times(m, Limit(m, c)), Whole(c)), Limit(m, c))
           /\ AtMost(Limit(m, c), Plus(Times(m, Limit(m, c)), Whole(c)))
<1> DEFINE l == Limit(m, c)
           a == m.num  b == m.den  x == l.num  y == l.den
           r == Times(m, l)
           u == r.num  v == r.den
<1>1. a \in Nat /\ b \in Nat \ {0} /\ b - a \in Nat \ {0} /\ c * b \in Int
    BY DEF Fraction
<1>2. l \in Fraction
    BY <1>1, RatioInLowestTerms DEF Limit
<1>3. PICK g \in Nat \ {0} : c * b = g * x /\ b - a = g * y
    BY <1>1, RatioInLowestTerms DEF Limit
<1>4. x \in Int /\ y \in Nat \ {0}
    BY <1>2 DEF Fraction
<1>5. r \in Fraction
    BY <1>2, ArithmeticType
<1>6. u \in Int /\ v \in Nat \ {0}
    BY <1>5 DEF Fraction
<1>7. r = Ratio(a * x, b * y)
    BY DEF Times
<1>8. a * x \in Int /\ b * y \in Nat \ {0}
    <2> HIDE DEF a, b, x, y
    <2> QED
        BY <1>1, <1>4
<1>9. PICK h \in Nat \ {0} : a * x = h * u /\ b * y = h * v
    <2> HIDE DEF a, b, x, y, r
    <2>1. \E h \in Nat \ {0} : a * x = h * Ratio(a * x, b * y).num
                            /\ b * y = h * Ratio(a * x, b * y).den
        BY <1>8, RatioInLowestTerms
    <2> QED
        BY <1>7, <2>1
<1>10. Plus(r, Whole(c)) = Ratio(u * 1 + c * v, v * 1)
    BY DEF Plus, Whole
<1> HIDE DEF l, r, a, b, x, y, u, v
<1>11. (u + c * v) * y = x * v
    <2>1. h * ((u + c * v) * y) = (a * x + c * (b * y)) * y
        <3>1. h * ((u + c * v) * y) = (h * u + c * (h * v)) * y
            BY <1>4, <1>6
        <3> QED
            BY <1>9, <3>1
    <2>2. c * (b * y) = x * (b - a)
        <3>1. c * (b * y) = (c * b) * y
            BY <1>1, <1>4
        <3>2. (g * x) * y = x * (g * y)
            BY <1>4
        <3> QED
            BY <1>3, <3>1, <3>2
    <2>3. (a * x + x * (b - a)) * y = x * (b * y)
        BY <1>1, <1>4
    <2>4. x * (h * v) = h * (x * v)
        BY <1>4, <1>6
    <2>5. h * ((u + c * v) * y) = h * (x * v)
        BY <1>9, <2>1, <2>2, <2>3, <2>4
    <2>6. (u + c * v) * y \in Int /\ x * v \in Int
        BY <1>4, <1>6
    <2> QED
        BY <2>5, <2>6, Scaling
<1>12. u * 1 + c * v \in Int /\ v * 1 \in Nat \ {0} /\ u * 1 = u /\ v * 1 = v
    BY <1>6
<1>13. /\ (u * 1 + c * v) * y <= x * (v * 1)
       /\ x * (v * 1) <= (u * 1 + c * v) * y
    <2>1. x * v \in Int
        BY <1>4, <1>6
    <2> QED
        BY <1>11, <1>12, <2>1
<1>14. AtMost(Plus(r, Whole(c)), l) /\ AtMost(l, Plus(r, Whole(c)))
    BY <1>2, <1>10, <1>12, <1>13, RatioAtMost DEF x, y
<1>15. Plus(r, Whole(c)) \in Fraction
    BY <1>5, ArithmeticType, WholeType
<1> QED
    BY <1>2, <1>14, <1>15 DEF l, r

LEMMA LimitTimesSlack ==
    ASSUME NEW m \in Fraction, m.num >= 0, m.num < m.den, NEW c \in Int
    PROVE  LET slack == Ratio(m.den - m.num, m.den) IN
           /\ slack \in Fraction /\ slack.num >= 0
           /\ AtMost(Times(slack, Limit(m, c)), Whole(c))
           /\ AtMost(Whole(c), Times(slack, Limit(m, c)))
<1> DEFINE l == Limit(m, c)
           s == Ratio(m.den - m.num, m.den)
           a == m.num  b == m.den  x == l.num  y == l.den
           u == s.num  v == s.den
<1>1. a \in Nat /\ b \in Nat \ {0} /\ b - a \in Nat \ {0} /\ c * b \in Int
    BY DEF Fraction
<1>2. l \in Fraction /\ s \in Fraction
    BY <1>1, RatioInLowestTerms DEF Limit
<1>3. PICK g \in Nat \ {0} : c * b = g * x /\ b - a = g * y
    BY <1>1, RatioInLowestTerms DEF Limit
<1>4. PICK h \in Nat \ {0} : b - a = h * u /\ b = h * v
    BY <1>1, RatioInLowestTerms
<1>5. x \in Int /\ y \in Nat \ {0} /\ u \in Int /\ v \in Nat \ {0}
    BY <1>2 DEF Fraction
<1>6. Times(s, l) = Ratio(u * x, v * y)
    BY DEF Times
<1> HIDE DEF l, s, a, b, x, y, u, v
<1>7. u >= 0
    BY <1>1, <1>4, <1>5
<1>8. u * x = c * (v * y)
    <2>1. (g * h) * (u * x) = (b - a) * (c * b)
        <3>1. (g * h) * (u * x) = (h * u) * (g * x)
            BY <1>5
        <3> QED
            BY <1>3, <1>4, <3>1
    <2>2. (g * h) * (c * (v * y)) = c * ((h * v) * (g * y))
        BY <1>5
    <2>3. (b - a) * (c * b) = c * (b * (b - a))
        BY <1>1
    <2>4. (g * h) * (u * x) = (g * h) * (c * (v * y))
        BY <1>3, <1>4, <2>1, <2>2, <2>3
    <2>5. g * h \in Nat \ {0} /\ u * x \in Int /\ c * (v * y) \in Int
        BY <1>5
    <2> QED
        BY <2>4, <2>5, Scaling
<1>9. u * x \in Int /\ v * y \in Nat \ {0} /\ u * x <= c * (v * y) /\ c * (v * y) <= u * x
    BY <1>5, <1>8
<1>10. AtMost(Times(s, l), Whole(c)) /\ AtMost(Whole(c), Times(s, l))
    BY <1>6, <1>9, RatioAtMostWhole
<1> QED
    BY <1>2, <1>7, <1>10 DEF l, s, u

LEMMA TimesCommutes ==
    ASSUME NEW p \in Fraction, NEW q \in Fraction
    PROVE  Times(p, q) = Times(q, p)
<1>1. /\ p.num \in Int /\ q.num \in Int /\ p.den \in Int /\ q.den \in Int
    BY DEF Fraction
<1>2. p.num * q.num = q.num * p.num /\ p.den * q.den = q.den * p.den
    BY <1>1
<1> QED
    BY <1>2 DEF Times

-----------------------------------------------------------------------------
(* Order statistics *)

LEMMA ImageIsFinite ==
    ASSUME NEW D, IsFiniteSet(D), NEW f \in [D -> Int]
    PROVE  IsFiniteSet({f[x] : x \in D})
<1> DEFINE V == {f[x] : x \in D}
<1>1. f \in Surjection(D, V)
    BY DEF Surjection
<1> HIDE DEF V
<1>2. IsFiniteSet(V)
    BY <1>1, FS_Surjection
<1> QED
    BY <1>2 DEF V

LEMMA Extremes ==
    ASSUME NEW V, IsFiniteSet(V), V \subseteq Int, V # {}
    PROVE  /\ \E lo \in V : \A v \in V : lo <= v
           /\ \E hi \in V : \A v \in V : v <= hi
<1> DEFINE T == {s \in SUBSET V : s # {} => /\ \E lo \in s : \A v \in s : lo <= v
                                            /\ \E hi \in s : \A v \in s : v <= hi}
<1>1. {} \in T
    OBVIOUS
<1>2. ASSUME NEW s \in SUBSET V, s # {}, s \ {Pick(s)} \in T
      PROVE  s \in T
    <2> DEFINE x == Pick(s)
               t == s \ {x}
    <2>1. x \in s /\ x \in Int
        BY <1>2, PickIsIn
    <2>2. CASE t = {}
        <3>1. \A v \in s : v = x
            BY <2>2
        <3> QED
            BY <2>1, <3>1
    <2>3. CASE t # {}
        <3>1. /\ \E lo \in t : \A v \in t : lo <= v
              /\ \E hi \in t : \A v \in t : v <= hi
            BY <1>2, <2>3
        <3> HIDE DEF x
        <3>2. \E lo \in s : \A v \in s : lo <= v
            <4>1. PICK l \in t : \A v \in t : l <= v
                BY <3>1
            <4>2. l \in Int /\ \A v \in s : (v = x \/ v \in t) /\ v \in Int
                OBVIOUS
            <4>3. \A v \in s : l <= v \/ v = x
                BY <4>1, <4>2
            <4>4. CASE l <= x
                BY <4>2, <4>3, <4>4
            <4>5. CASE ~(l <= x)
                <5>1. \A v \in s : x <= v
                    BY <2>1, <4>2, <4>3, <4>5
                <5> QED
                    BY <2>1, <5>1
            <4> QED
                BY <4>4, <4>5
        <3>3. \E hi \in s : \A v \in s : v <= hi
            <4>1. PICK h \in t : \A v \in t : v <= h
                BY <3>1
            <4>2. h \in Int /\ \A v \in s : (v = x \/ v \in t) /\ v \in Int
                OBVIOUS
            <4>3. \A v \in s : v <= h \/ v = x
                BY <4>1, <4>2
            <4>4. CASE x <= h
                BY <4>2, <4>3, <4>4
            <4>5. CASE ~(x <= h)
                <5>1. \A v \in s : v <= x
                    BY <2>1, <4>2, <4>3, <4>5
                <5> QED
                    BY <2>1, <5>1
            <4> QED
                BY <4>4, <4>5
        <3> QED
            BY <3>2, <3>3
    <2> QED
        BY <2>2, <2>3
<1> HIDE DEF T
<1>3. V \in T
    BY <1>1, <1>2, InductionOnSubsets
<1> QED
    BY <1>3 DEF T

LEMMA SubsetIsFinite ==
    ASSUME NEW D, IsFiniteSet(D)
    PROVE  \A t \in SUBSET D : /\ IsFiniteSet(t) /\ Cardinality(t) \in Nat
                               /\ \A u \in SUBSET t : Cardinality(u) <= Cardinality(t)
<1> TAKE t \in SUBSET D
<1>1. IsFiniteSet(t)
    BY FS_Subset
<1> QED
    BY <1>1, FS_CardinalityType, FS_Subset

Below(f, v) == {x \in DOMAIN f : f[x] < v}
UpTo(f, v) == {x \in DOMAIN f : f[x] <= v}

(* The p-th smallest value is one: fewer than p terms are less, p or more  *)
(* are at most it.                                                         *)
LEMMA NthIsNth ==
    ASSUME NEW D, IsFiniteSet(D), NEW f \in [D -> Int], NEW p \in 1 .. Cardinality(D)
    PROVE  /\ Nth(f, p) \in Int
           /\ Cardinality(Below(f, Nth(f, p))) < p
           /\ p <= Cardinality(UpTo(f, Nth(f, p)))
<1> DEFINE V == {f[x] : x \in D}
           W == {v \in V : p <= Cardinality(UpTo(f, v))}
<1>1. IsFiniteSet(V) /\ V \subseteq Int
    BY ImageIsFinite
<1>2. DOMAIN f = D /\ (\A v : Below(f, v) \subseteq D /\ UpTo(f, v) \subseteq D)
    BY DEF Below, UpTo
<1>3. Cardinality(D) \in Nat
    BY FS_CardinalityType
<1>4. V # {}
    <2>1. D # {}
        BY <1>3, FS_EmptySet
    <2> QED
        BY <2>1
<1>5. W # {}
    <2>1. PICK h \in V : \A v \in V : v <= h
        BY <1>1, <1>4, Extremes
    <2>2. UpTo(f, h) = D
        BY <1>2, <2>1 DEF UpTo
    <2>3. h \in W
        BY <2>2, <1>3
    <2> QED
        BY <2>3
<1>6. PICK v \in W : \A u \in W : v <= u
    <2>1. IsFiniteSet(W) /\ W \subseteq Int
        BY <1>1, FS_Subset
    <2> HIDE DEF W
    <2> QED
        BY <1>5, <2>1, Extremes
<1>7. Cardinality(Below(f, v)) < p
    <2> SUFFICES ASSUME ~(Cardinality(Below(f, v)) < p)
                 PROVE  FALSE
        OBVIOUS
    <2> DEFINE B == {f[x] : x \in Below(f, v)}
    <2>1. IsFiniteSet(Below(f, v)) /\ Cardinality(Below(f, v)) \in Nat
        BY <1>2, SubsetIsFinite
    <2>2. p <= Cardinality(Below(f, v))
        BY <2>1
    <2>3. Below(f, v) # {}
        BY <2>1, <2>2, FS_EmptySet
    <2>4. B \subseteq V /\ B # {}
        BY <1>2, <2>3
    <2>5. IsFiniteSet(B) /\ B \subseteq Int
        BY <1>1, <2>4, FS_Subset
    <2>6. PICK u \in B : \A b \in B : b <= u
        <3> HIDE DEF B
        <3> QED
            BY <2>4, <2>5, Extremes
    <2>7. u \in V /\ u < v /\ u \in Int /\ v \in Int
        BY <1>1, <2>4 DEF Below
    <2>8. Below(f, v) \subseteq UpTo(f, u)
        BY <2>6 DEF Below, UpTo
    <2>9. Cardinality(Below(f, v)) <= Cardinality(UpTo(f, u)) /\ Cardinality(UpTo(f, u)) \in Nat
        BY <1>2, <2>8, SubsetIsFinite
    <2>10. u \in W
        BY <2>1, <2>2, <2>7, <2>9
    <2> QED
        BY <1>6, <2>7, <2>10
<1>8. /\ Nth(f, p) \in V
      /\ Cardinality(Below(f, Nth(f, p))) < p
      /\ p <= Cardinality(UpTo(f, Nth(f, p)))
    <2> DEFINE Q(u) == Cardinality(Below(f, u)) < p /\ p <= Cardinality(UpTo(f, u))
    <2>1. v \in V /\ Q(v)
        BY <1>6, <1>7
    <2>2. Nth(f, p) = CHOOSE u \in V : Q(u)
        BY <1>2 DEF Nth, Below, UpTo
    <2> HIDE DEF V, Q
    <2>3. Nth(f, p) \in V /\ Q(Nth(f, p))
        BY <2>1, <2>2
    <2> QED
        BY <2>3 DEF Q
<1> QED
    BY <1>1, <1>8

LEMMA NthAtMost ==
    ASSUME NEW D, IsFiniteSet(D), NEW f \in [D -> Int], NEW p \in 1 .. Cardinality(D),
           NEW S \in SUBSET D, p <= Cardinality(S), NEW hi \in Int, \A x \in S : f[x] <= hi
    PROVE  Nth(f, p) <= hi
<1> SUFFICES ASSUME ~(Nth(f, p) <= hi)
             PROVE  FALSE
    OBVIOUS
<1> DEFINE v == Nth(f, p)
<1>1. v \in Int /\ Cardinality(Below(f, v)) < p
    BY NthIsNth
<1>2. hi < v
    BY <1>1
<1> HIDE DEF v
<1>3. S \subseteq Below(f, v) /\ Below(f, v) \subseteq D
    <2>1. \A x \in S : f[x] \in Int /\ f[x] <= hi
        OBVIOUS
    <2> QED
        BY <1>1, <1>2, <2>1 DEF Below
<1>4. Cardinality(S) <= Cardinality(Below(f, v))
    BY <1>3, SubsetIsFinite
<1>5. Cardinality(S) \in Nat /\ Cardinality(Below(f, v)) \in Nat
    BY <1>3, SubsetIsFinite
<1> QED
    BY <1>1, <1>4, <1>5

LEMMA NthAtLeast ==
    ASSUME NEW D, IsFiniteSet(D), NEW f \in [D -> Int], NEW p \in 1 .. Cardinality(D),
           NEW B \in SUBSET D, Cardinality(B) < p, NEW lo \in Int,
           \A x \in D \ B : lo <= f[x]
    PROVE  lo <= Nth(f, p)
<1> SUFFICES ASSUME ~(lo <= Nth(f, p))
             PROVE  FALSE
    OBVIOUS
<1> DEFINE v == Nth(f, p)
<1>1. v \in Int /\ p <= Cardinality(UpTo(f, v))
    BY NthIsNth
<1>2. v < lo
    BY <1>1
<1> HIDE DEF v
<1>3. UpTo(f, v) \subseteq B
    <2>1. \A x \in D \ B : f[x] \in Int /\ lo <= f[x]
        OBVIOUS
    <2> QED
        BY <1>1, <1>2, <2>1 DEF UpTo
<1>4. Cardinality(UpTo(f, v)) <= Cardinality(B)
    BY <1>3, SubsetIsFinite
<1>5. Cardinality(B) \in Nat /\ Cardinality(UpTo(f, v)) \in Nat
    BY <1>3, SubsetIsFinite
<1> QED
    BY <1>1, <1>4, <1>5

-----------------------------------------------------------------------------
(* Aggregates *)

(* What a round hands to the aggregation. *)
Entries(w) ==
    /\ IsFiniteSet(DOMAIN w)
    /\ DOMAIN w \subseteq Clients
    /\ \A c \in DOMAIN w : w[c] \in [value : -config.clip .. config.clip, size : Sizes]

LEMMA ConfigType ==
    ASSUME config \in Configs
    PROVE  /\ config.strategy \in {"fedavg", "krum", "trimmed_mean"}
           /\ config.required \in Nat \ {0} /\ config.clip \in Nat \ {0}
           /\ config.beta.num \in Nat /\ config.beta.den \in Nat \ {0}
           /\ 2 * config.beta.num < config.beta.den
           /\ config.momentum \in Fraction /\ config.momentum.num >= 0
           /\ config.clip < Overflow
<1>1. config \in [strategy : {"fedavg", "krum", "trimmed_mean"},
                  required : Nat \ {0}, clip : Nat \ {0}, beta : Fraction,
                  momentum : Fraction]
    BY AggregationAssumption
<1>2. /\ config.beta.num >= 0 /\ 2 * config.beta.num < config.beta.den
      /\ config.momentum.num >= 0
      /\ config.clip < Overflow
    BY AggregationAssumption
<1>3. config.beta \in Fraction
    BY <1>1
<1> QED
    BY <1>1, <1>2, <1>3 DEF Fraction

LEMMA EntriesType ==
    ASSUME config \in Configs, NEW w, Entries(w)
    PROVE  \A c \in DOMAIN w : /\ w[c].value \in Int /\ w[c].size \in Nat \ {0}
                               /\ -config.clip <= w[c].value /\ w[c].value <= config.clip
<1> TAKE c \in DOMAIN w
<1>1. /\ w[c].value \in -config.clip .. config.clip
      /\ w[c].size \in Sizes
    BY DEF Entries
<1>2. w[c].size \in 1 .. IntSize \div 2 - 1 /\ IntSize \div 2 \in Int
    BY <1>1, AggregationAssumption
<1>3. config.clip \in Nat
    BY ConfigType
<1> QED
    BY <1>1, <1>2, <1>3

(* The clients whose values are the least and the greatest. *)
LEMMA Outermost ==
    ASSUME config \in Configs, NEW w, Entries(w), NEW S \in SUBSET DOMAIN w, S # {}
    PROVE  \E c, d \in S : \A e \in S : w[c].value <= w[e].value /\ w[e].value <= w[d].value
<1> DEFINE f == [c \in S |-> w[c].value]
           V == {f[c] : c \in S}
<1>1. f \in [S -> Int] /\ IsFiniteSet(S)
    BY EntriesType, FS_Subset DEF Entries
<1> HIDE DEF f
<1>2. IsFiniteSet(V) /\ V \subseteq Int /\ V # {}
    BY <1>1, ImageIsFinite
<1> HIDE DEF V
<1>3. /\ \E lo \in V : \A v \in V : lo <= v
      /\ \E hi \in V : \A v \in V : v <= hi
    BY <1>2, Extremes
<1>4. PICK c \in S : \A v \in V : f[c] <= v
    BY <1>3 DEF V
<1>5. PICK d \in S : \A v \in V : v <= f[d]
    BY <1>3 DEF V
<1>6. \A e \in S : f[c] <= f[e] /\ f[e] <= f[d]
    BY <1>4, <1>5 DEF V
<1> QED
    BY <1>6 DEF f

LEMMA FloorDivision ==
    ASSUME NEW x \in Nat, NEW b \in Nat \ {0}
    PROVE  x \div b \in Nat /\ b * (x \div b) <= x
OBVIOUS

(* As beta < 1/2, trimming leaves something. *)
LEMMA TrimLeavesSome ==
    ASSUME config \in Configs, NEW n \in Nat \ {0}
    PROVE  TrimCount(n) \in Nat /\ 2 * TrimCount(n) < n
<1> DEFINE a == config.beta.num
           b == config.beta.den
           t == (a * n) \div b
<1>1. a \in Nat /\ b \in Nat \ {0} /\ 2 * a < b
    BY ConfigType
<1>2. t = TrimCount(n)
    BY DEF TrimCount
<1> HIDE DEF a, b
<1>3. a * n \in Nat
    BY <1>1
<1>4. t \in Nat /\ b * t <= a * n
    BY <1>1, <1>3, FloorDivision
<1> HIDE DEF t
<1>5. b * (2 * t) <= n * (2 * a)
    <2>1. b * (2 * t) = 2 * (b * t) /\ n * (2 * a) = 2 * (a * n) /\ b * t \in Int
        BY <1>1, <1>4
    <2> QED
        BY <1>3, <1>4, <2>1
<1>6. n * (2 * a) < b * n
    <2>1. n * (2 * a) <= n * (b - 1)
        BY <1>1, Scaling
    <2>2. n * (b - 1) = b * n - n /\ b * n \in Int /\ n * (2 * a) \in Int
        BY <1>1
    <2> QED
        BY <2>1, <2>2
<1>7. ~(b * n <= b * (2 * t))
    <2>1. b * (2 * t) \in Int /\ n * (2 * a) \in Int /\ b * n \in Int
        BY <1>1, <1>4
    <2> QED
        BY <1>5, <1>6, <2>1
<1>8. ~(n <= 2 * t)
    BY <1>1, <1>4, <1>7, Scaling
<1> QED
    BY <1>2, <1>4, <1>8

(* The mean of integers is between bounds of them. *)
LEMMA AverageBetween ==
    ASSUME NEW P, IsFiniteSet(P), P # {}, NEW f \in [P -> Int], NEW g, Sums(g, f, P),
           NEW lo \in Int, NEW hi \in Int, \A p \in P : lo <= f[p] /\ f[p] <= hi
    PROVE  LET a == Ratio(g[P], Cardinality(P)) IN
           a \in Fraction /\ AtMost(Whole(lo), a) /\ AtMost(a, Whole(hi))
<1>1. g[P] \in Int
    BY SumType
<1>2. Cardinality(P) \in Nat \ {0}
    BY FS_CardinalityType, FS_EmptySet
<1>3. lo * Cardinality(P) <= g[P] /\ g[P] <= hi * Cardinality(P)
    BY SumBetween
<1> QED
    BY <1>1, <1>2, <1>3, RatioInLowestTerms, RatioAtMostWhole

LEMMA MeanBetween ==
    ASSUME config \in Configs, NEW w, Entries(w), DOMAIN w # {}
    PROVE  Mean(w) \in Fraction /\ Between(Mean(w), w, DOMAIN w)
<1> DEFINE S == DOMAIN w
           f == ValuesOf(w)
<1>1. PICK c, d \in S : \A e \in S : w[c].value <= w[e].value /\ w[e].value <= w[d].value
    BY Outermost
<1>2. PICK g : Sums(g, f, S) /\ Mean(w) = Ratio(g[S], Cardinality(S))
    BY SumOfValues DEF Entries
<1>3. f \in [S -> Int] /\ w[c].value \in Int /\ w[d].value \in Int /\ IsFiniteSet(S)
    BY EntriesType DEF Entries, ValuesOf
<1>4. \A e \in S : w[c].value <= f[e] /\ f[e] <= w[d].value
    BY <1>1 DEF ValuesOf
<1> HIDE DEF f, S
<1>5. /\ Mean(w) \in Fraction
      /\ AtMost(Whole(w[c].value), Mean(w)) /\ AtMost(Mean(w), Whole(w[d].value))
    BY <1>2, <1>3, <1>4, AverageBetween DEF S
<1> QED
    BY <1>5 DEF Between, S

LEMMA TotalSizeType ==
    ASSUME config \in Configs, NEW w, Entries(w)
    PROVE  TotalSize(w) \in Nat /\ (DOMAIN w # {} => TotalSize(w) > 0)
<1> DEFINE S == DOMAIN w
           f == SizesOf(w)
<1>0. IsFiniteSet(S)
    BY DEF Entries
<1>1. PICK g : Sums(g, f, S) /\ TotalSize(w) = g[S]
    BY <1>0, SumOfSizes
<1>2. f \in [S -> Nat] /\ IsFiniteSet(S) /\ \A c \in S : f[c] > 0
    BY EntriesType DEF Entries, SizesOf
<1> HIDE DEF f
<1>4. g[S] \in Nat /\ \A c \in S : f[c] <= g[S]
    BY <1>1, <1>2, SumOfNaturals
<1>5. ASSUME NEW c \in S
      PROVE  g[S] > 0
    BY <1>2, <1>4
<1> QED
    BY <1>1, <1>4, <1>5

(* An int that does not overflow is itself. *)
LEMMA Int32Exact ==
    ASSUME NEW n \in Nat, n < IntSize \div 2
    PROVE  Int32(n) = n
<1> DEFINE h == IntSize \div 2
<1>1. IntSize \in Nat /\ h \in Int /\ 2 * h <= IntSize
    BY AggregationAssumption
<1>2. Int32(n) = ((n + h) % IntSize) - h
    BY DEF Int32
<1>3. n + h \in 0 .. IntSize - 1 /\ n < h
    BY <1>1
<1> HIDE DEF h
<1>4. (n + h) % IntSize = n + h
    BY <1>1, <1>3
<1> QED
    BY <1>1, <1>2, <1>4

LEMMA Int32Type ==
    ASSUME NEW n \in Nat, IntSize # 0
    PROVE  Int32(n) \in Int
<1> DEFINE h == IntSize \div 2
<1>1. IntSize \in Nat \ {0} /\ h \in Int
    BY AggregationAssumption
<1>2. (n + h) % IntSize \in Int
    BY <1>1
<1> QED
    BY <1>1, <1>2 DEF Int32

(* Weights that add up to 1 keep the average between the values. *)
LEMMA FedAvgBetween ==
    ASSUME config \in Configs, NEW w, Entries(w), DOMAIN w # {}
    PROVE  /\ AggFedAvg(w) \in Fraction
           /\ ~Wraps(w) => Between(AggFedAvg(w), w, DOMAIN w)
<1> DEFINE S == DOMAIN w
           f == ProductsOf(w)
           h == SizesOf(w)
           total == Int32(TotalSize(w))
<1>0. IsFiniteSet(S)
    BY DEF Entries
<1>1. TotalSize(w) \in Nat /\ TotalSize(w) > 0
    BY TotalSizeType
<1>2. total \in Int
    <2>1. IntSize # 0
        <3>1. PICK c \in S : TRUE
            OBVIOUS
        <3>2. w[c].size \in 1 .. IntSize \div 2 - 1
            BY <3>1, AggregationAssumption DEF Entries
        <3>3. IntSize \in Nat
            BY AggregationAssumption
        <3>4. IntSize \div 2 \in Int /\ 2 * (IntSize \div 2) <= IntSize
            BY <3>3
        <3> QED
            BY <3>2, <3>3, <3>4
    <2> QED
        BY <1>1, <2>1, Int32Type
<1>3. PICK gf : /\ Sums(gf, f, S)
                /\ total > 0 => AggFedAvg(w) = Ratio(gf[S], total)
    BY <1>0, SumOfProducts
<1>4. PICK gh : Sums(gh, h, S) /\ TotalSize(w) = gh[S]
    BY <1>0, SumOfSizes
<1>5. f \in [S -> Int] /\ h \in [S -> Int] /\ IsFiniteSet(S)
    <2>1. \A e \in S : w[e].value \in Int /\ w[e].size \in Int
        BY EntriesType
    <2>2. \A e \in S : w[e].value * w[e].size \in Int
        BY <2>1
    <2> QED
        BY <2>1, <2>2 DEF Entries, ProductsOf, SizesOf
<1>6. gf[S] \in Int
    <2> HIDE DEF f
    <2> QED
        BY <1>3, <1>5, SumType
<1>7. AggFedAvg(w) = IF total > 0 THEN Ratio(gf[S], total) ELSE Mean(w)
    BY <1>3 DEF AggFedAvg
<1>8. AggFedAvg(w) \in Fraction
    <2>1. CASE total > 0
        <3> HIDE DEF total, S
        <3>1. total \in Nat \ {0}
            BY <1>2, <2>1
        <3> QED
            BY <1>6, <1>7, <2>1, <3>1, RatioInLowestTerms
    <2>2. CASE ~(total > 0)
        BY <1>7, <2>2, MeanBetween
    <2> QED
        BY <2>1, <2>2
<1>9. ASSUME ~Wraps(w)
      PROVE  Between(AggFedAvg(w), w, S)
    <2>1. PICK c, d \in S : \A e \in S : w[c].value <= w[e].value /\ w[e].value <= w[d].value
        BY Outermost
    <2> DEFINE lo == w[c].value
               hi == w[d].value
    <2>2. lo \in Int /\ hi \in Int
        BY EntriesType
    <2>3. \A e \in S : lo * h[e] <= f[e] /\ f[e] <= hi * h[e]
        <3> TAKE e \in S
        <3> DEFINE v == w[e].value
                   z == w[e].size
        <3>1. v \in Int /\ z \in Nat \ {0} /\ lo <= v /\ v <= hi
            BY <2>1, EntriesType
        <3>2. f[e] = v * z /\ h[e] = z
            BY DEF ProductsOf, SizesOf
        <3> HIDE DEF v, z, lo, hi, f, h
        <3>3. z * lo <= z * v /\ z * v <= z * hi
            BY <2>2, <3>1, Scaling
        <3>4. z * lo = lo * z /\ z * hi = hi * z /\ z * v = v * z
            BY <2>2, <3>1
        <3> QED
            BY <3>2, <3>3, <3>4
    <2>4. IntSize \div 2 \in Int
        BY AggregationAssumption
    <2>5. total = TotalSize(w) /\ total = gh[S]
        <3>1. TotalSize(w) < IntSize \div 2
            BY <1>1, <1>9, <2>4 DEF Wraps
        <3> QED
            BY <1>1, <1>4, <3>1, Int32Exact
    <2> HIDE DEF f, h, lo, hi, total
    <2>6. lo * gh[S] <= gf[S] /\ gf[S] <= hi * gh[S]
        BY <1>3, <1>4, <1>5, <2>2, <2>3, SumAtLeastMultiple, SumAtMostMultiple
    <2>7. total \in Nat \ {0} /\ total > 0
        BY <1>1, <2>5
    <2>8. AtMost(Whole(lo), Ratio(gf[S], total)) /\ AtMost(Ratio(gf[S], total), Whole(hi))
        BY <1>6, <2>2, <2>5, <2>6, <2>7, RatioAtMostWhole
    <2>9. AtMost(Whole(lo), AggFedAvg(w)) /\ AtMost(AggFedAvg(w), Whole(hi))
        BY <1>7, <2>7, <2>8
    <2> QED
        BY <2>9 DEF Between, lo, hi
<1> QED
    BY <1>8, <1>9

(* However the trim count's worth of submissions is chosen, what is left   *)
(* after trimming is between the others: no more than that many are        *)
(* smaller than every other one, or greater.                               *)
LEMMA TrimmedMeanFiltered ==
    ASSUME config \in Configs, NEW w, Entries(w), DOMAIN w # {}
    PROVE  /\ AggTrimmedMean(w) \in Fraction
           /\ \A B \in SUBSET DOMAIN w :
                  Cardinality(B) <= TrimCount(Cardinality(DOMAIN w)) =>
                      Between(AggTrimmedMean(w), w, DOMAIN w \ B)
<1> DEFINE S == DOMAIN w
           n == Cardinality(S)
           t == TrimCount(n)
           P == t + 1 .. n - t
           f == ValuesOf(w)
           h == NthsOf(f, P)
<1>1. IsFiniteSet(S) /\ n \in Nat \ {0}
    BY FS_CardinalityType, FS_EmptySet DEF Entries
<1> HIDE DEF n
<1>2. t \in Nat /\ 2 * t < n
    BY <1>1, TrimLeavesSome
<1> HIDE DEF t
<1>3. IsFiniteSet(P) /\ Cardinality(P) = n - 2 * t /\ P # {}
    <2>1. t + 1 \in Int /\ n - t \in Int /\ t + 1 <= n - t
        BY <1>1, <1>2
    <2>2. IsFiniteSet(P) /\ Cardinality(P) = (n - t) - (t + 1) + 1
        <3>1. ~(t + 1 > n - t)
            BY <2>1
        <3> QED
            BY <2>1, <3>1, FS_Interval
    <2>3. t + 1 \in P
        BY <2>1
    <2>4. (n - t) - (t + 1) + 1 = n - 2 * t
        BY <1>1, <1>2
    <2> HIDE DEF P
    <2> QED
        BY <2>2, <2>3, <2>4
<1>4. f \in [S -> Int]
    BY EntriesType DEF ValuesOf
<1>5. \A p \in P : p \in 1 .. Cardinality(S) /\ t < p /\ p <= n - t
    BY <1>1, <1>2 DEF n
<1>6. h \in [P -> Int]
    <2>1. \A p \in P : Nth(f, p) \in Int
        BY <1>1, <1>4, <1>5, NthIsNth
    <2> QED
        BY <2>1 DEF NthsOf
<1>7. PICK g : Sums(g, h, P) /\ SumOfNths(f, P) = g[P]
    BY <1>3, SumOfNthsIsSum
<1>8. AggTrimmedMean(w) = Ratio(g[P], n - 2 * t)
    BY <1>7 DEF AggTrimmedMean, SumOfNths, n, t
<1>9. ASSUME NEW B \in SUBSET S, Cardinality(B) <= t
      PROVE  AggTrimmedMean(w) \in Fraction /\ Between(AggTrimmedMean(w), w, S \ B)
    <2>1. /\ IsFiniteSet(B) /\ Cardinality(B) \in Nat
          /\ Cardinality(S \ B) = n - Cardinality(B)
        <3>1. S \cap B = B
            OBVIOUS
        <3>2. IsFiniteSet(B) /\ Cardinality(B) \in Nat
            BY <1>1, SubsetIsFinite
        <3>3. Cardinality(S \ B) = Cardinality(S) - Cardinality(S \cap B)
            BY <1>1, FS_Difference, Zenon
        <3> QED
            BY <3>1, <3>2, <3>3 DEF n
    <2>2. S \ B # {}
        <3>1. Cardinality(S \ B) # 0
            BY <1>1, <1>2, <1>9, <2>1
        <3> QED
            BY <3>1, FS_EmptySet
    <2>3. PICK c, d \in S \ B : \A e \in S \ B : w[c].value <= w[e].value
                                              /\ w[e].value <= w[d].value
        BY <2>2, Outermost
    <2> DEFINE lo == w[c].value
               hi == w[d].value
    <2>4. lo \in Int /\ hi \in Int /\ \A e \in S \ B : lo <= f[e] /\ f[e] <= hi
        BY <2>3, EntriesType DEF ValuesOf
    <2> HIDE DEF lo, hi, f, h, P
    <2>5. \A p \in P : lo <= h[p] /\ h[p] <= hi
        <3> TAKE p \in P
        <3>1. h[p] = Nth(f, p)
            BY DEF h, NthsOf
        <3>2. p \in 1 .. Cardinality(S) /\ t < p /\ p <= n - t /\ p \in Int
            BY <1>5
        <3>3. Cardinality(B) < p /\ p <= Cardinality(S \ B)
            BY <1>1, <1>2, <1>9, <2>1, <3>2
        <3>4. lo <= Nth(f, p)
            BY <1>1, <1>4, <2>4, <3>2, <3>3, NthAtLeast
        <3>5. Nth(f, p) <= hi
            BY <1>1, <1>4, <2>4, <3>2, <3>3, NthAtMost
        <3> QED
            BY <3>1, <3>4, <3>5
    <2>6. /\ AggTrimmedMean(w) \in Fraction
          /\ AtMost(Whole(lo), AggTrimmedMean(w)) /\ AtMost(AggTrimmedMean(w), Whole(hi))
        BY <1>3, <1>6, <1>7, <1>8, <2>4, <2>5, AverageBetween
    <2> QED
        BY <2>6 DEF Between, lo, hi
<1>10. {} \in SUBSET S /\ Cardinality({}) <= t
    BY <1>2, FS_EmptySet
<1>11. AggTrimmedMean(w) \in Fraction
    BY <1>9, <1>10
<1> QED
    BY <1>9, <1>11 DEF t, n

LEMMA KrumNumbers ==
    ASSUME NEW n \in Nat, 3 <= n
    PROVE  /\ KrumOutliers(n) \in Nat /\ 2 * KrumOutliers(n) + 3 <= n
           /\ KrumNeighbours(n) \in Nat \ {0}
           /\ KrumNeighbours(n) = n - KrumOutliers(n) - 2
<1> DEFINE f == (n - 3) \div 2
<1>1. f \in Nat /\ 2 * f <= n - 3
    OBVIOUS
<1> HIDE DEF f
<1>2. n - f - 2 \in Nat \ {0}
    BY <1>1
<1> QED
    BY <1>1, <1>2 DEF KrumOutliers, KrumNeighbours, f

(* A score is at most k times the distance within which there are k others,*)
(* and at least the distance of the k-th.                                  *)
LEMMA KrumScoreBounds ==
    ASSUME config \in Configs, NEW w, Entries(w), 3 <= Cardinality(DOMAIN w),
           NEW c \in DOMAIN w, NEW k, k = KrumNeighbours(Cardinality(DOMAIN w)),
           NEW f, f = [d \in DOMAIN w \ {c} |-> Distance(w, c, d)]
    PROVE  /\ KrumScore(w, c) \in Nat
           /\ k \in 1 .. Cardinality(DOMAIN w \ {c})
           /\ f \in [DOMAIN w \ {c} -> Nat]
           /\ Nth(f, k) <= KrumScore(w, c)
           /\ \A S \in SUBSET (DOMAIN w \ {c}), m \in Int :
                  k <= Cardinality(S) /\ (\A d \in S : f[d] <= m) => KrumScore(w, c) <= m * k
<1> DEFINE D == DOMAIN w \ {c}
           n == Cardinality(DOMAIN w)
           P == 1 .. k
           h == NthsOf(f, P)
<1>1. IsFiniteSet(DOMAIN w) /\ n \in Nat
    BY FS_CardinalityType DEF Entries
<1>2. IsFiniteSet(D) /\ Cardinality(D) = n - 1
    BY <1>1, FS_RemoveElement
<1> HIDE DEF n
<1>3. k \in Nat \ {0} /\ k <= n - 2
    <2>1. n \in Nat /\ 3 <= n /\ k = KrumNeighbours(n)
        BY <1>1 DEF n
    <2> QED
        BY <2>1, KrumNumbers
<1>4. f \in [D -> Nat]
    <2>1. ASSUME NEW d \in D
          PROVE  Distance(w, c, d) \in Nat
        <3> DEFINE x == w[c].value - w[d].value
        <3>1. x \in Int
            BY EntriesType
        <3> HIDE DEF x
        <3>2. x * x \in Nat
            BY <3>1
        <3> QED
            BY <3>2 DEF Distance, x
    <2> QED
        BY <2>1
<1>5. f \in [D -> Int]
    BY <1>4
<1>6. \A p \in P : p \in 1 .. Cardinality(D)
    BY <1>1, <1>2, <1>3
<1>7. k \in P /\ IsFiniteSet(P) /\ Cardinality(P) = k
    <2>1. k \in Int /\ ~(1 > k) /\ k - 1 + 1 = k /\ k \in P
        BY <1>3
    <2>2. IsFiniteSet(P) /\ Cardinality(P) = IF 1 > k THEN 0 ELSE k - 1 + 1
        BY <2>1, FS_Interval
    <2> HIDE DEF P
    <2> QED
        BY <2>1, <2>2
<1> HIDE DEF D
<1>8. h \in [P -> Nat]
    <2>1. ASSUME NEW p \in P
          PROVE  Nth(f, p) \in Nat
        <3>1. Nth(f, p) \in Int
            BY <1>2, <1>5, <1>6, NthIsNth
        <3>2. 0 <= Nth(f, p)
            <4>1. \A x \in D \ {} : 0 <= f[x]
                BY <1>4
            <4>2. {} \in SUBSET D /\ Cardinality({}) < p /\ p \in 1 .. Cardinality(D)
                BY <1>3, <1>6, FS_EmptySet
            <4>3. \A B \in SUBSET D : \A lo \in Int :
                      Cardinality(B) < p /\ (\A x \in D \ B : lo <= f[x]) => lo <= Nth(f, p)
                BY <1>2, <1>5, <4>2, NthAtLeast
            <4> QED
                BY <4>1, <4>2, <4>3
        <3> QED
            BY <3>1, <3>2
    <2> QED
        BY <2>1 DEF NthsOf
<1>9. PICK g : Sums(g, h, P) /\ SumOfNths(f, P) = g[P]
    BY <1>7, SumOfNthsIsSum
<1>10. KrumScore(w, c) = g[P]
    BY <1>9 DEF KrumScore, SumOfNths
<1>11. g[P] \in Nat /\ \A p \in P : h[p] <= g[P]
    <2> HIDE DEF h, P
    <2> QED
        BY <1>7, <1>8, <1>9, SumOfNaturals
<1>12. Nth(f, k) <= KrumScore(w, c)
    <2>1. h[k] = Nth(f, k)
        BY <1>7 DEF NthsOf
    <2> QED
        BY <1>7, <1>10, <1>11, <2>1
<1>13. ASSUME NEW S \in SUBSET D, NEW m \in Int, k <= Cardinality(S), \A d \in S : f[d] <= m
       PROVE  KrumScore(w, c) <= m * k
    <2>1. ASSUME NEW p \in P
          PROVE  0 <= h[p] /\ h[p] <= m
        <3>1. p <= Cardinality(S)
            <4>1. Cardinality(S) \in Nat
                BY <1>2, SubsetIsFinite
            <4> QED
                BY <1>3, <1>13, <4>1
        <3>2. Nth(f, p) <= m
            BY <1>2, <1>5, <1>6, <1>13, <3>1, NthAtMost
        <3>3. h[p] = Nth(f, p) /\ h[p] \in Nat
            BY <1>8 DEF NthsOf
        <3> QED
            BY <3>2, <3>3
    <2> HIDE DEF h, P
    <2>2. h \in [P -> Int]
        BY <1>8
    <2>3. g[P] <= m * Cardinality(P)
        BY <1>7, <1>9, <2>1, <2>2, SumBetween
    <2> QED
        BY <1>7, <1>10, <2>3
<1> QED
    BY <1>4, <1>6, <1>7, <1>10, <1>11, <1>12, <1>13 DEF D

LEMMA SquareMonotone ==
    ASSUME NEW x \in Int, NEW y \in Nat, -y <= x, x <= y
    PROVE  x * x <= y * y
<1>1. CASE x >= 0
    <2>1. x * x <= x * y /\ y * x <= y * y
        BY <1>1
    <2> QED
        BY <2>1
<1>2. CASE x < 0
    <2> DEFINE z == -x
    <2>1. z \in Nat /\ z <= y /\ x * x = z * z
        BY <1>2
    <2> HIDE DEF z
    <2>2. z * z <= z * y /\ y * z <= y * y /\ z * y = y * z
        BY <2>1
    <2> QED
        BY <2>1, <2>2
<1> QED
    BY <1>1, <1>2

(* No client is farther from another of S than its outermost are.          *)
LEMMA WidestDistance ==
    ASSUME config \in Configs, NEW w, Entries(w), NEW S \in SUBSET DOMAIN w,
           NEW c \in S, NEW d \in S,
           \A e \in S : w[c].value <= w[e].value /\ w[e].value <= w[d].value
    PROVE  /\ Distance(w, d, c) \in Nat
           /\ \A e, x \in S : Distance(w, e, x) <= Distance(w, d, c)
<1> DEFINE y == w[d].value - w[c].value
<1>1. y \in Nat /\ y * y \in Nat /\ Distance(w, d, c) = y * y
    BY EntriesType DEF Distance
<1>2. ASSUME NEW e \in S, NEW x \in S
      PROVE  Distance(w, e, x) <= y * y
    <2> DEFINE z == w[e].value - w[x].value
    <2>1. z \in Int /\ -y <= z /\ z <= y
        BY EntriesType
    <2>2. Distance(w, e, x) = z * z
        BY DEF Distance
    <2> HIDE DEF y, z
    <2> QED
        BY <1>1, <2>1, <2>2, SquareMonotone
<1> QED
    BY <1>1, <1>2

(* However Krum's f outliers are chosen among three clients or more, one of*)
(* the others is near the client with the best score: that score is at most*)
(* that of an honest client, and the k nearest include an honest one.      *)
LEMMA KrumFiltered ==
    ASSUME config \in Configs, NEW w, Entries(w), 3 <= Cardinality(DOMAIN w),
           NEW c \in DOMAIN w, \A d \in DOMAIN w : KrumScore(w, c) <= KrumScore(w, d),
           NEW B \in SUBSET DOMAIN w, Cardinality(B) <= KrumOutliers(Cardinality(DOMAIN w))
    PROVE  \E x, d, e \in DOMAIN w \ B :
              Distance(w, c, x) <= KrumNeighbours(Cardinality(DOMAIN w)) * Distance(w, d, e)
<1> DEFINE D == DOMAIN w
           n == Cardinality(D)
           S == D \ B
           k == KrumNeighbours(n)
           q == KrumOutliers(n)
<1>1. IsFiniteSet(D) /\ n \in Nat /\ 3 <= n
    BY FS_CardinalityType DEF Entries
<1>2. /\ IsFiniteSet(B) /\ Cardinality(B) \in Nat /\ Cardinality(B) <= q
      /\ IsFiniteSet(S) /\ Cardinality(S) = n - Cardinality(B)
    <2>1. D \cap B = B
        OBVIOUS
    <2>2. IsFiniteSet(S) /\ Cardinality(S) = Cardinality(D) - Cardinality(D \cap B)
        BY <1>1, FS_Difference, Zenon
    <2>3. IsFiniteSet(B) /\ Cardinality(B) \in Nat
        BY <1>1, SubsetIsFinite
    <2> QED
        BY <2>1, <2>2, <2>3
<1> HIDE DEF n
<1>3. q \in Nat /\ 2 * q + 3 <= n /\ k \in Nat \ {0} /\ k = n - q - 2
    BY <1>1, KrumNumbers
<1> HIDE DEF q, k
<1>4. S # {}
    <2>1. Cardinality(S) # 0
        BY <1>1, <1>2, <1>3
    <2> QED
        BY <2>1, FS_EmptySet
<1>5. PICK lo, hi \in S : \A e \in S : w[lo].value <= w[e].value /\ w[e].value <= w[hi].value
    BY <1>4, Outermost
<1> DEFINE m == Distance(w, hi, lo)
<1>6. m \in Nat /\ \A e, x \in S : Distance(w, e, x) <= m
    BY <1>5, WidestDistance
<1>7. CASE c \in S
    <2>1. Distance(w, c, c) = 0
        BY EntriesType DEF Distance
    <2>2. 0 <= k * m
        <3> HIDE DEF m
        <3> QED
            BY <1>3, <1>6
    <2> QED
        BY <1>5, <1>7, <2>1, <2>2 DEF k, n
<1>8. CASE c \notin S
    <2> DEFINE fc == [d \in D \ {c} |-> Distance(w, c, d)]
               fl == [d \in D \ {lo} |-> Distance(w, lo, d)]
               r == Nth(fc, k)
    <2>1. KrumScore(w, lo) <= m * k /\ KrumScore(w, lo) \in Nat
        <3> DEFINE T == S \ {lo}
        <3>1. Cardinality(T) = Cardinality(S) - 1
            BY <1>2, FS_RemoveElement
        <3>2. k <= Cardinality(T)
            BY <1>1, <1>2, <1>3, <3>1
        <3>3. T \in SUBSET (D \ {lo}) /\ \A d \in T : fl[d] <= m
            BY <1>6
        <3>4. k = KrumNeighbours(Cardinality(DOMAIN w)) /\ lo \in DOMAIN w
            BY DEF k, n
        <3>5. KrumScore(w, lo) \in Nat
            BY <3>4, KrumScoreBounds
        <3>6. \A U \in SUBSET (DOMAIN w \ {lo}), j \in Int :
                  k <= Cardinality(U) /\ (\A d \in U : fl[d] <= j) => KrumScore(w, lo) <= j * k
            BY <3>4, KrumScoreBounds
        <3> HIDE DEF T, fl, m
        <3> QED
            BY <1>6, <3>2, <3>3, <3>5, <3>6
    <2>2. /\ KrumScore(w, c) \in Nat
          /\ k \in 1 .. Cardinality(D \ {c})
          /\ fc \in [D \ {c} -> Nat]
          /\ r <= KrumScore(w, c)
        <3>1. k = KrumNeighbours(Cardinality(DOMAIN w))
            BY DEF k, n
        <3> QED
            BY <3>1, KrumScoreBounds
    <2>3. KrumScore(w, c) <= KrumScore(w, lo)
        OBVIOUS
    <2> HIDE DEF fc
    <2>4. IsFiniteSet(D \ {c}) /\ fc \in [D \ {c} -> Int]
        BY <1>1, <2>2, FS_RemoveElement
    <2>5. r \in Int /\ k <= Cardinality(UpTo(fc, r))
        BY <2>2, <2>4, NthIsNth
    <2> HIDE DEF r
    <2>6. r <= k * m
        <3>1. m * k \in Int /\ m * k = k * m
            <4> HIDE DEF m
            <4> QED
                BY <1>3, <1>6
        <3> HIDE DEF m
        <3> QED
            BY <2>1, <2>2, <2>3, <2>5, <3>1
    <2>7. \E x \in S : x \in UpTo(fc, r)
        <3> SUFFICES ASSUME \A x \in S : x \notin UpTo(fc, r)
                     PROVE  FALSE
            OBVIOUS
        <3>1. UpTo(fc, r) \subseteq B \ {c}
            BY <2>2 DEF UpTo
        <3>2. c \in B
            BY <1>8
        <3>3. /\ IsFiniteSet(B \ {c})
              /\ Cardinality(B \ {c}) = Cardinality(B) - 1
            BY <1>2, <3>2, FS_RemoveElement
        <3>4. /\ Cardinality(UpTo(fc, r)) <= Cardinality(B \ {c})
              /\ Cardinality(UpTo(fc, r)) \in Nat
            BY <3>1, <3>3, SubsetIsFinite
        <3> QED
            BY <1>1, <1>2, <1>3, <2>5, <3>3, <3>4
    <2>8. PICK x \in S : x \in UpTo(fc, r)
        BY <2>7
    <2>9. fc[x] = Distance(w, c, x) /\ fc[x] \in Int /\ fc[x] <= r
        <3>1. x \in D \ {c} /\ fc[x] <= r
            BY <2>2, <2>8 DEF UpTo
        <3> QED
            BY <2>4, <3>1 DEF fc
    <2>10. Distance(w, c, x) <= k * m
        <3>1. k * m \in Int
            <4> HIDE DEF m
            <4> QED
                BY <1>3, <1>6
        <3> HIDE DEF m
        <3> QED
            BY <2>5, <2>6, <2>9, <3>1
    <2> QED
        BY <1>5, <2>10 DEF k, n
<1> QED
    BY <1>7, <1>8

LEMMA AggregatesBetween ==
    ASSUME config \in Configs, NEW w, Entries(w), DOMAIN w # {}, NEW a \in Aggregates(w)
    PROVE  /\ a \in Fraction
           /\ ~Wraps(w) \/ config.strategy # "fedavg" => Between(a, w, DOMAIN w)
<1>1. CASE config.strategy = "krum"
    <2>1. a \in AggKrum(w)
        BY <1>1 DEF Aggregates
    <2>2. CASE Cardinality(DOMAIN w) < 3
        BY <2>1, <2>2, MeanBetween DEF AggKrum
    <2>3. CASE ~(Cardinality(DOMAIN w) < 3)
        <3>1. PICK c \in DOMAIN w : a = Whole(w[c].value)
            BY <2>1, <2>3 DEF AggKrum
        <3>2. w[c].value \in Int
            BY EntriesType
        <3>3. a \in Fraction /\ AtMost(Whole(w[c].value), a) /\ AtMost(a, Whole(w[c].value))
            BY <3>1, <3>2, WholeType DEF AtMost, Whole
        <3> QED
            BY <3>3 DEF Between
    <2> QED
        BY <2>2, <2>3
<1>2. CASE config.strategy = "trimmed_mean"
    <2>1. a = AggTrimmedMean(w)
        BY <1>2 DEF Aggregates
    <2>2. TrimCount(Cardinality(DOMAIN w)) \in Nat
        <3>1. Cardinality(DOMAIN w) \in Nat \ {0}
            BY FS_CardinalityType, FS_EmptySet DEF Entries
        <3> QED
            BY <3>1, TrimLeavesSome
    <2>3. {} \in SUBSET DOMAIN w /\ Cardinality({}) <= TrimCount(Cardinality(DOMAIN w))
        BY <2>2, FS_EmptySet
    <2>4. a \in Fraction /\ Between(a, w, DOMAIN w \ {})
        BY <2>1, <2>3, TrimmedMeanFiltered
    <2>5. DOMAIN w \ {} = DOMAIN w
        OBVIOUS
    <2> QED
        BY <2>4, <2>5
<1>3. CASE config.strategy = "fedavg"
    <2>1. a = AggFedAvg(w)
        BY <1>3 DEF Aggregates
    <2> QED
        BY <1>3, <2>1, FedAvgBetween
<1> QED
    BY <1>1, <1>2, <1>3, ConfigType

-----------------------------------------------------------------------------
(* Noise and clipping of the result *)

LEMMA ClipResultBounds ==
    ASSUME config \in Configs, NEW x \in Fraction, NEW y, y = ClipResult(x, config.clip)
    PROVE  y \in Fraction /\ AtMost(Whole(-config.clip), y) /\ AtMost(y, Whole(config.clip))
<1> DEFINE k == config.clip
<1>1. k \in Nat \ {0} /\ -k \in Int
    BY ConfigType
<1> HIDE DEF k
<1>2. Whole(k) \in Fraction /\ Whole(-k) \in Fraction
    BY <1>1, WholeType
<1>3. /\ AtMost(Whole(-k), Whole(k)) /\ AtMost(Whole(k), Whole(k))
      /\ AtMost(Whole(-k), Whole(-k))
    BY <1>1 DEF AtMost, Whole
<1>4. x.num \in Int /\ x.den \in Nat \ {0}
    BY DEF Fraction
<1>5. AtMost(Whole(k), x) \/ AtMost(x, Whole(k))
    <2>1. k * x.den \in Int /\ x.num * 1 = x.num
        BY <1>1, <1>4
    <2> QED
        BY <1>4, <2>1 DEF AtMost, Whole
<1>6. AtMost(Whole(-k), x) \/ AtMost(x, Whole(-k))
    <2>1. (-k) * x.den \in Int /\ x.num * 1 = x.num
        BY <1>1, <1>4
    <2> QED
        BY <1>4, <2>1 DEF AtMost, Whole
<1>7. y = IF AtMost(Whole(k), x) THEN Whole(k)
          ELSE IF AtMost(x, Whole(-k)) THEN Whole(-k) ELSE x
    BY DEF ClipResult, k
<1>8. y \in Fraction /\ AtMost(Whole(-k), y) /\ AtMost(y, Whole(k))
    BY <1>2, <1>3, <1>5, <1>6, <1>7
<1> QED
    BY <1>8 DEF k

LEMMA NoisedBounds ==
    ASSUME config \in Configs, NEW x \in Fraction, NEW e \in Int
    PROVE  /\ Noised(x, e) \in Fraction
           /\ AtMost(Whole(-config.clip), Noised(x, e))
           /\ AtMost(Noised(x, e), Whole(config.clip))
<1>1. Plus(x, Whole(e)) \in Fraction
    BY ArithmeticType, WholeType
<1> QED
    BY <1>1, ClipResultBounds DEF Noised

(* Without noise, what is between two clipped values stays there. *)
LEMMA NoiselessBetween ==
    ASSUME config \in Configs, NEW x \in Fraction,
           NEW lo \in -config.clip .. config.clip, NEW hi \in -config.clip .. config.clip,
           AtMost(Whole(lo), x), AtMost(x, Whole(hi))
    PROVE  AtMost(Whole(lo), Noised(x, 0)) /\ AtMost(Noised(x, 0), Whole(hi))
<1> DEFINE k == config.clip
           z == Plus(x, Whole(0))
           y == Noised(x, 0)
<1>1. k \in Nat \ {0} /\ lo \in Int /\ hi \in Int /\ -k <= lo /\ hi <= k /\ -k \in Int
      /\ lo <= k /\ -k <= hi
    BY ConfigType
<1>2. AtMost(Whole(lo), z) /\ AtMost(z, Whole(hi)) /\ z \in Fraction
    <2>1. AtMost(Whole(0), Whole(0))
        BY DEF AtMost, Whole
    <2>2. /\ AtMost(Plus(Whole(lo), Whole(0)), z)
          /\ AtMost(z, Plus(Whole(hi), Whole(0)))
        BY <1>1, <2>1, WholeType, PlusMonotone
    <2>3. \A n \in Int : /\ Plus(Whole(n), Whole(0)) \in Fraction
                         /\ AtMost(Plus(Whole(n), Whole(0)), Whole(n))
                         /\ AtMost(Whole(n), Plus(Whole(n), Whole(0)))
        <3> TAKE n \in Int
        <3>1. Plus(Whole(n), Whole(0)) = Ratio(n * 1 + 0 * 1, 1 * 1)
            BY DEF Plus, Whole
        <3>2. n * 1 + 0 * 1 = n /\ 1 * 1 = 1 /\ 1 \in Nat \ {0}
            OBVIOUS
        <3>3. Plus(Whole(n), Whole(0)) = Ratio(n, 1)
            BY <3>1, <3>2
        <3> QED
            BY <3>2, <3>3, RatioAtMostWhole, ArithmeticType, WholeType
    <2>4. z \in Fraction
        BY ArithmeticType, WholeType
    <2> HIDE DEF z
    <2>5. AtMost(Whole(lo), z)
        BY <1>1, <2>2, <2>3, <2>4, WholeType, AtMostTransitive
    <2>6. AtMost(z, Whole(hi))
        BY <1>1, <2>2, <2>3, <2>4, WholeType, AtMostTransitive
    <2> QED
        BY <2>4, <2>5, <2>6
<1>3. y = IF AtMost(Whole(k), z) THEN Whole(k)
          ELSE IF AtMost(z, Whole(-k)) THEN Whole(-k) ELSE z
    BY DEF Noised, ClipResult
<1> HIDE DEF k, z, y
<1>4. Whole(k) \in Fraction /\ Whole(-k) \in Fraction /\ Whole(lo) \in Fraction
      /\ Whole(hi) \in Fraction
    BY <1>1, WholeType
<1>5. CASE AtMost(Whole(k), z)
    <2>1. AtMost(Whole(k), Whole(hi))
        BY <1>2, <1>4, <1>5, AtMostTransitive
    <2>2. AtMost(Whole(lo), Whole(k))
        BY <1>1 DEF AtMost, Whole
    <2> QED
        BY <1>3, <1>5, <2>1, <2>2 DEF y
<1>6. CASE ~AtMost(Whole(k), z) /\ AtMost(z, Whole(-k))
    <2>1. AtMost(Whole(lo), Whole(-k))
        BY <1>2, <1>4, <1>6, AtMostTransitive
    <2>2. AtMost(Whole(-k), Whole(hi))
        BY <1>1 DEF AtMost, Whole
    <2> QED
        BY <1>3, <1>6, <2>1, <2>2 DEF y
<1>7. CASE ~AtMost(Whole(k), z) /\ ~AtMost(z, Whole(-k))
    BY <1>2, <1>3, <1>7 DEF y
<1> QED
    BY <1>5, <1>6, <1>7

LEMMA SquareAtMost ==
    ASSUME NEW x \in Fraction, NEW u \in Int, NEW lo \in Int, NEW hi \in Int, NEW m \in Nat,
           AtMost(Whole(lo), x), AtMost(x, Whole(hi)),
           (lo - u) * (lo - u) <= m, (hi - u) * (hi - u) <= m
    PROVE  AtMost(Square(Minus(x, Whole(u))), Whole(m))
<1> DEFINE y == Minus(x, Whole(u))
           p == y.num
           q == y.den
           a == lo - u
           b == hi - u
<1>1. a \in Int /\ b \in Int /\ a * a <= m /\ b * b <= m
    OBVIOUS
<1>2. y \in Fraction
    BY ArithmeticType, WholeType
<1>3. p \in Int /\ q \in Nat \ {0}
    BY <1>2 DEF Fraction
<1>4. AtMost(Whole(a), y) /\ AtMost(y, Whole(b))
    <2>1. AtMost(Whole(u), Whole(u))
        BY DEF AtMost, Whole
    <2> QED
        BY <2>1, MinusMonotone, WholeType
<1>5. a * q <= p * 1 /\ p * 1 <= b * q
    BY <1>4 DEF AtMost, Whole
<1>6. Square(y) = Ratio(p * p, q * q)
    BY DEF Square, Times
<1> HIDE DEF y, p, q, a, b
<1>7. p * p \in Int /\ q * q \in Nat \ {0}
    BY <1>3
<1>8. p * p <= m * (q * q)
    <2>1. \A z \in Nat : z * z <= m /\ -(z * q) <= p /\ p <= z * q => p * p <= m * (q * q)
        <3> SUFFICES ASSUME NEW z \in Nat, z * z <= m, -(z * q) <= p, p <= z * q
                     PROVE  p * p <= m * (q * q)
            OBVIOUS
        <3> DEFINE v == z * q
        <3>1. v \in Nat /\ v * v = (z * z) * (q * q)
            BY <1>3
        <3>2. p * p <= v * v
            <4> HIDE DEF v
            <4> QED
                BY <1>3, <3>1, SquareMonotone DEF v
        <3>3. (q * q) * (z * z) <= (q * q) * m
            BY <1>7, Scaling
        <3>4. (q * q) * (z * z) = (z * z) * (q * q) /\ (q * q) * m = m * (q * q)
            BY <1>3
        <3>5. (z * z) * (q * q) \in Int /\ m * (q * q) \in Int
            BY <1>3
        <3> HIDE DEF v
        <3> QED
            BY <1>7, <3>1, <3>2, <3>3, <3>4, <3>5
    <2>2. CASE p >= 0
        <3>1. b \in Nat
            BY <1>1, <1>3, <1>5, <2>2
        <3>2. b * q \in Nat /\ p * 1 = p
            BY <1>3, <3>1
        <3>3. -(b * q) <= p /\ p <= b * q
            BY <1>3, <1>5, <2>2, <3>2
        <3> QED
            BY <1>1, <2>1, <3>1, <3>3
    <2>3. CASE p < 0
        <3> DEFINE z == -a
        <3>1. a < 0
            BY <1>1, <1>3, <1>5, <2>3
        <3>2. z \in Nat /\ z * z = a * a /\ z * q = -(a * q) /\ a * q \in Int /\ p * 1 = p
            BY <1>1, <1>3, <3>1
        <3>3. -(z * q) <= p /\ p <= z * q
            <4> HIDE DEF z
            <4>1. z * q \in Nat
                BY <1>3, <3>2
            <4> QED
                BY <1>3, <1>5, <2>3, <3>2, <4>1
        <3>4. z * z <= m
            BY <1>1, <3>2
        <3> HIDE DEF z
        <3> QED
            BY <2>1, <3>2, <3>3, <3>4
    <2> QED
        BY <1>3, <2>2, <2>3
<1>9. AtMost(Ratio(p * p, q * q), Whole(m))
    BY <1>7, <1>8, RatioAtMostWhole
<1> QED
    BY <1>6, <1>9 DEF y

-----------------------------------------------------------------------------
(* Invariants *)

AggregationInv ==
    /\ AggregationTypeOK
    /\ Entries(buffered) /\ Entries(averaged)

LEMMA EntryAdded ==
    ASSUME AggregationInv, NEW c \in Clients, NEW v \in Values, NEW s \in Sizes
    PROVE  Entries(WithEntry(c, v, s)) /\ DOMAIN WithEntry(c, v, s) # {}
<1> DEFINE w == WithEntry(c, v, s)
           x == ClipWeights(v, config.clip)
<1>1. config \in Configs /\ config.clip \in Nat \ {0}
    BY ConfigType DEF AggregationInv, AggregationTypeOK
<1>2. x \in -config.clip .. config.clip
    <2> DEFINE k == config.clip
    <2>1. v \in Int /\ k \in Nat
        BY <1>1, AggregationAssumption
    <2>2. (x = v /\ v \in -k .. k) \/ x = 0 \/ x = k \/ x = -k
        BY DEF ClipWeights
    <2> HIDE DEF k, x
    <2>3. x \in -k .. k
        BY <2>1, <2>2
    <2> QED
        BY <2>3 DEF k
<1> HIDE DEF x
<1>3. DOMAIN w = DOMAIN buffered \union {c}
    BY DEF WithEntry
<1>4. IsFiniteSet(DOMAIN w) /\ DOMAIN w \subseteq Clients
    BY <1>3, FS_AddElement DEF AggregationInv, Entries
<1>5. ASSUME NEW d \in DOMAIN w
      PROVE  w[d] \in [value : -config.clip .. config.clip, size : Sizes]
    <2>1. CASE d = c
        <3>1. w[d] = [value |-> x, size |-> s]
            BY <1>3, <2>1 DEF WithEntry, x
        <3> QED
            BY <1>2, <3>1
    <2>2. CASE d # c
        <3>1. d \in DOMAIN buffered /\ w[d] = buffered[d]
            BY <1>3, <2>2 DEF WithEntry
        <3> QED
            BY <3>1 DEF AggregationInv, Entries
    <2> QED
        BY <2>1, <2>2
<1>6. DOMAIN w # {}
    BY <1>3
<1> HIDE DEF w
<1>7. Entries(w)
    BY <1>4, <1>5 DEF Entries
<1> QED
    BY <1>6, <1>7 DEF w

LEMMA NoEntriesType ==
    ASSUME config \in Configs
    PROVE  Entries(NoEntries) /\ ~Full(NoEntries) /\ DOMAIN NoEntries = {}
<1>1. DOMAIN NoEntries = {}
    BY DEF NoEntries
<1>2. IsFiniteSet({}) /\ Cardinality({}) = 0
    BY FS_EmptySet
<1>3. ~(Cardinality(DOMAIN NoEntries) >= config.required)
    BY <1>1, <1>2, ConfigType
<1> QED
    BY <1>1, <1>2, <1>3 DEF Entries, Full

LEMMA NextVelocityType ==
    ASSUME AggregationInv, NEW a \in Fraction
    PROVE  NextVelocity(a) \in Fraction /\ Smoothed(a) \in Fraction
<1>1. /\ config.momentum \in Fraction /\ velocity \in Fraction
      /\ Smoothing => latest \in Fraction
    BY ConfigType DEF AggregationInv, AggregationTypeOK, Smoothing
<1>2. Smoothing => /\ Times(config.momentum, velocity) \in Fraction
                   /\ Minus(a, latest) \in Fraction
    BY <1>1, ArithmeticType
<1>3. NextVelocity(a) \in Fraction
    BY <1>1, <1>2, ArithmeticType DEF NextVelocity
<1> QED
    BY <1>1, <1>3, ArithmeticType DEF Smoothed

(* A publication: what it is made from, and what becomes of it. *)
LEMMA Publication ==
    ASSUME AggregationInv, NEW c \in Clients, NEW v \in Values, NEW s \in Sizes,
           Published(c, v, s)
    PROVE  /\ Entries(averaged') /\ DOMAIN averaged' # {}
           /\ averaged' = WithEntry(c, v, s)
           /\ \E a \in Aggregates(averaged') :
                 /\ a \in Fraction
                 /\ ~Wraps(averaged') \/ config.strategy # "fedavg" =>
                        Between(a, averaged', DOMAIN averaged')
                 /\ velocity' = NextVelocity(a)
                 /\ latest' = Noised(Smoothed(a), noise')
           /\ noise' \in Noises /\ noise' \in Int
<1>1. averaged' = WithEntry(c, v, s)
    BY DEF Published
<1>2. Entries(averaged') /\ DOMAIN averaged' # {}
    BY <1>1, EntryAdded
<1>3. PICK a \in Aggregates(averaged') : /\ velocity' = NextVelocity(a)
                                         /\ latest' = Noised(Smoothed(a), noise')
    BY <1>1 DEF Published
<1>4. config \in Configs
    BY DEF AggregationInv, AggregationTypeOK
<1>5. /\ a \in Fraction
      /\ ~Wraps(averaged') \/ config.strategy # "fedavg" =>
             Between(a, averaged', DOMAIN averaged')
    BY <1>2, <1>4, AggregatesBetween
<1>6. noise' \in Noises /\ noise' \in Int
    BY AggregationAssumption DEF Published
<1> QED
    BY <1>1, <1>2, <1>3, <1>5, <1>6

LEMMA AggregationInvInit == AggregationInit => AggregationInv
<1> SUFFICES ASSUME AggregationInit
             PROVE  AggregationInv
    OBVIOUS
<1> USE DEF AggregationInit
<1>1. config \in Configs
    OBVIOUS
<1>2. Entries(NoEntries) /\ ~Full(NoEntries) /\ DOMAIN NoEntries = {}
    BY <1>1, NoEntriesType
<1>3. config.strategy \in {"fedavg", "krum", "trimmed_mean"}
    BY <1>1, ConfigType
<1>4. versions \in 0 .. MaxModels[config.strategy] /\ failures \in 0 .. MaxFailures
    <2>1. MaxModels[config.strategy] \in Nat /\ MaxFailures \in Nat
        BY <1>3, AggregationAssumption
    <2> QED
        BY <2>1
<1>5. velocity \in Fraction
    BY WholeType
<1>6. noise \in Noises
    BY AggregationAssumption
<1> QED
    BY <1>1, <1>2, <1>4, <1>5, <1>6 DEF AggregationInv, AggregationTypeOK

LEMMA AggregationInvStep == AggregationInv /\ [AggregationNext]_aggregationVars => AggregationInv'
<1> SUFFICES ASSUME AggregationInv, [AggregationNext]_aggregationVars
             PROVE  AggregationInv'
    OBVIOUS
<1>1. /\ config \in Configs /\ Entries(buffered) /\ Entries(averaged) /\ ~Full(buffered)
      /\ latest \in Fraction \union {None} /\ velocity \in Fraction /\ published \subseteq Fraction
      /\ versions \in 0 .. MaxModels[config.strategy] /\ noise \in Noises
      /\ wrapped \in BOOLEAN /\ failures \in 0 .. MaxFailures
    BY DEF AggregationInv, AggregationTypeOK
<1>2. Entries(NoEntries) /\ ~Full(NoEntries) /\ DOMAIN NoEntries = {}
    BY <1>1, NoEntriesType
<1>3. MaxModels[config.strategy] \in Nat /\ MaxFailures \in Nat
    BY <1>1, ConfigType, AggregationAssumption
<1>4. SUFFICES /\ config' = config
               /\ Entries(buffered') /\ Entries(averaged') /\ ~Full(buffered')
               /\ latest' \in Fraction \union {None} /\ velocity' \in Fraction
               /\ published' \subseteq Fraction
               /\ versions' \in 0 .. MaxModels[config.strategy] /\ noise' \in Noises
               /\ wrapped' \in BOOLEAN /\ failures' \in 0 .. MaxFailures
    BY <1>1, <1>4 DEF AggregationInv, AggregationTypeOK, Entries, Full
<1>5. CASE UNCHANGED aggregationVars
    BY <1>1, <1>5 DEF aggregationVars
<1>6. ASSUME NEW c \in Clients, NEW v \in Values, NEW s \in Sizes,
             AddWeightAndCheckAggregate(c, v, s)
      PROVE  /\ config' = config
             /\ Entries(buffered') /\ Entries(averaged') /\ ~Full(buffered')
             /\ latest' \in Fraction \union {None} /\ velocity' \in Fraction
             /\ published' \subseteq Fraction
             /\ versions' \in 0 .. MaxModels[config.strategy] /\ noise' \in Noises
             /\ wrapped' \in BOOLEAN /\ failures' \in 0 .. MaxFailures
    <2>1. Entries(WithEntry(c, v, s)) /\ DOMAIN WithEntry(c, v, s) # {}
        BY EntryAdded
    <2>2. CASE Buffered(c, v, s)
        BY <1>1, <1>2, <2>1, <2>2 DEF Buffered
    <2>3. CASE WriteFails(c, v, s)
        <3>1. PICK a \in Aggregates(WithEntry(c, v, s)) : velocity' = NextVelocity(a)
            BY <2>3 DEF WriteFails
        <3>2. a \in Fraction
            BY <1>1, <2>1, AggregatesBetween
        <3>3. velocity' \in Fraction
            BY <3>1, <3>2, NextVelocityType
        <3>4. failures' \in 0 .. MaxFailures
            BY <1>1, <1>3, <2>3 DEF WriteFails
        <3>5. wrapped' \in BOOLEAN
            BY <1>1, <2>3 DEF WriteFails, Wraps
        <3> QED
            BY <1>1, <1>2, <2>3, <3>3, <3>4, <3>5 DEF WriteFails
    <2>4. CASE Published(c, v, s)
        <3>1. PICK a \in Fraction : /\ velocity' = NextVelocity(a)
                                    /\ latest' = Noised(Smoothed(a), noise')
            BY <2>4, Publication
        <3>2. Entries(averaged') /\ noise' \in Noises /\ noise' \in Int
            BY <2>4, Publication
        <3>3. velocity' \in Fraction /\ Smoothed(a) \in Fraction
            BY <3>1, NextVelocityType
        <3>4. latest' \in Fraction
            BY <1>1, <3>1, <3>2, <3>3, NoisedBounds
        <3>5. versions' \in 0 .. MaxModels[config.strategy]
            BY <1>1, <1>3, <1>6, <2>4 DEF AddWeightAndCheckAggregate, Published
        <3>6. failures' \in 0 .. MaxFailures
            BY <1>3, <2>4 DEF Published
        <3>7. wrapped' \in BOOLEAN
            BY <1>1, <2>4 DEF Published, Wraps
        <3> QED
            BY <1>1, <1>2, <2>4, <3>2, <3>3, <3>4, <3>5, <3>6, <3>7 DEF Published
    <2> QED
        BY <1>6, <2>2, <2>3, <2>4 DEF AddWeightAndCheckAggregate
<1>7. ASSUME NEW model \in published, RestoreLatestGlobalModel(model)
      PROVE  /\ config' = config
             /\ Entries(buffered') /\ Entries(averaged') /\ ~Full(buffered')
             /\ latest' \in Fraction \union {None} /\ velocity' \in Fraction
             /\ published' \subseteq Fraction
             /\ versions' \in 0 .. MaxModels[config.strategy] /\ noise' \in Noises
             /\ wrapped' \in BOOLEAN /\ failures' \in 0 .. MaxFailures
    BY <1>1, <1>2, <1>7 DEF RestoreLatestGlobalModel
<1>8. CASE Restart
    <2>1. failures' \in 0 .. MaxFailures /\ velocity' \in Fraction
        BY <1>3, <1>8, WholeType DEF Restart
    <2> QED
        BY <1>1, <1>2, <1>8, <2>1 DEF Restart
<1> QED
    BY <1>5, <1>6, <1>7, <1>8 DEF AggregationNext

(* Every number keeps its type, and what waits in the buffer is clipped    *)
(* and short of a round.                                                   *)
THEOREM AggregationTypeCorrect == AggregationSpec => []AggregationTypeOK
<1>1. AggregationInv => AggregationTypeOK
    BY DEF AggregationInv
<1> QED
    BY <1>1, AggregationInvInit, AggregationInvStep, PTL DEF AggregationSpec

LEMMA AggregationInvHolds == AggregationSpec => []AggregationInv
BY AggregationInvInit, AggregationInvStep, PTL DEF AggregationSpec

(* Only a publication leaves anything averaged; every other step forgets   *)
(* it, or changes nothing.                                                 *)
LEMMA OnlyPublicationAverages ==
    ASSUME AggregationInv, [AggregationNext]_aggregationVars, averaged' # NoEntries
    PROVE  \/ UNCHANGED aggregationVars
           \/ /\ config' = config
              /\ \E c \in Clients, v \in Values, s \in Sizes : Published(c, v, s)
<1>1. ASSUME NEW c \in Clients, NEW v \in Values, NEW s \in Sizes,
             AddWeightAndCheckAggregate(c, v, s)
      PROVE  config' = config /\ Published(c, v, s)
    BY <1>1 DEF AddWeightAndCheckAggregate, Buffered, WriteFails, Published
<1>2. ASSUME NEW model \in published, RestoreLatestGlobalModel(model)
      PROVE  FALSE
    BY <1>2 DEF RestoreLatestGlobalModel
<1>3. CASE Restart
    BY <1>3 DEF Restart
<1> QED
    BY <1>1, <1>2, <1>3 DEF AggregationNext

(* Without momentum and noise the aggregate is what is published. *)
LEMMA PlainPublication ==
    ASSUME AggregationInv, NEW c \in Clients, NEW v \in Values, NEW s \in Sizes,
           Published(c, v, s), Plain'
    PROVE  /\ config' = config
           /\ \E a \in Aggregates(averaged') : a \in Fraction /\ latest' = Noised(a, 0)
<1>1. config' = config /\ noise' = 0
    BY DEF Published, Plain
<1>2. ~Smoothing
    <2>1. config.momentum.num = 0
        BY <1>1 DEF Plain
    <2> QED
        BY <2>1 DEF Smoothing
<1>3. PICK a \in Aggregates(averaged') : a \in Fraction /\ latest' = Noised(Smoothed(a), noise')
    BY Publication
<1>4. Smoothed(a) = a
    BY <1>2 DEF Smoothed
<1> QED
    BY <1>1, <1>3, <1>4

LEMMA BetweenStays ==
    ASSUME config \in Configs, NEW w, Entries(w), NEW S \in SUBSET DOMAIN w,
           NEW a \in Fraction, Between(a, w, S)
    PROVE  Between(Noised(a, 0), w, S)
<1>1. PICK c, d \in S : AtMost(Whole(w[c].value), a) /\ AtMost(a, Whole(w[d].value))
    BY DEF Between
<1>2. w[c].value \in -config.clip .. config.clip /\ w[d].value \in -config.clip .. config.clip
    BY DEF Entries
<1>3. /\ AtMost(Whole(w[c].value), Noised(a, 0))
      /\ AtMost(Noised(a, 0), Whole(w[d].value))
    BY <1>1, <1>2, NoiselessBetween
<1> QED
    BY <1>3 DEF Between

(* But for momentum and noise, a published model is between the least and  *)
(* the greatest of the submissions it was made from.                       *)
THEOREM AggregateWithinSubmissions == AggregationSpec => []WithinSubmissions
<1>1. AggregationInit => WithinSubmissions
    BY DEF AggregationInit, WithinSubmissions
<1>2. AggregationInv /\ WithinSubmissions /\ [AggregationNext]_aggregationVars
          => WithinSubmissions'
    <2> SUFFICES ASSUME AggregationInv, WithinSubmissions, [AggregationNext]_aggregationVars,
                        (averaged # NoEntries)', Plain', (~Wraps(averaged))'
                 PROVE  Between(latest, averaged, DOMAIN averaged)'
        BY DEF WithinSubmissions
    <2>1. config \in Configs
        BY DEF AggregationInv, AggregationTypeOK
    <2>2. CASE UNCHANGED aggregationVars
        <3>1. averaged' = averaged /\ latest' = latest /\ Plain
            BY <2>2 DEF aggregationVars, Plain
        <3>2. ~Wraps(averaged)
            BY <3>1 DEF Wraps
        <3> QED
            BY <3>1, <3>2 DEF WithinSubmissions
    <2>3. ASSUME NEW c \in Clients, NEW v \in Values, NEW s \in Sizes, Published(c, v, s)
          PROVE  Between(latest', averaged', DOMAIN averaged')
        <3>1. /\ Entries(averaged') /\ DOMAIN averaged' # {}
              /\ ~Wraps(averaged')
            BY <2>3, Publication DEF Wraps
        <3>2. PICK a \in Aggregates(averaged') : a \in Fraction /\ latest' = Noised(a, 0)
            BY <2>3, PlainPublication
        <3>3. Between(a, averaged', DOMAIN averaged')
            BY <2>1, <3>1, AggregatesBetween
        <3> QED
            BY <2>1, <3>1, <3>2, <3>3, BetweenStays
    <2>4. CASE \E c \in Clients, v \in Values, s \in Sizes : Published(c, v, s)
        BY <2>3, <2>4 DEF Between
    <2> QED
        BY <2>2, <2>4, OnlyPublicationAverages
<1> QED
    BY <1>1, <1>2, AggregationInvHolds, PTL DEF AggregationSpec

(* The published model is near an honest client, or between honest ones.   *)
NearOne(x, w, S) ==
    \E c, d, e \in S :
        AtMost(Square(Minus(x, Whole(w[c].value))),
               Whole(KrumNeighbours(Cardinality(DOMAIN w)) * Distance(w, d, e)))

LEMMA KrumNearOne ==
    ASSUME config \in Configs, NEW w, Entries(w), DOMAIN w # {}, NEW a \in AggKrum(w),
           a \in Fraction,
           NEW B \in SUBSET DOMAIN w,
           Cardinality(B) = IF Cardinality(DOMAIN w) < 3 THEN 0
                            ELSE KrumOutliers(Cardinality(DOMAIN w))
    PROVE  NearOne(Noised(a, 0), w, DOMAIN w \ B)
<1> DEFINE n == Cardinality(DOMAIN w)
           k == KrumNeighbours(n)
           x == Noised(a, 0)
<1>1. IsFiniteSet(DOMAIN w) /\ n \in Nat \ {0} /\ IsFiniteSet(B)
    BY FS_CardinalityType, FS_EmptySet, FS_Subset DEF Entries
<1>2. x \in Fraction
    BY NoisedBounds
<1> HIDE DEF n, x
<1>3. CASE n < 3
    <2>1. B = {} /\ DOMAIN w \ B = DOMAIN w
        BY <1>1, <1>3, FS_EmptySet DEF n
    <2>2. a = Mean(w)
        BY <1>3 DEF AggKrum, n
    <2>3. PICK c, d \in DOMAIN w : \A e \in DOMAIN w : w[c].value <= w[e].value
                                                    /\ w[e].value <= w[d].value
        BY Outermost
    <2>4. Between(x, w, DOMAIN w)
        BY <2>2, MeanBetween, BetweenStays DEF x
    <2>5. PICK cc, dd \in DOMAIN w : AtMost(Whole(w[cc].value), x) /\ AtMost(x, Whole(w[dd].value))
        BY <2>4 DEF Between
    <2> DEFINE lo == w[cc].value
               hi == w[dd].value
               m == (hi - lo) * (hi - lo)
    <2>6. lo \in Int /\ hi \in Int /\ Distance(w, dd, cc) = m
        BY EntriesType DEF Distance
    <2>7. k * m = m /\ m \in Nat
        <3>1. CASE n = 1
            <4>1. cc = dd
                BY <1>1, <3>1, FS_Singleton DEF n
            <4>2. m = 0
                BY <2>6, <4>1
            <4>3. k \in Int
                BY <1>1 DEF KrumNeighbours, KrumOutliers
            <4> HIDE DEF m
            <4> QED
                BY <4>2, <4>3
        <3>2. CASE n = 2
            <4>1. k = 1
                <5> DEFINE z == 2 - 3
                           q == z \div 2
                <5>1. z \in Int /\ z = -1
                    OBVIOUS
                <5>2. k = 2 - q - 2
                    BY <3>2 DEF KrumNeighbours, KrumOutliers
                <5> HIDE DEF z
                <5>3. q \in Int /\ 2 * q <= z /\ z < 2 * q + 2
                    <6>1. z \in Int
                        BY <5>1
                    <6> QED
                        BY <6>1
                <5> HIDE DEF q, k
                <5>4. q = -1
                    BY <5>1, <5>3
                <5> QED
                    BY <5>2, <5>4
            <4>2. m \in Nat
                <5> DEFINE z == hi - lo
                <5>1. z \in Int
                    BY <2>6
                <5> HIDE DEF z
                <5>2. z * z \in Nat
                    BY <5>1
                <5> QED
                    BY <5>2 DEF z
            <4> HIDE DEF m, k
            <4> QED
                BY <4>1, <4>2
        <3> QED
            BY <1>1, <1>3, <3>1, <3>2
    <2>8. (lo - lo) * (lo - lo) <= m
        BY <2>6, <2>7
    <2> HIDE DEF lo, hi
    <2>9. AtMost(Square(Minus(x, Whole(lo))), Whole(m))
        BY <1>2, <2>5, <2>6, <2>7, <2>8, SquareAtMost DEF lo, hi
    <2>10. AtMost(Square(Minus(x, Whole(w[cc].value))), Whole(k * Distance(w, dd, cc)))
        BY <2>6, <2>7, <2>9 DEF lo
    <2> HIDE DEF k
    <2> QED
        BY <2>1, <2>10 DEF NearOne, k, n, x
<1>4. CASE ~(n < 3)
    <2>1. 3 <= n
        BY <1>1, <1>4
    <2>2. PICK c \in DOMAIN w : /\ a = Whole(w[c].value)
                                /\ \A d \in DOMAIN w : KrumScore(w, c) <= KrumScore(w, d)
        BY <1>4 DEF AggKrum, n
    <2>3. Cardinality(B) = KrumOutliers(n)
        BY <1>4 DEF n
    <2>4. Cardinality(B) <= KrumOutliers(n)
        <3>1. KrumOutliers(n) \in Nat
            BY <1>1, <2>1, KrumNumbers
        <3> QED
            BY <2>3, <3>1
    <2>5. PICK y, d, e \in DOMAIN w \ B : Distance(w, c, y) <= k * Distance(w, d, e)
        BY <2>1, <2>2, <2>4, KrumFiltered DEF n
    <2> DEFINE u == w[y].value
               v == w[c].value
               m == k * Distance(w, d, e)
    <2>6. u \in Int /\ v \in Int /\ v \in -config.clip .. config.clip
        BY EntriesType DEF Entries
    <2>7. m \in Nat
        <3> DEFINE z == w[d].value - w[e].value
        <3>1. z \in Int /\ Distance(w, d, e) = z * z
            BY EntriesType DEF Distance
        <3>2. k \in Nat
            BY <1>1, <2>1, KrumNumbers
        <3> HIDE DEF z, k
        <3>3. z * z \in Nat
            BY <3>1
        <3>4. k * (z * z) \in Nat
            BY <3>2, <3>3
        <3> QED
            BY <3>1, <3>4
    <2>8. (v - u) * (v - u) <= m
        BY <2>5 DEF Distance
    <2>9. AtMost(Whole(v), x) /\ AtMost(x, Whole(v))
        <3>1. a = Whole(v) /\ a \in Fraction /\ AtMost(Whole(v), a) /\ AtMost(a, Whole(v))
            BY <2>2, <2>6, WholeType DEF AtMost, Whole
        <3> HIDE DEF v
        <3> QED
            BY <2>6, <3>1, NoiselessBetween DEF x
    <2> HIDE DEF u, v, m
    <2>10. AtMost(Square(Minus(x, Whole(u))), Whole(m))
        BY <1>2, <2>6, <2>7, <2>8, <2>9, SquareAtMost
    <2> HIDE DEF k
    <2> QED
        BY <2>10 DEF NearOne, k, n, x, m, u
<1> QED
    BY <1>3, <1>4

(* Take away any clients, as many as the strategy allows for: the published*)
(* model is still between the others (trimmed mean), or not farther from   *)
(* one of them than k of their widest distances (Krum).                    *)
THEOREM AggregateFiltersOutliers == AggregationSpec => []OutliersFiltered
<1>1. AggregationInit => OutliersFiltered
    BY DEF AggregationInit, OutliersFiltered
<1>2. AggregationInv /\ OutliersFiltered /\ [AggregationNext]_aggregationVars
          => OutliersFiltered'
    <2> SUFFICES ASSUME AggregationInv, OutliersFiltered, [AggregationNext]_aggregationVars
                 PROVE  OutliersFiltered'
        OBVIOUS
    <2>1. config \in Configs
        BY DEF AggregationInv, AggregationTypeOK
    <2>2. CASE UNCHANGED aggregationVars
        <3>1. /\ config' = config /\ averaged' = averaged /\ latest' = latest
              /\ Plain' <=> Plain
            BY <2>2 DEF aggregationVars, Plain
        <3>2. \A n : Tolerated(n)' = Tolerated(n)
            BY <3>1 DEF Tolerated, TrimCount
        <3>3. \A S : FilteredBy(S)' <=> FilteredBy(S)
            BY <3>1 DEF FilteredBy
        <3> QED
            BY <3>1, <3>2, <3>3 DEF OutliersFiltered
    <2>3. ASSUME NEW c \in Clients, NEW v \in Values, NEW s \in Sizes, Published(c, v, s),
                 Plain', config.strategy # "fedavg",
                 NEW B \in SUBSET DOMAIN averaged',
                 Cardinality(B) = Tolerated(Cardinality(DOMAIN averaged'))
          PROVE  IF config.strategy = "krum"
                 THEN NearOne(latest', averaged', DOMAIN averaged' \ B)
                 ELSE Between(latest', averaged', DOMAIN averaged' \ B)
        <3> DEFINE w == averaged'
        <3>1. Entries(w) /\ DOMAIN w # {}
            BY <2>3, Publication
        <3>2. PICK a \in Aggregates(w) : a \in Fraction /\ latest' = Noised(a, 0)
            BY <2>3, PlainPublication
        <3> HIDE DEF w
        <3>3. CASE config.strategy = "krum"
            <4>1. a \in AggKrum(w)
                BY <3>2, <3>3 DEF Aggregates
            <4>2. Cardinality(B) = IF Cardinality(DOMAIN w) < 3 THEN 0
                                   ELSE KrumOutliers(Cardinality(DOMAIN w))
                BY <2>3, <3>3 DEF Tolerated, w
            <4>3. B \in SUBSET DOMAIN w
                BY <2>3 DEF w
            <4>4. NearOne(Noised(a, 0), w, DOMAIN w \ B)
                BY <2>1, <3>1, <3>2, <4>1, <4>2, <4>3, KrumNearOne
            <4> QED
                BY <3>2, <3>3, <4>4 DEF w
        <3>4. CASE config.strategy # "krum"
            <4>1. config.strategy = "trimmed_mean"
                BY <2>1, <2>3, <3>4, ConfigType
            <4>2. a = AggTrimmedMean(w)
                BY <3>2, <4>1 DEF Aggregates
            <4>3. Cardinality(B) = TrimCount(Cardinality(DOMAIN w)) /\ B \in SUBSET DOMAIN w
                BY <2>3, <4>1 DEF Tolerated, w
            <4>4. Cardinality(B) <= TrimCount(Cardinality(DOMAIN w))
                <5>1. IsFiniteSet(DOMAIN w)
                    BY <3>1 DEF Entries
                <5>2. Cardinality(B) \in Nat
                    BY <4>3, <5>1, SubsetIsFinite
                <5> QED
                    BY <4>3, <5>2
            <4>5. Between(a, w, DOMAIN w \ B)
                BY <2>1, <3>1, <4>2, <4>3, <4>4, TrimmedMeanFiltered
            <4>6. DOMAIN w \ B \in SUBSET DOMAIN w
                OBVIOUS
            <4>7. Between(Noised(a, 0), w, DOMAIN w \ B)
                BY <2>1, <3>1, <3>2, <4>5, <4>6, BetweenStays
            <4> QED
                BY <3>2, <3>4, <4>7 DEF w
        <3> QED
            BY <3>3, <3>4
    <2>4. CASE /\ config' = config
               /\ \E c \in Clients, v \in Values, s \in Sizes : Published(c, v, s)
        <3>1. \A n : Tolerated(n)' = Tolerated(n)
            BY <2>4 DEF Tolerated, TrimCount
        <3> SUFFICES ASSUME Plain', config'.strategy # "fedavg",
                            NEW B \in SUBSET DOMAIN averaged',
                            Cardinality(B) = Tolerated(Cardinality(DOMAIN averaged'))
                     PROVE  FilteredBy(DOMAIN averaged \ B)'
            BY <3>1 DEF OutliersFiltered, kSubset
        <3>2. IF config.strategy = "krum"
              THEN NearOne(latest', averaged', DOMAIN averaged' \ B)
              ELSE Between(latest', averaged', DOMAIN averaged' \ B)
            BY <2>3, <2>4
        <3> QED
            BY <2>4, <3>2 DEF FilteredBy, NearOne, Between
    <2>5. CASE averaged' = NoEntries
        BY <2>5 DEF OutliersFiltered
    <2> QED
        BY <2>2, <2>4, <2>5, OnlyPublicationAverages
<1> QED
    BY <1>1, <1>2, AggregationInvHolds, PTL DEF AggregationSpec

-----------------------------------------------------------------------------
(* Momentum *)

WithinClip(x) == AtMost(Whole(-config.clip), x) /\ AtMost(x, Whole(config.clip))

(* While momentum is below 1 and no dataset sizes have wrapped, the        *)
(* velocity stays within what its series tends to.                         *)
MomentumInv ==
    /\ latest # None => WithinClip(latest)
    /\ \A model \in published : WithinClip(model)
    /\ config.momentum.num < config.momentum.den /\ ~wrapped =>
          /\ AtMost(velocity, Limit(config.momentum, 2 * config.clip))
          /\ AtMost(Limit(config.momentum, -2 * config.clip), velocity)

LEMMA BetweenWithinClip ==
    ASSUME config \in Configs, NEW w, Entries(w), NEW a \in Fraction, Between(a, w, DOMAIN w)
    PROVE  WithinClip(a)
<1>1. PICK c, d \in DOMAIN w : AtMost(Whole(w[c].value), a) /\ AtMost(a, Whole(w[d].value))
    BY DEF Between
<1>2. /\ w[c].value \in Int /\ w[d].value \in Int /\ config.clip \in Nat
      /\ -config.clip <= w[c].value /\ w[d].value <= config.clip
    BY ConfigType, EntriesType
<1> DEFINE k == config.clip
           lo == w[c].value
           hi == w[d].value
<1>3. AtMost(Whole(-k), Whole(lo)) /\ AtMost(Whole(hi), Whole(k))
    BY <1>2 DEF AtMost, Whole
<1>4. /\ Whole(-k) \in Fraction /\ Whole(lo) \in Fraction
      /\ Whole(hi) \in Fraction /\ Whole(k) \in Fraction
    BY <1>2, WholeType
<1>5. AtMost(Whole(lo), a) /\ AtMost(a, Whole(hi))
    BY <1>1
<1> HIDE DEF k, lo, hi
<1>6. AtMost(Whole(-k), a) /\ AtMost(a, Whole(k))
    BY <1>3, <1>4, <1>5, AtMostTransitive
<1> QED
    BY <1>6 DEF WithinClip, k

LEMMA VelocityBounded ==
    ASSUME AggregationInv, MomentumInv, NEW a \in Fraction, WithinClip(a),
           config.momentum.num < config.momentum.den, ~wrapped
    PROVE  /\ AtMost(NextVelocity(a), Limit(config.momentum, 2 * config.clip))
           /\ AtMost(Limit(config.momentum, -2 * config.clip), NextVelocity(a))
<1> DEFINE m == config.momentum
           k == config.clip
           up == Limit(m, 2 * k)
           down == Limit(m, -2 * k)
           pull == Minus(a, latest)
<1>1. /\ m \in Fraction /\ m.num >= 0 /\ m.num < m.den
      /\ k \in Nat /\ 2 * k \in Int /\ -2 * k \in Int
    BY ConfigType DEF AggregationInv, AggregationTypeOK
<1>2. velocity \in Fraction /\ AtMost(velocity, up) /\ AtMost(down, velocity)
    BY DEF AggregationInv, AggregationTypeOK, MomentumInv
<1>3. AtMost(Whole(-k), a) /\ AtMost(a, Whole(k))
    BY DEF WithinClip
<1>4. CASE ~Smoothing
    BY <1>2, <1>4 DEF NextVelocity
<1>5. CASE Smoothing
    <2>1. latest \in Fraction /\ AtMost(Whole(-k), latest) /\ AtMost(latest, Whole(k))
        BY <1>5 DEF AggregationInv, AggregationTypeOK, MomentumInv, WithinClip, Smoothing
    <2>2. NextVelocity(a) = Plus(Times(m, velocity), pull)
        BY <1>5 DEF NextVelocity
    <2> HIDE DEF m, k
    <2>3. pull \in Fraction /\ AtMost(pull, Whole(2 * k)) /\ AtMost(Whole(-2 * k), pull)
        <3>1. -k \in Int /\ k - (-k) = 2 * k /\ (-k) - k = -2 * k
            BY <1>1
        <3>2. AtMost(pull, Whole(k - (-k))) /\ AtMost(Whole((-k) - k), pull)
            BY <1>1, <1>3, <2>1, <3>1, MinusMonotone
        <3>3. pull \in Fraction
            BY <2>1, ArithmeticType
        <3> HIDE DEF pull
        <3> QED
            BY <3>1, <3>2, <3>3
    <2>4. /\ up \in Fraction
          /\ Plus(Times(m, up), Whole(2 * k)) \in Fraction
          /\ AtMost(Plus(Times(m, up), Whole(2 * k)), up)
        BY <1>1, LimitIsLimit
    <2>5. /\ down \in Fraction
          /\ Plus(Times(m, down), Whole(-2 * k)) \in Fraction
          /\ AtMost(down, Plus(Times(m, down), Whole(-2 * k)))
        BY <1>1, LimitIsLimit
    <2> HIDE DEF up, down, pull
    <2>6. /\ Times(m, velocity) \in Fraction /\ Times(m, up) \in Fraction
          /\ Times(m, down) \in Fraction
          /\ Whole(2 * k) \in Fraction /\ Whole(-2 * k) \in Fraction
        BY <1>1, <1>2, <2>4, <2>5, ArithmeticType, WholeType
    <2>7. AtMost(Times(m, velocity), Times(m, up)) /\ AtMost(Times(m, down), Times(m, velocity))
        BY <1>1, <1>2, <2>4, <2>5, TimesMonotone
    <2>8. /\ AtMost(Plus(Times(m, velocity), pull), Plus(Times(m, up), Whole(2 * k)))
          /\ AtMost(Plus(Times(m, down), Whole(-2 * k)), Plus(Times(m, velocity), pull))
        BY <2>3, <2>6, <2>7, PlusMonotone
    <2>9. Plus(Times(m, velocity), pull) \in Fraction
        BY <2>3, <2>6, ArithmeticType
    <2>10. /\ AtMost(Plus(Times(m, velocity), pull), up)
           /\ AtMost(down, Plus(Times(m, velocity), pull))
        BY <2>4, <2>5, <2>8, <2>9, AtMostTransitive
    <2> QED
        BY <2>2, <2>10 DEF up, down, m, k
<1> QED
    BY <1>4, <1>5

LEMMA ZeroVelocityBounded ==
    ASSUME config \in Configs, config.momentum.num < config.momentum.den
    PROVE  /\ AtMost(Whole(0), Limit(config.momentum, 2 * config.clip))
           /\ AtMost(Limit(config.momentum, -2 * config.clip), Whole(0))
<1> DEFINE b == config.momentum.den
           d == config.momentum.den - config.momentum.num
           k == config.clip
<1>1. b \in Nat \ {0} /\ d \in Nat \ {0} /\ k \in Nat
    BY ConfigType DEF Fraction
<1>2. /\ Limit(config.momentum, 2 * config.clip) = Ratio((2 * k) * b, d)
      /\ Limit(config.momentum, -2 * config.clip) = Ratio((-2 * k) * b, d)
    BY DEF Limit
<1> HIDE DEF b, d, k
<1>3. /\ (2 * k) * b \in Int /\ 0 * d <= (2 * k) * b
      /\ (-2 * k) * b \in Int /\ (-2 * k) * b <= 0 * d
    <2>1. k * b \in Nat
        BY <1>1
    <2>2. (2 * k) * b = 2 * (k * b) /\ (-2 * k) * b = -(2 * (k * b)) /\ 0 * d = 0
        BY <1>1
    <2> QED
        BY <2>1, <2>2
<1>4. AtMost(Whole(0), Ratio((2 * k) * b, d)) /\ AtMost(Ratio((-2 * k) * b, d), Whole(0))
    <2> DEFINE x == (2 * k) * b
               y == (-2 * k) * b
    <2> HIDE DEF x, y
    <2>1. x \in Int /\ y \in Int /\ 0 * d <= x /\ y <= 0 * d /\ 0 \in Int
        BY <1>3 DEF x, y
    <2>2. AtMost(Whole(0), Ratio(x, d)) /\ AtMost(Ratio(y, d), Whole(0))
        BY <1>1, <2>1, RatioAtMostWhole
    <2> QED
        BY <2>2 DEF x, y
<1> QED
    BY <1>2, <1>4

LEMMA MomentumInvInit == AggregationInit => MomentumInv
<1> SUFFICES ASSUME AggregationInit
             PROVE  MomentumInv
    OBVIOUS
<1>1. config \in Configs /\ velocity = Whole(0) /\ latest = None /\ published = {}
    BY DEF AggregationInit
<1> QED
    BY <1>1, ZeroVelocityBounded DEF MomentumInv

LEMMA MomentumInvStep ==
    AggregationInv /\ MomentumInv /\ [AggregationNext]_aggregationVars => MomentumInv'
<1> SUFFICES ASSUME AggregationInv, MomentumInv, [AggregationNext]_aggregationVars
             PROVE  MomentumInv'
    OBVIOUS
<1> DEFINE Bounded(x) == /\ AtMost(x, Limit(config.momentum, 2 * config.clip))
                         /\ AtMost(Limit(config.momentum, -2 * config.clip), x)
           Below1 == config.momentum.num < config.momentum.den
<1>1. /\ config \in Configs
      /\ latest # None => WithinClip(latest)
      /\ \A model \in published : WithinClip(model)
      /\ Below1 /\ ~wrapped => Bounded(velocity)
    BY DEF AggregationInv, AggregationTypeOK, MomentumInv
<1>2. SUFFICES /\ config' = config
               /\ latest' # None => WithinClip(latest')
               /\ \A model \in published' : WithinClip(model)
               /\ Below1 /\ ~wrapped' => Bounded(velocity')
    BY <1>2 DEF MomentumInv, WithinClip
<1>3. CASE UNCHANGED aggregationVars
    BY <1>1, <1>3 DEF aggregationVars
<1>4. ASSUME NEW c \in Clients, NEW v \in Values, NEW s \in Sizes,
             AddWeightAndCheckAggregate(c, v, s)
      PROVE  /\ config' = config
             /\ latest' # None => WithinClip(latest')
             /\ \A model \in published' : WithinClip(model)
             /\ Below1 /\ ~wrapped' => Bounded(velocity')
    <2> DEFINE w == WithEntry(c, v, s)
    <2>1. Entries(w) /\ DOMAIN w # {}
        BY EntryAdded
    <2> HIDE DEF w
    <2>2. ASSUME NEW a \in Aggregates(w), velocity' = NextVelocity(a),
                 wrapped' = (wrapped \/ Wraps(w)), Below1, ~wrapped'
          PROVE  Bounded(velocity')
        <3>1. ~wrapped /\ ~Wraps(w)
            BY <2>2
        <3>2. a \in Fraction /\ Between(a, w, DOMAIN w)
            BY <1>1, <2>1, <3>1, AggregatesBetween
        <3>3. WithinClip(a)
            BY <1>1, <2>1, <3>2, BetweenWithinClip
        <3> QED
            BY <2>2, <3>1, <3>2, <3>3, VelocityBounded
    <2> HIDE DEF Bounded, Below1
    <2>3. CASE Buffered(c, v, s)
        BY <1>1, <2>3 DEF Buffered
    <2>4. CASE WriteFails(c, v, s)
        <3>1. PICK a \in Aggregates(w) : velocity' = NextVelocity(a)
            BY <2>4 DEF WriteFails, w
        <3>2. wrapped' = (wrapped \/ Wraps(w))
            BY <2>4 DEF WriteFails, w
        <3>3. config' = config /\ latest' = latest /\ published' = published
            BY <2>4 DEF WriteFails
        <3> QED
            BY <1>1, <2>2, <3>1, <3>2, <3>3
    <2>5. CASE Published(c, v, s)
        <3>1. PICK a \in Aggregates(w) : /\ velocity' = NextVelocity(a)
                                         /\ latest' = Noised(Smoothed(a), noise')
            BY <2>5 DEF Published, w
        <3>2. wrapped' = (wrapped \/ Wraps(w))
            BY <2>5 DEF Published, w
        <3>3. config' = config /\ published' = published \union {latest'}
            BY <2>5 DEF Published
        <3>4. WithinClip(latest')
            <4>1. a \in Fraction
                BY <1>1, <2>1, AggregatesBetween
            <4>2. Smoothed(a) \in Fraction
                BY <4>1, NextVelocityType
            <4>3. noise' \in Int
                BY <2>5, Publication
            <4> QED
                BY <1>1, <3>1, <4>2, <4>3, NoisedBounds DEF WithinClip
        <3> QED
            BY <1>1, <2>2, <3>1, <3>2, <3>3, <3>4
    <2> QED
        BY <1>4, <2>3, <2>4, <2>5 DEF AddWeightAndCheckAggregate
<1>5. ASSUME NEW model \in published, RestoreLatestGlobalModel(model)
      PROVE  /\ config' = config
             /\ latest' # None => WithinClip(latest')
             /\ \A x \in published' : WithinClip(x)
             /\ Below1 /\ ~wrapped' => Bounded(velocity')
    BY <1>1, <1>5 DEF RestoreLatestGlobalModel
<1>6. CASE Restart
    <2>1. Below1 => Bounded(Whole(0))
        BY <1>1, ZeroVelocityBounded
    <2> HIDE DEF Bounded, Below1
    <2> QED
        BY <1>1, <1>6, <2>1 DEF Restart
<1> QED
    BY <1>3, <1>4, <1>5, <1>6 DEF AggregationNext

(* The velocity, less the share momentum takes of it, is never more than a *)
(* round's pull.                                                           *)
LEMMA MomentumInvBounds == AggregationInv /\ MomentumInv => MomentumBounded
<1> SUFFICES ASSUME AggregationInv, MomentumInv,
                    config.momentum.num < config.momentum.den, ~wrapped
             PROVE  LET slack == Ratio(config.momentum.den - config.momentum.num,
                                       config.momentum.den)
                        pull == Times(velocity, slack)
                    IN /\ AtMost(pull, Whole(2 * config.clip))
                       /\ AtMost(Whole(-2 * config.clip), pull)
    BY DEF MomentumBounded
<1> DEFINE m == config.momentum
           k == config.clip
           up == Limit(m, 2 * k)
           down == Limit(m, -2 * k)
           slack == Ratio(m.den - m.num, m.den)
<1>1. /\ m \in Fraction /\ m.num >= 0 /\ m.num < m.den
      /\ 2 * k \in Int /\ -2 * k \in Int
    BY ConfigType DEF AggregationInv, AggregationTypeOK
<1>2. velocity \in Fraction /\ AtMost(velocity, up) /\ AtMost(down, velocity)
    BY DEF AggregationInv, AggregationTypeOK, MomentumInv
<1> HIDE DEF m, k
<1>3. /\ slack \in Fraction /\ slack.num >= 0
      /\ AtMost(Times(slack, up), Whole(2 * k))
    BY <1>1, LimitTimesSlack
<1>4. AtMost(Whole(-2 * k), Times(slack, down))
    BY <1>1, LimitTimesSlack
<1>5. up \in Fraction /\ down \in Fraction
    BY <1>1, LimitIsLimit
<1> HIDE DEF up, down, slack
<1>6. /\ AtMost(Times(slack, velocity), Times(slack, up))
      /\ AtMost(Times(slack, down), Times(slack, velocity))
    BY <1>2, <1>3, <1>5, TimesMonotone
<1>7. /\ Times(slack, velocity) \in Fraction /\ Times(slack, up) \in Fraction
      /\ Times(slack, down) \in Fraction
      /\ Whole(2 * k) \in Fraction /\ Whole(-2 * k) \in Fraction
    BY <1>1, <1>2, <1>3, <1>5, ArithmeticType, WholeType
<1>8. /\ AtMost(Times(slack, velocity), Whole(2 * k))
      /\ AtMost(Whole(-2 * k), Times(slack, velocity))
    BY <1>3, <1>4, <1>6, <1>7, AtMostTransitive
<1>9. Times(slack, velocity) = Times(velocity, slack)
    BY <1>2, <1>3, TimesCommutes
<1> QED
    BY <1>8, <1>9 DEF slack, m, k

(* Server momentum below 1 never builds up beyond the sum of its series,   *)
(* whatever rounds are counted twice and whatever a rollback skips.        *)
THEOREM MomentumNeverBuildsUp == AggregationSpec => []MomentumBounded
BY AggregationInvHolds, MomentumInvInit, MomentumInvStep, MomentumInvBounds,
   PTL DEF AggregationSpec

===============================================================================
