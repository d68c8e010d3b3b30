---- MODULE DataFacts ----
(***************************************************************************)
(* Facts about the data the models are built from, for any data: the       *)
(* greatest element of a set, sums, and folds over sequences.  What is     *)
(* computed along a set is proved by induction over its subsets: of those  *)
(* for which a claim fails, one would be least.                            *)
(***************************************************************************)
EXTENDS Integers, Sequences, FiniteSets, FiniteSetsExt, Functions, SequenceTheorems,
        FiniteSetTheorems, WellFoundedInduction, TLAPS

(* Every family of subsets of a finite set has a least member.             *)
LEMMA LeastSubset ==
  ASSUME NEW S, IsFiniteSet(S), NEW F, F \subseteq SUBSET S, F # {}
  PROVE  \E T \in F : \A U \in F : U \subseteq T => U = T
<1>1. F \subseteq FiniteSubsetsOf(S)
  BY FS_FiniteSubsetsOfFinite
<1>2. PICK T \in F : \A U \in F : ~(<<U, T>> \in StrictSubsetOrdering(S))
  BY <1>1, WFMin, FS_StrictSubsetOrderingWellFounded
<1> QED BY <1>2, <1>1 DEF StrictSubsetOrdering, FiniteSubsetsOf

(* Induction over the subsets of a finite set.                             *)
LEMMA SubsetInduction ==
  ASSUME NEW S, IsFiniteSet(S), NEW G,
         \A T \in SUBSET S : (\A U \in SUBSET T : U # T => U \in G) => T \in G
  PROVE  \A T \in SUBSET S : T \in G
<1> DEFINE F == {T \in SUBSET S : T \notin G}
<1>1. F \subseteq SUBSET S
  OBVIOUS
<1>2. SUFFICES ASSUME F # {} PROVE FALSE
  OBVIOUS
<1>3. PICK T \in F : \A U \in F : U \subseteq T => U = T
  <2> HIDE DEF F
  <2> QED BY <1>1, <1>2, LeastSubset
<1> QED BY <1>3

LEMMA MaxOfFinite ==
  ASSUME NEW S \in SUBSET Int, IsFiniteSet(S), S # {}
  PROVE  Max(S) \in S /\ \A y \in S : y <= Max(S)
<1> DEFINE G == {T \in SUBSET S : T # {} => \E x \in T : \A y \in T : x >= y}
<1>1. ASSUME NEW T \in SUBSET S, \A U \in SUBSET T : U # T => U \in G
      PROVE  T \in G
  <2>1. SUFFICES ASSUME T # {} PROVE \E x \in T : \A y \in T : x >= y
    OBVIOUS
  <2>2. PICK t \in T : TRUE
    BY <2>1
  <2>3. T \ {t} \in G
    BY <1>1, <2>2
  <2>4. CASE T = {t}
    BY <2>4
  <2>5. CASE T # {t}
    <3>1. T \ {t} # {}
      BY <2>2, <2>5
    <3>2. PICK x \in T \ {t} : \A y \in T \ {t} : x >= y
      BY <2>3, <3>1
    <3> QED BY <3>2
  <2> QED BY <2>4, <2>5
<1>2. S \in G
  <2> HIDE DEF G
  <2> QED BY <1>1, SubsetInduction
<1> QED BY <1>2 DEF Max

LEMMA MinOfFinite ==
  ASSUME NEW S \in SUBSET Int, IsFiniteSet(S), S # {}
  PROVE  Min(S) \in S /\ \A y \in S : Min(S) <= y
<1> DEFINE G == {T \in SUBSET S : T # {} => \E x \in T : \A y \in T : x <= y}
<1>1. ASSUME NEW T \in SUBSET S, \A U \in SUBSET T : U # T => U \in G
      PROVE  T \in G
  <2>1. SUFFICES ASSUME T # {} PROVE \E x \in T : \A y \in T : x <= y
    OBVIOUS
  <2>2. PICK t \in T : TRUE
    BY <2>1
  <2>3. T \ {t} \in G
    BY <1>1, <2>2
  <2>4. CASE T = {t}
    BY <2>4
  <2>5. CASE T # {t}
    <3>1. T \ {t} # {}
      BY <2>2, <2>5
    <3>2. PICK x \in T \ {t} : \A y \in T \ {t} : x <= y
      BY <2>3, <3>1
    <3> QED BY <3>2
  <2> QED BY <2>4, <2>5
<1>2. S \in G
  <2> HIDE DEF G
  <2> QED BY <1>1, SubsetInduction
<1> QED BY <1>2 DEF Min

-----------------------------------------------------------------------------
(* A fold takes the elements c chooses from a set one after the other;     *)
(* step says what a set adds to the value of what is left of it.           *)

Chooses(c, S) == \A s \in SUBSET S : s # {} => c[s] \in s
Folded(g, S, c, base, step) ==
    \A s \in SUBSET S : g[s] = IF s = {} THEN base ELSE step[<<s, g[s \ {c[s]}]>>]

LEMMA FoldUnique ==
  ASSUME NEW S, IsFiniteSet(S), NEW c, Chooses(c, S), NEW base, NEW step,
         NEW g, Folded(g, S, c, base, step), NEW k, Folded(k, S, c, base, step)
  PROVE  \A s \in SUBSET S : g[s] = k[s]
<1> DEFINE G == {T \in SUBSET S : g[T] = k[T]}
<1>1. ASSUME NEW T \in SUBSET S, \A U \in SUBSET T : U # T => U \in G
      PROVE  T \in G
  <2>1. CASE T = {}
    BY <2>1 DEF Folded
  <2>2. CASE T # {}
    <3>1. c[T] \in T
      BY <2>2 DEF Chooses
    <3>2. T \ {c[T]} \in G
      BY <1>1, <3>1
    <3>3. /\ g[T] = step[<<T, g[T \ {c[T]}]>>]
          /\ k[T] = step[<<T, k[T \ {c[T]}]>>]
      BY <2>2 DEF Folded
    <3> QED BY <3>2, <3>3
  <2> QED BY <2>1, <2>2
<1>2. \A T \in SUBSET S : T \in G
  <2> HIDE DEF G
  <2> QED BY <1>1, SubsetInduction
<1> QED BY <1>2

LEMMA FoldExists ==
  ASSUME NEW S, IsFiniteSet(S), NEW c, Chooses(c, S), NEW V, NEW base \in V, NEW step,
         \A s \in SUBSET S, v \in V : s # {} => step[<<s, v>>] \in V
  PROVE  \E g \in [SUBSET S -> V] : Folded(g, S, c, base, step)
<1> DEFINE Some(T) == CHOOSE g \in [SUBSET T -> V] : Folded(g, T, c, base, step)
           G == {T \in SUBSET S : \E g \in [SUBSET T -> V] : Folded(g, T, c, base, step)}
<1>1. ASSUME NEW T \in SUBSET S, \A U \in SUBSET T : U # T => U \in G
      PROVE  T \in G
  <2>1. \A U \in SUBSET T : U # T => Some(U) \in [SUBSET U -> V] /\ Folded(Some(U), U, c, base, step)
    BY <1>1
  <2> HIDE DEF Some
  <2> DEFINE Last == IF T = {} THEN base ELSE step[<<T, Some(T \ {c[T]})[T \ {c[T]}]>>]
             g == [s \in SUBSET T |-> IF s = T THEN Last ELSE Some(s)[s]]
  <2>2. T # {} => c[T] \in T /\ T \ {c[T]} \in SUBSET T /\ T \ {c[T]} # T
    BY DEF Chooses
  <2>3. Last \in V
    <3>1. CASE T = {}
      BY <3>1
    <3>2. CASE T # {}
      <4>1. Some(T \ {c[T]})[T \ {c[T]}] \in V
        <5> DEFINE r == T \ {c[T]}
        <5>1. r \in SUBSET T /\ r # T /\ Some(r) \in [SUBSET r -> V]
          BY <2>1, <2>2, <3>2
        <5> HIDE DEF r
        <5>2. r \in SUBSET r
          OBVIOUS
        <5>3. Some(r)[r] \in V
          BY <5>1, <5>2
        <5> QED BY <5>3 DEF r
      <4> QED BY <3>2, <4>1
    <3> QED BY <3>1, <3>2
  <2>4. g \in [SUBSET T -> V]
    <3> HIDE DEF Last
    <3> QED BY <2>1, <2>3
  <2>5. ASSUME NEW s \in SUBSET T
        PROVE  g[s] = IF s = {} THEN base ELSE step[<<s, g[s \ {c[s]}]>>]
    <3>1. CASE s = T
      BY <2>2, <3>1
    <3>2. CASE s # T /\ s = {}
      BY <2>1, <3>2 DEF Folded
    <3>3. CASE s # T /\ s # {}
      <4> DEFINE r == s \ {c[s]}
      <4>1. c[s] \in s /\ r \in SUBSET s /\ r # s /\ r \in SUBSET T /\ r # T
        BY <3>3 DEF Chooses
      <4>2. /\ Folded(Some(s), s, c, base, step) /\ Folded(Some(r), r, c, base, step)
        BY <2>1, <3>3, <4>1
      <4>3. Folded(Some(s), r, c, base, step)
        BY <4>1, <4>2 DEF Folded
      <4>4. IsFiniteSet(r) /\ Chooses(c, r)
        BY <4>1, FS_Subset DEF Chooses
      <4>5. Some(s)[r] = Some(r)[r]
        <5> HIDE DEF r
        <5> QED BY <4>2, <4>3, <4>4, FoldUnique
      <4>6. Some(s)[s] = step[<<s, Some(s)[r]>>]
        BY <3>3, <4>2 DEF Folded
      <4>7. g[s] = Some(s)[s] /\ g[r] = Some(r)[r]
        BY <3>3, <4>1
      <4> QED BY <3>3, <4>5, <4>6, <4>7
    <3> QED BY <3>1, <3>2, <3>3
  <2>6. Folded(g, T, c, base, step)
    <3> HIDE DEF g
    <3> QED BY <2>5 DEF Folded
  <2> QED
    <3> HIDE DEF g
    <3> QED BY <2>4, <2>6
<1>2. S \in G
  <2> HIDE DEF G
  <2> QED BY <1>1, SubsetInduction
<1> QED BY <1>2

-----------------------------------------------------------------------------
(* Sums over a function.                                                   *)

Choice(S) == [s \in SUBSET S |-> CHOOSE x \in s : TRUE]
Adding(f, S) == [p \in (SUBSET S) \X Int |-> f[Choice(S)[p[1]]] + p[2]]

LEMMA ChoiceChooses == ASSUME NEW S PROVE Chooses(Choice(S), S)
BY DEF Chooses, Choice

LEMMA AddingAdds ==
  ASSUME NEW S, NEW f, NEW s \in SUBSET S, NEW v \in Int
  PROVE  Adding(f, S)[<<s, v>>] = f[Choice(S)[s]] + v
<1>1. <<s, v>> \in (SUBSET S) \X Int /\ <<s, v>>[1] = s /\ <<s, v>>[2] = v
  OBVIOUS
<1> QED BY <1>1 DEF Adding

(* The recursion of a sum is that of a fold.                               *)
LEMMA SumFolds ==
  ASSUME NEW S, IsFiniteSet(S), NEW f \in [S -> Int]
  PROVE  \E g \in [SUBSET S -> Int] :
             Folded(g, S, Choice(S), 0, Adding(f, S)) /\ SumFunction(f) = g[S]
<1> DEFINE Sums(g) ==
             g = [s \in SUBSET S |->
                     IF s = {} THEN 0
                     ELSE f[CHOOSE x \in s : TRUE] + g[s \ {CHOOSE x \in s : TRUE}]]
           iter == CHOOSE g : Sums(g)
           c == Choice(S)
           a == Adding(f, S)
<1>c. \A s \in SUBSET S : c[s] = CHOOSE x \in s : TRUE
  BY DEF Choice
<1>d. Chooses(c, S)
  BY ChoiceChooses
<1>a. \A s \in SUBSET S, v \in Int : a[<<s, v>>] = f[c[s]] + v
  BY AddingAdds
<1> HIDE DEF c, a
<1>1. \A s \in SUBSET S, v \in Int : s # {} => a[<<s, v>>] \in Int
  BY <1>a, <1>d DEF Chooses
<1>2. PICK g \in [SUBSET S -> Int] : Folded(g, S, c, 0, a)
  <2>1. 0 \in Int
    OBVIOUS
  <2> DEFINE V == Int
  <2>2. \A s \in SUBSET S, v \in V : s # {} => a[<<s, v>>] \in V
    BY <1>1
  <2>3. 0 \in V
    OBVIOUS
  <2> HIDE DEF V
  <2>4. \E h \in [SUBSET S -> V] : Folded(h, S, c, 0, a)
    BY <1>d, <2>2, <2>3, FoldExists
  <2> QED BY <2>4 DEF V
<1>3. \A s \in SUBSET S : s # {} => g[s] = f[c[s]] + g[s \ {c[s]}]
  <2>1. ASSUME NEW s \in SUBSET S, s # {}
        PROVE  g[s] = f[c[s]] + g[s \ {c[s]}]
    <3>1. g[s \ {c[s]}] \in Int
      OBVIOUS
    <3>2. g[s] = a[<<s, g[s \ {c[s]}]>>]
      BY <1>2, <2>1 DEF Folded
    <3> QED BY <3>1, <3>2, <1>a
  <2> QED BY <2>1
<1>g. g[{}] = 0
  BY <1>2 DEF Folded
<1>4. Sums(g)
  <2> DEFINE b == [s \in SUBSET S |->
                     IF s = {} THEN 0
                     ELSE f[CHOOSE x \in s : TRUE] + g[s \ {CHOOSE x \in s : TRUE}]]
  <2>1. \A s \in SUBSET S : b[s] = IF s = {} THEN 0 ELSE f[c[s]] + g[s \ {c[s]}]
    BY <1>c
  <2>2. b = [s \in SUBSET S |-> b[s]]
    OBVIOUS
  <2>3. g = [s \in SUBSET S |-> g[s]]
    OBVIOUS
  <2> HIDE DEF b
  <2>4. \A s \in SUBSET S : b[s] = g[s]
    BY <2>1, <1>3, <1>g
  <2>5. g = b
    BY <2>2, <2>3, <2>4
  <2> QED BY <2>5 DEF b
<1>5. Sums(iter)
  <2> HIDE DEF Sums
  <2> QED BY <1>4
<1>6. \A s \in SUBSET S : iter[s] = g[s]
  <2> DEFINE G == {T \in SUBSET S : iter[T] = g[T]}
  <2>0. \A s \in SUBSET S : iter[s] = IF s = {} THEN 0 ELSE f[c[s]] + iter[s \ {c[s]}]
    <3> HIDE DEF iter
    <3> QED BY <1>5, <1>c
  <2> HIDE DEF iter, Sums
  <2>1. ASSUME NEW T \in SUBSET S, \A U \in SUBSET T : U # T => U \in G
        PROVE  T \in G
    <3>1. CASE T = {}
      BY <2>0, <1>g, <3>1
    <3>2. CASE T # {}
      <4> DEFINE r == T \ {c[T]}
      <4>1. r \in G
        BY <2>1, <3>2, <1>d DEF Chooses
      <4> QED BY <2>0, <1>3, <3>2, <4>1
    <3> QED BY <3>1, <3>2
  <2>2. \A T \in SUBSET S : T \in G
    <3> HIDE DEF G
    <3> QED BY <2>1, SubsetInduction
  <2> QED BY <2>2
<1>7. SumFunction(f) = iter[S]
  BY DEF SumFunction, SumFunctionOnSet, FoldFunctionOnSet, MapThenFoldSet
<1> QED BY <1>2, <1>6, <1>7 DEF c, a

SumsOver(g, f, S) ==
    /\ g \in [SUBSET S -> Int]
    /\ g[{}] = 0
    /\ \A s \in SUBSET S : s # {} => g[s] = f[Choice(S)[s]] + g[s \ {Choice(S)[s]}]

LEMMA SumRecursion ==
  ASSUME NEW S, IsFiniteSet(S), NEW f \in [S -> Int]
  PROVE  \E g : SumsOver(g, f, S) /\ SumFunction(f) = g[S]
<1>1. PICK g \in [SUBSET S -> Int] :
             Folded(g, S, Choice(S), 0, Adding(f, S)) /\ SumFunction(f) = g[S]
  BY SumFolds
<1> DEFINE c == Choice(S)
           a == Adding(f, S)
<1>2. \A s \in SUBSET S, v \in Int : a[<<s, v>>] = f[c[s]] + v
  BY AddingAdds
<1>3. Chooses(c, S)
  BY ChoiceChooses
<1>4. Folded(g, S, c, 0, a)
  BY <1>1
<1> HIDE DEF c, a
<1>5. \A s \in SUBSET S : s # {} => g[s] = f[c[s]] + g[s \ {c[s]}]
  <2>1. ASSUME NEW s \in SUBSET S, s # {}
        PROVE  g[s] = f[c[s]] + g[s \ {c[s]}]
    <3>1. g[s \ {c[s]}] \in Int
      OBVIOUS
    <3>2. g[s] = a[<<s, g[s \ {c[s]}]>>]
      BY <1>4, <2>1 DEF Folded
    <3> QED BY <3>1, <3>2, <1>2
  <2> QED BY <2>1
<1>6. g[{}] = 0
  BY <1>4 DEF Folded
<1> QED BY <1>1, <1>5, <1>6 DEF SumsOver, c

(* A sum of integers is an integer, of naturals a natural.                 *)
LEMMA SumType ==
  ASSUME NEW S, IsFiniteSet(S), NEW f \in [S -> Int]
  PROVE  /\ SumFunction(f) \in Int
         /\ f \in [S -> Nat] => SumFunction(f) \in Nat
<1>1. PICK g : SumsOver(g, f, S) /\ SumFunction(f) = g[S]
  BY SumRecursion
<1>2. SumFunction(f) \in Int
  BY <1>1 DEF SumsOver
<1>3. ASSUME f \in [S -> Nat] PROVE SumFunction(f) \in Nat
  <2> DEFINE G == {T \in SUBSET S : g[T] \in Nat}
  <2>1. ASSUME NEW T \in SUBSET S, \A U \in SUBSET T : U # T => U \in G
        PROVE  T \in G
    <3>1. CASE T = {}
      BY <1>1, <3>1 DEF SumsOver
    <3>2. CASE T # {}
      <4> DEFINE x == Choice(S)[T]
      <4>1. x \in T
        BY <3>2, ChoiceChooses DEF Chooses
      <4>2. g[T] = f[x] + g[T \ {x}]
        BY <1>1, <3>2 DEF SumsOver
      <4> HIDE DEF x
      <4>3. T \ {x} \in G
        BY <2>1, <4>1
      <4>4. f[x] \in Nat /\ g[T \ {x}] \in Nat
        BY <1>3, <4>1, <4>3
      <4> QED BY <4>2, <4>4
    <3> QED BY <3>1, <3>2
  <2>2. S \in G
    <3> HIDE DEF G
    <3> QED BY <2>1, SubsetInduction
  <2> QED BY <1>1, <2>2
<1> QED BY <1>2, <1>3

(* Zeros sum to zero.                                                      *)
LEMMA SumOfZeros ==
  ASSUME NEW S, IsFiniteSet(S), NEW f \in [S -> Int], \A x \in S : f[x] = 0
  PROVE  SumFunction(f) = 0
<1>1. PICK g : SumsOver(g, f, S) /\ SumFunction(f) = g[S]
  BY SumRecursion
<1> DEFINE G == {T \in SUBSET S : g[T] = 0}
<1>2. ASSUME NEW T \in SUBSET S, \A U \in SUBSET T : U # T => U \in G
      PROVE  T \in G
  <2>1. CASE T = {}
    BY <1>1, <2>1 DEF SumsOver
  <2>2. CASE T # {}
    <3> DEFINE x == Choice(S)[T]
    <3>1. x \in T
      BY <2>2, ChoiceChooses DEF Chooses
    <3>2. g[T] = f[x] + g[T \ {x}]
      BY <1>1, <2>2 DEF SumsOver
    <3> HIDE DEF x
    <3>3. T \ {x} \in G
      BY <1>2, <3>1
    <3> QED BY <3>1, <3>2, <3>3
  <2> QED BY <2>1, <2>2
<1>3. S \in G
  <2> HIDE DEF G
  <2> QED BY <1>2, SubsetInduction
<1> QED BY <1>1, <1>3

(* A sum changes by what one of its terms changes.                         *)
LEMMA SumChange ==
  ASSUME NEW S, IsFiniteSet(S), NEW f \in [S -> Int], NEW h \in [S -> Int],
         NEW z \in S, \A x \in S : x # z => h[x] = f[x]
  PROVE  SumFunction(h) = SumFunction(f) + (h[z] - f[z])
<1>1. PICK g : SumsOver(g, f, S) /\ SumFunction(f) = g[S]
  BY SumRecursion
<1>2. PICK k : SumsOver(k, h, S) /\ SumFunction(h) = k[S]
  BY SumRecursion
<1> DEFINE G == {T \in SUBSET S : k[T] = g[T] + (IF z \in T THEN h[z] - f[z] ELSE 0)}
<1>3. ASSUME NEW T \in SUBSET S, \A U \in SUBSET T : U # T => U \in G
      PROVE  T \in G
  <2>1. CASE T = {}
    BY <1>1, <1>2, <2>1 DEF SumsOver
  <2>2. CASE T # {}
    <3> DEFINE x == Choice(S)[T]
    <3>1. x \in T
      BY <2>2, ChoiceChooses DEF Chooses
    <3>2. g[T] = f[x] + g[T \ {x}] /\ k[T] = h[x] + k[T \ {x}]
      BY <1>1, <1>2, <2>2 DEF SumsOver
    <3> HIDE DEF x
    <3>3. k[T \ {x}] = g[T \ {x}] + (IF z \in T \ {x} THEN h[z] - f[z] ELSE 0)
      BY <1>3, <3>1
    <3>4. /\ g[T \ {x}] \in Int /\ k[T \ {x}] \in Int
          /\ f[x] \in Int /\ h[x] \in Int /\ f[z] \in Int /\ h[z] \in Int
      BY <1>1, <1>2, <3>1 DEF SumsOver
    <3>5. CASE x = z
      BY <3>1, <3>2, <3>3, <3>4, <3>5
    <3>6. CASE x # z
      <4>1. h[x] = f[x]
        BY <3>1, <3>6
      <4> QED BY <3>1, <3>2, <3>3, <3>4, <3>6, <4>1
    <3> QED BY <3>5, <3>6
  <2> QED BY <2>1, <2>2
<1>4. S \in G
  <2> HIDE DEF G
  <2> QED BY <1>3, SubsetInduction
<1> QED BY <1>1, <1>2, <1>4

-----------------------------------------------------------------------------
(* Sequences from the first element to the last: a fold over 1 .. n takes  *)
(* the last element first, so its values on the intervals 1 .. i are those *)
(* of a recursion over i.                                                  *)

LEMMA IntervalInduction ==
  ASSUME NEW n \in Nat, NEW G, 0 \in G, \A i \in 0 .. n - 1 : i \in G => i + 1 \in G
  PROVE  \A i \in 0 .. n : i \in G
<1> DEFINE B == {i \in 0 .. n : i \notin G}
<1>1. B \subseteq 0 .. n
  OBVIOUS
<1>2. SUFFICES ASSUME B # {} PROVE FALSE
  OBVIOUS
<1>3. IsFiniteSet(B) /\ B \in SUBSET Int
  <2>1. IsFiniteSet(0 .. n)
    BY FS_Interval
  <2> QED BY <1>1, <2>1, FS_Subset
<1>4. Min(B) \in B /\ \A y \in B : Min(B) <= y
  <2> HIDE DEF B
  <2> QED BY <1>2, <1>3, MinOfFinite
<1>5. PICK m \in B : \A y \in B : m <= y
  BY <1>4
<1>6. m \in 0 .. n /\ m # 0 /\ m \notin G
  BY <1>5
<1>7. m - 1 \in 0 .. n - 1 /\ m - 1 \notin B
  BY <1>5, <1>6
<1>8. m - 1 \in G /\ (m - 1) + 1 = m
  BY <1>6, <1>7
<1> QED BY <1>6, <1>7, <1>8

Topmost(n) == [s \in SUBSET (1 .. n) |-> Max(s)]

LEMMA TopmostChooses ==
  ASSUME NEW n \in Nat
  PROVE  /\ Chooses(Topmost(n), 1 .. n)
         /\ \A i \in 1 .. n : /\ Topmost(n)[1 .. i] = i
                              /\ 1 .. i \in SUBSET (1 .. n) /\ 1 .. i # {}
                              /\ (1 .. i) \ {i} = 1 .. i - 1
<1>1. \A s \in SUBSET (1 .. n) : s # {} => Max(s) \in s /\ \A y \in s : y <= Max(s)
  <2>1. ASSUME NEW s \in SUBSET (1 .. n), s # {}
        PROVE  Max(s) \in s /\ \A y \in s : y <= Max(s)
    <3>1. IsFiniteSet(s) /\ s \in SUBSET Int
      <4>1. IsFiniteSet(1 .. n)
        BY FS_Interval
      <4>2. IsFiniteSet(s)
        BY <4>1, FS_Subset
      <4> QED BY <4>2
    <3> QED BY <2>1, <3>1, MaxOfFinite
  <2> QED BY <2>1
<1>2. Chooses(Topmost(n), 1 .. n)
  BY <1>1 DEF Chooses, Topmost
<1>3. ASSUME NEW i \in 1 .. n
      PROVE  /\ Topmost(n)[1 .. i] = i
             /\ 1 .. i \in SUBSET (1 .. n) /\ 1 .. i # {}
             /\ (1 .. i) \ {i} = 1 .. i - 1
  <2>1. 1 .. i \in SUBSET (1 .. n) /\ i \in 1 .. i /\ (1 .. i) \ {i} = 1 .. i - 1
    OBVIOUS
  <2>2. Max(1 .. i) \in 1 .. i /\ i <= Max(1 .. i)
    BY <1>1, <2>1
  <2>3. \A m \in 1 .. i : i <= m => m = i
    OBVIOUS
  <2>4. Max(1 .. i) = i
    BY <2>2, <2>3
  <2> QED BY <2>1, <2>4 DEF Topmost
<1> QED BY <1>2, <1>3

(* A fold over a sequence of n elements: from its last element down, and   *)
(* along its beginnings.                                                   *)
Along(g, n, base, step) ==
    /\ g[{}] = base
    /\ \A s \in SUBSET (1 .. n) : s # {} => g[s] = step[<<Max(s), g[s \ {Max(s)}]>>]
    /\ \A i \in 1 .. n : g[1 .. i] = step[<<i, g[1 .. i - 1]>>]

LEMMA FoldSolved ==
  ASSUME NEW n \in Nat, NEW V, NEW base \in V, NEW step,
         \A i \in 1 .. n, v \in V : step[<<i, v>>] \in V
  PROVE  \E g \in [SUBSET (1 .. n) -> V] : Along(g, n, base, step)
<1> DEFINE S == 1 .. n
           c == Topmost(n)
           down == [q \in (SUBSET S) \X V |-> step[<<c[q[1]], q[2]>>]]
<1>1. /\ Chooses(c, S) /\ \A s \in SUBSET S : c[s] = Max(s)
      /\ \A i \in 1 .. n : /\ c[1 .. i] = i /\ (1 .. i) \ {i} = 1 .. i - 1
                           /\ 1 .. i \in SUBSET S /\ 1 .. i # {}
  BY TopmostChooses DEF Topmost
<1>2. IsFiniteSet(S)
  BY FS_Interval
<1> HIDE DEF c, S
<1>3. \A s \in SUBSET S, v \in V : down[<<s, v>>] = step[<<c[s], v>>]
  <2>1. ASSUME NEW s \in SUBSET S, NEW v \in V
        PROVE  down[<<s, v>>] = step[<<c[s], v>>]
    <3>1. <<s, v>> \in (SUBSET S) \X V /\ <<s, v>>[1] = s /\ <<s, v>>[2] = v
      OBVIOUS
    <3> QED BY <3>1
  <2> QED BY <2>1
<1> HIDE DEF down
<1>4. \A s \in SUBSET S, v \in V : s # {} => down[<<s, v>>] \in V
  <2>1. ASSUME NEW s \in SUBSET S, NEW v \in V, s # {}
        PROVE  down[<<s, v>>] \in V
    <3>1. c[s] \in 1 .. n
      BY <1>1, <2>1 DEF Chooses, S
    <3> QED BY <1>3, <3>1
  <2> QED BY <2>1
<1>5. PICK g \in [SUBSET S -> V] : Folded(g, S, c, base, down)
  BY <1>1, <1>2, <1>4, FoldExists
<1>6. g[{}] = base
  BY <1>5 DEF Folded
<1>7. ASSUME NEW s \in SUBSET S, s # {}
      PROVE  g[s] = step[<<c[s], g[s \ {c[s]}]>>]
  <2>1. g[s] = down[<<s, g[s \ {c[s]}]>>] /\ g[s \ {c[s]}] \in V
    BY <1>5, <1>7 DEF Folded
  <2> QED BY <1>3, <2>1
<1>8. \A s \in SUBSET S : s # {} => g[s] = step[<<Max(s), g[s \ {Max(s)}]>>]
  BY <1>1, <1>7
<1>9. \A i \in 1 .. n : g[1 .. i] = step[<<i, g[1 .. i - 1]>>]
  BY <1>1, <1>7
<1>10. Along(g, n, base, step)
  BY <1>6, <1>8, <1>9 DEF Along, S
<1> QED BY <1>10 DEF S

(* Two such folds that begin and go on alike agree.                        *)
Alike(g, h, n) ==
    /\ g[{}] = h[{}]
    /\ \A s \in SUBSET (1 .. n) :
           s # {} /\ g[s \ {Max(s)}] = h[s \ {Max(s)}] => g[s] = h[s]

LEMMA FoldSame ==
  ASSUME NEW n \in Nat, NEW g, NEW h, Alike(g, h, n)
  PROVE  \A s \in SUBSET (1 .. n) : g[s] = h[s]
<1> DEFINE S == 1 .. n
           c == Topmost(n)
           G == {T \in SUBSET S : g[T] = h[T]}
<1>1. Chooses(c, S) /\ \A s \in SUBSET S : c[s] = Max(s)
  BY TopmostChooses DEF Topmost
<1>2. IsFiniteSet(S)
  BY FS_Interval
<1> HIDE DEF c
<1>3. ASSUME NEW T \in SUBSET S, \A U \in SUBSET T : U # T => U \in G
      PROVE  T \in G
  <2>1. CASE T = {}
    BY <2>1 DEF Alike
  <2>2. CASE T # {}
    <3>1. Max(T) \in T
      BY <1>1, <2>2 DEF Chooses
    <3>2. g[T \ {Max(T)}] = h[T \ {Max(T)}]
      BY <1>3, <3>1
    <3> QED BY <2>2, <3>2 DEF Alike
  <2> QED BY <2>1, <2>2
<1>4. \A T \in SUBSET S : T \in G
  <2> HIDE DEF G, S
  <2> QED BY <1>2, <1>3, SubsetInduction
<1> QED BY <1>4
====
