---------------------------- MODULE Sums_proofs ----------------------------
(***************************************************************************)
(* What the models' sums (totals of line items, of a session's orders, of  *)
(* a customer's ledger) do: that they exist, stay numbers, and follow one  *)
(* addend, removed, inserted, made larger or renamed.                      *)
(*                                                                         *)
(* SumFunctionOnSet unfolds to a CHOOSE of a recursive function over the   *)
(* subsets of a set.  The library's induction theorems have an operator as *)
(* a parameter, which cannot be instantiated here, so the inductions below *)
(* are over sets instead: the set of subsets for which a statement holds   *)
(* contains every subset whose proper subsets it contains.                 *)
(***************************************************************************)
EXTENDS Integers, Functions, FiniteSetTheorems, TLAPS

NatOrder == {p \in Nat \X Nat : p[1] < p[2]}

(* A set of naturals that has 0 and the successor of each has them all. *)
LEMMA NatInductionOnSets ==
  ASSUME NEW P, 0 \in P, \A n \in Nat : n \in P => n + 1 \in P
  PROVE  \A n \in Nat : n \in P
<1>1. IsWellFoundedOn(NatOrder, Nat)
  <2>1. ASSUME NEW f \in [Nat -> Nat], \A n \in Nat : f[n + 1] < f[n]
        PROVE  FALSE
    <3>1. ASSUME NEW n \in Nat PROVE <<f[n + 1], f[n]>> \in OpToRel(<, Nat)
      BY <2>1 DEF OpToRel
    <3> QED
      BY <3>1, NatLessThanWellFounded DEF IsWellFoundedOn
  <2> QED
    BY <2>1 DEF IsWellFoundedOn, NatOrder
<1> DEFINE Bad == {n \in Nat : n \notin P}
<1>2. SUFFICES ASSUME Bad # {} PROVE FALSE
  OBVIOUS
<1>3. PICK x \in Bad : \A y \in Bad : ~(<<y, x>> \in NatOrder)
  <2> HIDE DEF Bad
  <2>1. Bad \subseteq Nat
    BY DEF Bad
  <2> QED
    BY <1>1, <1>2, <2>1, WFMin
<1>4. x \in Nat /\ x # 0 /\ x - 1 \in Nat /\ x - 1 < x
  OBVIOUS
<1>5. x - 1 \in P
  BY <1>3, <1>4 DEF NatOrder
<1> QED
  BY <1>4, <1>5

(* Among some subsets of a finite set, one contains no other of them. *)
LEMMA SmallestSet ==
  ASSUME NEW S, IsFiniteSet(S), NEW Bad, Bad \subseteq SUBSET S, Bad # {}
  PROVE  \E T \in Bad : \A U \in Bad : U \subseteq T => U = T
<1>1. Bad \subseteq FiniteSubsetsOf(S)
  BY FS_Subset DEF FiniteSubsetsOf
<1>2. PICK T \in Bad : \A U \in Bad : ~(<<U, T>> \in StrictSubsetOrdering(S))
  BY <1>1, FS_StrictSubsetOrderingWellFounded, WFMin
<1> QED
  BY <1>2 DEF StrictSubsetOrdering

(* Induction over the subsets of a finite set: a set of them that has every *)
(* set all of whose proper subsets it has.                                  *)
LEMMA SetInduction ==
  ASSUME NEW S, IsFiniteSet(S), NEW P,
         \A T \in SUBSET S : (\A U \in SUBSET T : U # T => U \in P) => T \in P
  PROVE  S \in P
<1> DEFINE Bad == {T \in SUBSET S : T \notin P}
<1>1. Bad # {} => \E T \in Bad : \A U \in Bad : U \subseteq T => U = T
  <2>1. Bad \subseteq SUBSET S
    OBVIOUS
  <2> HIDE DEF Bad
  <2> QED
    BY <2>1, SmallestSet
<1>2. Bad = {}
  BY <1>1
<1> QED
  BY <1>2

(* What a function makes of a finite set is finite. *)
LEMMA FiniteImage ==
  ASSUME NEW f, NEW S, IsFiniteSet(S)
  PROVE  IsFiniteSet({f[x] : x \in S})
<1> DEFINE T == {f[x] : x \in S}
           g == [x \in S |-> f[x]]
<1>1. g \in Surjection(S, T)
  BY DEF Surjection
<1>2. IsFiniteSet(T)
  <2> HIDE DEF T, g
  <2> QED
    BY <1>1, FS_Surjection
<1> QED
  BY <1>2

-----------------------------------------------------------------------------
(* The sum exists *)

Chosen(s) == CHOOSE x \in s : TRUE

(* g is at s what the community module's recursive sum is *)
Adds(g, f, s) == g[s] = IF s = {} THEN 0 ELSE f[Chosen(s)] + g[s \ {Chosen(s)}]

IsSum(g, f, S) == g = [s \in SUBSET S |-> IF s = {} THEN 0 ELSE f[Chosen(s)] + g[s \ {Chosen(s)}]]

LEMMA ChosenIn == ASSUME NEW s, s # {} PROVE Chosen(s) \in s
BY DEF Chosen

LEMMA SumExists ==
  ASSUME NEW f, NEW S, IsFiniteSet(S)
  PROVE  \E g : IsSum(g, f, S)
<1> DEFINE P == {n \in Nat : \E g : \A s \in SUBSET S : Cardinality(s) <= n => Adds(g, f, s)}
<1>1. \A s \in SUBSET S : IsFiniteSet(s) /\ Cardinality(s) \in Nat
  BY FS_Subset, FS_CardinalityType
<1>2. 0 \in P
  <2> DEFINE g == [s \in SUBSET S |-> 0]
  <2>1. ASSUME NEW s \in SUBSET S, Cardinality(s) <= 0 PROVE Adds(g, f, s)
    <3>1. s = {}
      BY <1>1, <2>1, FS_EmptySet
    <3> QED
      BY <3>1 DEF Adds
  <2> QED
    BY <2>1
<1>3. ASSUME NEW n \in Nat, n \in P PROVE n + 1 \in P
  <2>1. PICK g : \A s \in SUBSET S : Cardinality(s) <= n => Adds(g, f, s)
    BY <1>3
  <2> DEFINE h == [s \in SUBSET S |-> IF s = {} THEN 0 ELSE f[Chosen(s)] + g[s \ {Chosen(s)}]]
  <2>2. ASSUME NEW s \in SUBSET S, Cardinality(s) <= n + 1 PROVE Adds(h, f, s)
    <3>1. CASE s = {}
      BY <3>1 DEF Adds
    <3>2. CASE s # {}
      <4> DEFINE t == s \ {Chosen(s)}
      <4>1. t \in SUBSET S /\ Cardinality(t) = Cardinality(s) - 1
        BY <1>1, <3>2, ChosenIn, FS_RemoveElement
      <4>2. Cardinality(t) <= n
        BY <1>1, <2>2, <4>1
      <4>3. h[t] = g[t]
        BY <2>1, <4>1, <4>2 DEF Adds
      <4> QED
        BY <3>2, <4>3 DEF Adds
    <3> QED
      BY <3>1, <3>2
  <2> HIDE DEF h
  <2> QED
    BY <2>2
<1>4. \A n \in Nat : n \in P
  <2> HIDE DEF P
  <2> QED
    BY <1>2, <1>3, NatInductionOnSets
<1>5. Cardinality(S) \in P
  BY <1>1, <1>4
<1>6. PICK g : \A s \in SUBSET S : Cardinality(s) <= Cardinality(S) => Adds(g, f, s)
  BY <1>5
<1>7. \A s \in SUBSET S : Adds(g, f, s)
  BY <1>6, FS_Subset
<1> DEFINE h == [s \in SUBSET S |-> g[s]]
<1>8. IsSum(h, f, S)
  BY <1>7, ChosenIn DEF Adds, IsSum
<1> QED
  BY <1>8

LEMMA SumUnfolds ==
  ASSUME NEW f, NEW S, IsFiniteSet(S)
  PROVE  \E g : IsSum(g, f, S) /\ SumFunctionOnSet(f, S) = g[S]
<1> DEFINE sum == CHOOSE g : IsSum(g, f, S)
<1>1. IsSum(sum, f, S)
  BY SumExists
<1>2. SumFunctionOnSet(f, S) = sum[S]
  BY DEF SumFunctionOnSet, FoldFunctionOnSet, MapThenFoldSet, Chosen, IsSum
<1> QED
  BY <1>1, <1>2

(* Two sums over different sets agree on what they share. *)
LEMMA SumsAgree ==
  ASSUME NEW f, NEW h, NEW S, IsFiniteSet(S), NEW T \in SUBSET S, \A x \in T : f[x] = h[x],
         NEW g, IsSum(g, f, S),
         NEW k, IsSum(k, h, T)
  PROVE  g[T] = k[T]
<1> DEFINE P == {U \in SUBSET T : g[U] = k[U]}
<1>1. ASSUME NEW U \in SUBSET T, \A V \in SUBSET U : V # U => V \in P
      PROVE  U \in P
  <2>1. CASE U = {}
    BY <2>1 DEF IsSum
  <2>2. CASE U # {}
    <3> DEFINE V == U \ {Chosen(U)}
    <3>1. Chosen(U) \in U /\ V \in SUBSET U /\ V # U
      BY <2>2, ChosenIn
    <3>2. g[V] = k[V]
      BY <1>1, <3>1
    <3>3. g[U] = f[Chosen(U)] + g[V] /\ k[U] = h[Chosen(U)] + k[V]
      BY <2>2 DEF IsSum
    <3> QED
      BY <3>1, <3>2, <3>3
  <2> QED
    BY <2>1, <2>2
<1>2. IsFiniteSet(T)
  BY FS_Subset
<1>3. T \in P
  <2> HIDE DEF P
  <2> QED
    BY <1>1, <1>2, SetInduction
<1> QED
  BY <1>3

LEMMA SumEmpty ==
  ASSUME NEW f
  PROVE  SumFunctionOnSet(f, {}) = 0
<1>1. PICK g : IsSum(g, f, {}) /\ SumFunctionOnSet(f, {}) = g[{}]
  BY FS_EmptySet, SumUnfolds
<1>2. g[{}] = 0
  BY <1>1 DEF IsSum
<1> QED
  BY <1>1, <1>2

(* Functions that agree on a set have one sum over it. *)
LEMMA SumSame ==
  ASSUME NEW f, NEW h, NEW S, IsFiniteSet(S), \A x \in S : f[x] = h[x]
  PROVE  SumFunctionOnSet(f, S) = SumFunctionOnSet(h, S)
<1>1. PICK g : IsSum(g, f, S) /\ SumFunctionOnSet(f, S) = g[S]
  BY SumUnfolds
<1>2. PICK k : IsSum(k, h, S) /\ SumFunctionOnSet(h, S) = k[S]
  BY SumUnfolds
<1> QED
  BY <1>1, <1>2, SumsAgree

LEMMA SumChosen ==
  ASSUME NEW f, NEW S, IsFiniteSet(S), S # {}
  PROVE  SumFunctionOnSet(f, S) = f[Chosen(S)] + SumFunctionOnSet(f, S \ {Chosen(S)})
<1> DEFINE T == S \ {Chosen(S)}
<1>1. Chosen(S) \in S /\ T \in SUBSET S /\ IsFiniteSet(T)
  BY ChosenIn, FS_Subset
<1>2. PICK g : IsSum(g, f, S) /\ SumFunctionOnSet(f, S) = g[S]
  BY SumUnfolds
<1>3. PICK k : IsSum(k, f, T) /\ SumFunctionOnSet(f, T) = k[T]
  BY <1>1, SumUnfolds
<1>4. g[T] = k[T]
  BY <1>1, <1>2, <1>3, SumsAgree
<1>5. g[S] = f[Chosen(S)] + g[T]
  BY <1>2 DEF IsSum
<1> QED
  BY <1>2, <1>3, <1>4, <1>5

-----------------------------------------------------------------------------
(* What the models' proofs need of sums *)

(* Sums of numbers are numbers: S is Int, or any set of numbers that holds *)
(* zero and is closed under addition.                                      *)
LEMMA SumIn ==
  ASSUME NEW f, NEW S, IsFiniteSet(S), NEW N, 0 \in N, \A i, j \in N : i + j \in N,
         \A x \in S : f[x] \in N
  PROVE  SumFunctionOnSet(f, S) \in N
<1> DEFINE P == {T \in SUBSET S : SumFunctionOnSet(f, T) \in N}
<1>1. ASSUME NEW T \in SUBSET S, \A U \in SUBSET T : U # T => U \in P
      PROVE  T \in P
  <2>1. CASE T = {}
    BY <2>1, SumEmpty
  <2>2. CASE T # {}
    <3>1. IsFiniteSet(T)
      BY FS_Subset
    <3>2. Chosen(T) \in T
      BY <2>2, ChosenIn
    <3>3. SumFunctionOnSet(f, T \ {Chosen(T)}) \in N
      BY <1>1, <3>2
    <3>4. SumFunctionOnSet(f, T) = f[Chosen(T)] + SumFunctionOnSet(f, T \ {Chosen(T)})
      BY <2>2, <3>1, SumChosen
    <3> QED
      BY <3>2, <3>3, <3>4
  <2> QED
    BY <2>1, <2>2
<1>2. S \in P
  <2> HIDE DEF P
  <2> QED
    BY <1>1, SetInduction
<1> QED
  BY <1>2

LEMMA SumIsNat ==
  ASSUME NEW f, NEW S, IsFiniteSet(S), \A x \in S : f[x] \in Nat
  PROVE  SumFunctionOnSet(f, S) \in Nat
<1>1. 0 \in Nat /\ \A i, j \in Nat : i + j \in Nat
  OBVIOUS
<1> QED
  BY <1>1, SumIn

LEMMA SumIsInt ==
  ASSUME NEW f, NEW S, IsFiniteSet(S), \A x \in S : f[x] \in Int
  PROVE  SumFunctionOnSet(f, S) \in Int
<1>1. 0 \in Int /\ \A i, j \in Int : i + j \in Int
  OBVIOUS
<1> QED
  BY <1>1, SumIn

(* It does not matter which element is added last. *)
LEMMA SumRemove ==
  ASSUME NEW f, NEW S, IsFiniteSet(S), \A x \in S : f[x] \in Int, NEW x \in S
  PROVE  SumFunctionOnSet(f, S) = f[x] + SumFunctionOnSet(f, S \ {x})
<1> DEFINE P == {T \in SUBSET S : \A y \in T :
                   SumFunctionOnSet(f, T) = f[y] + SumFunctionOnSet(f, T \ {y})}
<1>1. ASSUME NEW T \in SUBSET S, \A U \in SUBSET T : U # T => U \in P,
             NEW y \in T
      PROVE  SumFunctionOnSet(f, T) = f[y] + SumFunctionOnSet(f, T \ {y})
  <2>1. PICK c : c = Chosen(T)
    OBVIOUS
  <2>2. IsFiniteSet(T)
    BY FS_Subset
  <2>3. c \in T
    BY <2>1, ChosenIn
  <2>4. SumFunctionOnSet(f, T) = f[c] + SumFunctionOnSet(f, T \ {c})
    BY <2>1, <2>2, SumChosen
  <2>5. CASE y = c
    BY <2>4, <2>5
  <2>6. CASE y # c
    <3>1. (T \ {c}) \in P /\ (T \ {y}) \in P
      <4>1. T \ {c} \in SUBSET T /\ T \ {c} # T /\ T \ {y} \in SUBSET T /\ T \ {y} # T
        BY <2>3
      <4> QED
        BY <1>1, <4>1
    <3> DEFINE R == (T \ {c}) \ {y}
    <3>2. R = (T \ {y}) \ {c}
      OBVIOUS
    <3>3. SumFunctionOnSet(f, T \ {c}) = f[y] + SumFunctionOnSet(f, R)
      BY <2>6, <3>1
    <3>4. SumFunctionOnSet(f, T \ {y}) = f[c] + SumFunctionOnSet(f, R)
      BY <2>3, <2>6, <3>1, <3>2
    <3>5. IsFiniteSet(R)
      BY FS_Subset
    <3>6. f[c] \in Int /\ f[y] \in Int /\ SumFunctionOnSet(f, R) \in Int
      BY <2>3, <3>5, SumIsInt
    <3> HIDE DEF R
    <3> QED
      BY <2>4, <3>3, <3>4, <3>6
  <2> QED
    BY <2>5, <2>6
<1>2. S \in P
  <2>1. \A T \in SUBSET S : (\A U \in SUBSET T : U # T => U \in P) => T \in P
    BY <1>1
  <2> HIDE DEF P
  <2> QED
    BY <2>1, SetInduction
<1> QED
  BY <1>2

LEMMA SumInsert ==
  ASSUME NEW f, NEW S, IsFiniteSet(S), NEW x, x \notin S, f[x] \in Int, \A y \in S : f[y] \in Int
  PROVE  SumFunctionOnSet(f, S \cup {x}) = f[x] + SumFunctionOnSet(f, S)
<1>1. IsFiniteSet(S \cup {x}) /\ (S \cup {x}) \ {x} = S
  BY FS_AddElement
<1> QED
  BY <1>1, SumRemove

(* A sum of larger parts is no smaller. *)
LEMMA SumMonotone ==
  ASSUME NEW f, NEW h, NEW S, IsFiniteSet(S),
         \A x \in S : f[x] \in Int /\ h[x] \in Int /\ f[x] <= h[x]
  PROVE  SumFunctionOnSet(f, S) <= SumFunctionOnSet(h, S)
<1> DEFINE P == {T \in SUBSET S : SumFunctionOnSet(f, T) <= SumFunctionOnSet(h, T)}
<1>1. ASSUME NEW T \in SUBSET S, \A U \in SUBSET T : U # T => U \in P
      PROVE  SumFunctionOnSet(f, T) <= SumFunctionOnSet(h, T)
  <2>1. CASE T = {}
    BY <2>1, SumEmpty
  <2>2. CASE T # {}
    <3>1. PICK c : c = Chosen(T)
      OBVIOUS
    <3>2. c \in T
      BY <2>2, <3>1, ChosenIn
    <3>3. IsFiniteSet(T) /\ IsFiniteSet(T \ {c})
      <4>1. T \ {c} \in SUBSET S
        OBVIOUS
      <4> QED
        BY <4>1, FS_Subset
    <3>4. SumFunctionOnSet(f, T \ {c}) <= SumFunctionOnSet(h, T \ {c})
      BY <1>1, <3>2
    <3>5. /\ SumFunctionOnSet(f, T) = f[c] + SumFunctionOnSet(f, T \ {c})
          /\ SumFunctionOnSet(h, T) = h[c] + SumFunctionOnSet(h, T \ {c})
      BY <2>2, <3>1, <3>3, SumChosen
    <3>6. SumFunctionOnSet(f, T \ {c}) \in Int /\ SumFunctionOnSet(h, T \ {c}) \in Int
      BY <3>3, SumIsInt
    <3>7. f[c] \in Int /\ h[c] \in Int /\ f[c] <= h[c]
      BY <3>2
    <3> QED
      BY <3>4, <3>5, <3>6, <3>7
  <2> QED
    BY <2>1, <2>2
<1>2. S \in P
  <2>1. \A T \in SUBSET S : (\A U \in SUBSET T : U # T => U \in P) => T \in P
    BY <1>1
  <2> HIDE DEF P
  <2> QED
    BY <2>1, SetInduction
<1> QED
  BY <1>2

(* Renaming the parts does not change their sum. *)
LEMMA SumRenamed ==
  ASSUME NEW f, NEW S, IsFiniteSet(S), \A x \in S : f[x] \in Int,
         NEW m, \A x, y \in S : m[x] = m[y] => x = y,
         NEW h, \A x \in S : h[m[x]] = f[x]
  PROVE  SumFunctionOnSet(h, {m[x] : x \in S}) = SumFunctionOnSet(f, S)
<1> DEFINE To(T) == {m[x] : x \in T}
           P == {T \in SUBSET S : IsFiniteSet(To(T)) /\ SumFunctionOnSet(h, To(T)) = SumFunctionOnSet(f, T)}
<1>1. ASSUME NEW T \in SUBSET S, \A U \in SUBSET T : U # T => U \in P
      PROVE  IsFiniteSet(To(T)) /\ SumFunctionOnSet(h, To(T)) = SumFunctionOnSet(f, T)
  <2>1. CASE T = {}
    <3>1. To(T) = {}
      BY <2>1
    <3> HIDE DEF To
    <3> QED
      BY <2>1, <3>1, SumEmpty, FS_EmptySet
  <2>2. CASE T # {}
    <3>1. PICK c : c = Chosen(T)
      OBVIOUS
    <3>2. c \in T
      BY <2>2, <3>1, ChosenIn
    <3> DEFINE U == T \ {c}
    <3>3. IsFiniteSet(T) /\ U \in SUBSET T /\ U # T
      BY <3>2, FS_Subset
    <3>4. IsFiniteSet(To(U)) /\ SumFunctionOnSet(h, To(U)) = SumFunctionOnSet(f, U)
      BY <1>1, <3>3
    <3>5. SumFunctionOnSet(f, T) = f[c] + SumFunctionOnSet(f, U)
      BY <2>2, <3>1, <3>3, SumChosen
    <3>6. To(T) = To(U) \cup {m[c]} /\ m[c] \notin To(U) /\ h[m[c]] = f[c] /\ f[c] \in Int
      BY <3>2
    <3>7. \A z \in To(U) : h[z] \in Int
      OBVIOUS
    <3>8. IsFiniteSet(To(T))
      <4> HIDE DEF To, U
      <4> QED
        BY <3>4, <3>6, FS_AddElement
    <3>9. SumFunctionOnSet(h, To(T)) = h[m[c]] + SumFunctionOnSet(h, To(U))
      <4> HIDE DEF To, U
      <4> QED
        BY <3>4, <3>6, <3>7, SumInsert
    <3> HIDE DEF To, U
    <3> QED
      BY <3>4, <3>5, <3>6, <3>8, <3>9
  <2> QED
    BY <2>1, <2>2
<1>2. S \in P
  <2>1. \A T \in SUBSET S : (\A U \in SUBSET T : U # T => U \in P) => T \in P
    BY <1>1
  <2> HIDE DEF P
  <2> QED
    BY <2>1, SetInduction
<1> QED
  BY <1>2

(* Elements that add nothing may be left out. *)
LEMMA SumPadded ==
  ASSUME NEW f, NEW h, NEW S, IsFiniteSet(S), NEW T \in SUBSET S,
         \A x \in T : f[x] \in Int /\ h[x] = f[x],
         \A x \in S \ T : h[x] = 0
  PROVE  SumFunctionOnSet(h, S) = SumFunctionOnSet(f, T)
<1> DEFINE P == {U \in SUBSET S : SumFunctionOnSet(h, U) = SumFunctionOnSet(f, U \cap T)}
<1>1. ASSUME NEW U \in SUBSET S, \A V \in SUBSET U : V # U => V \in P
      PROVE  SumFunctionOnSet(h, U) = SumFunctionOnSet(f, U \cap T)
  <2>1. CASE U = {}
    <3>1. U \cap T = {}
      BY <2>1
    <3>2. SumFunctionOnSet(h, U) = 0
      BY <2>1, SumEmpty
    <3>3. SumFunctionOnSet(f, U \cap T) = 0
      BY <3>1, SumEmpty
    <3> QED
      BY <3>2, <3>3
  <2>2. CASE U # {}
    <3>1. PICK c \in U : TRUE
      BY <2>2
    <3>2. PICK V \in SUBSET U : V = U \ {c}
      BY <3>1
    <3>3. SumFunctionOnSet(h, V) = SumFunctionOnSet(f, V \cap T)
      BY <1>1, <3>2
    <3>4. IsFiniteSet(U) /\ IsFiniteSet(U \cap T) /\ IsFiniteSet(V \cap T)
      BY FS_Subset
    <3>5. (\A x \in U : h[x] \in Int) /\ (\A x \in U \cap T : f[x] \in Int)
      OBVIOUS
    <3>6. SumFunctionOnSet(h, U) = h[c] + SumFunctionOnSet(h, V)
      BY <3>2, <3>4, <3>5, SumRemove
    <3>7. SumFunctionOnSet(f, V \cap T) \in Int
      BY <3>4, <3>5, SumIsInt
    <3>8. CASE c \in T
      <4>1. (U \cap T) \ {c} = V \cap T /\ c \in U \cap T
        BY <3>2, <3>8
      <4>2. SumFunctionOnSet(f, U \cap T) = f[c] + SumFunctionOnSet(f, V \cap T)
        BY <3>4, <3>5, <4>1, SumRemove
      <4> QED
        BY <3>3, <3>6, <3>8, <4>2
    <3>9. CASE c \notin T
      <4>1. U \cap T = V \cap T /\ h[c] = 0
        BY <3>2, <3>9
      <4>2. SumFunctionOnSet(f, U \cap T) = SumFunctionOnSet(f, V \cap T)
        BY <4>1, Zenon
      <4>3. SumFunctionOnSet(h, U) = SumFunctionOnSet(f, V \cap T)
        BY <3>3, <3>6, <3>7, <4>1
      <4> QED
        BY <4>2, <4>3, Zenon
    <3> QED
      BY <3>8, <3>9
  <2> QED
    BY <2>1, <2>2
<1>2. S \in P
  <2>1. \A U \in SUBSET S : (\A V \in SUBSET U : V # U => V \in P) => U \in P
    BY <1>1
  <2> HIDE DEF P
  <2> QED
    BY <2>1, SetInduction
<1>3. S \cap T = T
  OBVIOUS
<1> QED
  BY <1>2, <1>3

(* A sum of which one addend changes *)
LEMMA SumChanged ==
  ASSUME NEW f, NEW h, NEW S, IsFiniteSet(S),
         \A y \in S : f[y] \in Int /\ h[y] \in Int,
         NEW x \in S, \A y \in S : y # x => h[y] = f[y]
  PROVE  SumFunctionOnSet(h, S) = (SumFunctionOnSet(f, S) - f[x]) + h[x]
<1>1. PICK T \in SUBSET S : T = S \ {x}
  OBVIOUS
<1>2. IsFiniteSet(T)
  BY FS_Subset
<1>3. SumFunctionOnSet(f, T) = SumFunctionOnSet(h, T)
  BY <1>1, <1>2, SumSame
<1>4. SumFunctionOnSet(f, S) = f[x] + SumFunctionOnSet(f, T)
  BY <1>1, SumRemove
<1>5. SumFunctionOnSet(h, S) = h[x] + SumFunctionOnSet(h, T)
  BY <1>1, SumRemove
<1>6. SumFunctionOnSet(f, T) \in Int
  BY <1>2, SumIsInt
<1> QED
  BY <1>3, <1>4, <1>5, <1>6

=============================================================================
