------------------------------ MODULE SumProofs ------------------------------
(***************************************************************************)
(* Lemmas about sums over finite sets, SumFunctionOnSet of the community   *)
(* modules: what it adds up does not depend on the order in which its fold *)
(* chooses, and a sum can be taken part by part.                           *)
(*                                                                         *)
(* A fold is a recursive function over the subsets of a set, that is, some *)
(* function that satisfies an equation.  That there is one, and that it    *)
(* agrees with itself on a smaller set, comes first.                       *)
(***************************************************************************)
EXTENDS Integers, FiniteSets, FiniteSetsExt, FiniteSetTheorems, WellFoundedInduction, TLAPS

(* Induction over the subsets of a finite set, for a set of good ones.       *)
LEMMA SubsetInduction ==
  ASSUME NEW S, IsFiniteSet(S), NEW Good,
         \A T \in SUBSET S : (\A U \in (SUBSET T) \ {T} : U \in Good) => T \in Good
  PROVE  \A T \in SUBSET S : T \in Good
<1> DEFINE Bad == {T \in SUBSET S : T \notin Good}
<1>1. \A T \in SUBSET S : IsFiniteSet(T)
  BY FS_Subset
<1>2. Bad \in SUBSET FiniteSubsetsOf(S)
  BY <1>1 DEF FiniteSubsetsOf
<1>3. IsWellFoundedOn(StrictSubsetOrdering(S), FiniteSubsetsOf(S))
  BY FS_StrictSubsetOrderingWellFounded
<1>4. ASSUME Bad # {}
      PROVE  FALSE
  <2> HIDE DEF Bad
  <2>1. PICK T \in Bad : \A U \in Bad : ~ (<<U, T>> \in StrictSubsetOrdering(S))
    BY <1>2, <1>3, <1>4, WFMin
  <2>2. T \in SUBSET S /\ T \notin Good
    BY DEF Bad
  <2>3. PICK U \in (SUBSET T) \ {T} : U \notin Good
    BY <2>2
  <2>4. U \in Bad
    BY <2>2, <2>3 DEF Bad
  <2>5. <<U, T>> \in StrictSubsetOrdering(S)
    BY <2>2, <2>3 DEF StrictSubsetOrdering
  <2> QED BY <2>1, <2>4, <2>5
<1> QED BY <1>4

LEMMA ImageFinite ==
  ASSUME NEW S, IsFiniteSet(S), NEW h
  PROVE  IsFiniteSet({h[x] : x \in S})
<1> DEFINE T == {h[x] : x \in S}
           f == [x \in S |-> h[x]]
<1>1. f \in Surjection(S, T)
  BY DEF Surjection
<1> HIDE DEF T, f
<1>2. IsFiniteSet(T)
  BY <1>1, FS_Surjection
<1> QED BY <1>2 DEF T

-----------------------------------------------------------------------------
(* The fold.                                                                *)

Chosen(s) == CHOOSE x \in s : TRUE

LEMMA ChosenInSet == ASSUME NEW s, s # {} PROVE Chosen(s) \in s
BY DEF Chosen

(* g adds up f over the subsets of S. *)
AddsUp(f, S, g) ==
  g = [s \in SUBSET S |-> IF s = {} THEN 0 ELSE f[Chosen(s)] + g[s \ {Chosen(s)}]]

Adder(f, S) == CHOOSE g : AddsUp(f, S, g)

LEMMA SumIsFold ==
  ASSUME NEW f, NEW S
  PROVE  SumFunctionOnSet(f, S) = Adder(f, S)[S]
BY Zenon DEF SumFunctionOnSet, FoldFunctionOnSet, MapThenFoldSet, AddsUp, Adder, Chosen

LEMMA AddsUpStep ==
  ASSUME NEW f, NEW S, NEW g, AddsUp(f, S, g), NEW s \in SUBSET S
  PROVE  g[s] = IF s = {} THEN 0 ELSE f[Chosen(s)] + g[s \ {Chosen(s)}]
BY DEF AddsUp

(* Whatever adds up over two sets agrees on the subsets of both. *)
LEMMA AddersAgree ==
  ASSUME NEW f, NEW S, IsFiniteSet(S), NEW T \in SUBSET S, NEW g, NEW h, AddsUp(f, S, g), AddsUp(f, T, h)
  PROVE  \A U \in SUBSET T : g[U] = h[U]
<1> DEFINE Good == {U \in SUBSET T : g[U] = h[U]}
<1>1. IsFiniteSet(T)
  BY FS_Subset
<1>2. ASSUME NEW U \in SUBSET T, \A V \in (SUBSET U) \ {U} : V \in Good
      PROVE  U \in Good
  <2>0. U \in SUBSET S
    OBVIOUS
  <2>1. /\ g[U] = IF U = {} THEN 0 ELSE f[Chosen(U)] + g[U \ {Chosen(U)}]
        /\ h[U] = IF U = {} THEN 0 ELSE f[Chosen(U)] + h[U \ {Chosen(U)}]
    BY <2>0, AddsUpStep
  <2>2. U # {} => g[U \ {Chosen(U)}] = h[U \ {Chosen(U)}]
    BY <1>2, ChosenInSet
  <2> QED BY <2>1, <2>2
<1> HIDE DEF Good
<1>3. \A U \in SUBSET T : U \in Good
  BY <1>1, <1>2, SubsetInduction
<1> QED BY <1>3 DEF Good

LEMMA AdderExists ==
  ASSUME NEW f, NEW S, IsFiniteSet(S)
  PROVE  AddsUp(f, S, Adder(f, S))
<1> DEFINE Good == {T \in SUBSET S : AddsUp(f, T, Adder(f, T))}
<1>1. ASSUME NEW T \in SUBSET S, \A U \in (SUBSET T) \ {T} : U \in Good
      PROVE  T \in Good
  <2> DEFINE Rest(s) == s \ {Chosen(s)}
             g == [s \in SUBSET T |-> IF s = {} THEN 0 ELSE f[Chosen(s)] + Adder(f, Rest(s))[Rest(s)]]
  <2>1. ASSUME NEW s \in SUBSET T, s # {}
        PROVE  g[Rest(s)] = Adder(f, Rest(s))[Rest(s)]
    <3>1. Rest(s) \in (SUBSET T) \ {T}
      BY <2>1, ChosenInSet
    <3> DEFINE U == Rest(s)
    <3>2. AddsUp(f, U, Adder(f, U)) /\ U \in SUBSET T
      BY <1>1, <3>1
    <3> HIDE DEF U
    <3>3. Adder(f, U)[U] = IF U = {} THEN 0 ELSE f[Chosen(U)] + Adder(f, U)[Rest(U)]
      BY <3>2, AddsUpStep
    <3>4. g[U] = IF U = {} THEN 0 ELSE f[Chosen(U)] + Adder(f, Rest(U))[Rest(U)]
      BY <3>2
    <3>5. ASSUME U # {}
          PROVE  Adder(f, U)[Rest(U)] = Adder(f, Rest(U))[Rest(U)]
      <4>1. Rest(U) \in (SUBSET T) \ {T} /\ Rest(U) \in SUBSET U
        BY <3>2, <3>5, ChosenInSet
      <4>2. AddsUp(f, Rest(U), Adder(f, Rest(U)))
        BY <1>1, <4>1
      <4>3. IsFiniteSet(U)
        BY <3>2, FS_Subset
      <4> HIDE DEF Rest
      <4> QED BY <3>2, <4>1, <4>2, <4>3, AddersAgree
    <3> QED BY <3>3, <3>4, <3>5 DEF U
  <2>2. g = [s \in SUBSET T |-> IF s = {} THEN 0 ELSE f[Chosen(s)] + g[s \ {Chosen(s)}]]
    <3> DEFINE h == [s \in SUBSET T |-> IF s = {} THEN 0 ELSE f[Chosen(s)] + g[s \ {Chosen(s)}]]
    <3>1. ASSUME NEW s \in SUBSET T
          PROVE  g[s] = h[s]
      BY <2>1
    <3> QED BY <3>1
  <2>3. AddsUp(f, T, g)
    <3> HIDE DEF g
    <3> QED BY <2>2 DEF AddsUp
  <2>4. AddsUp(f, T, Adder(f, T))
    <3> HIDE DEF g
    <3> QED BY Zenon, <2>3 DEF Adder
  <2> QED BY <2>4
<1> HIDE DEF Good
<1>2. S \in Good
  BY <1>1, SubsetInduction
<1> QED BY <1>2 DEF Good

-----------------------------------------------------------------------------
(* Sums.                                                                    *)

LEMMA SumEmpty == ASSUME NEW f PROVE SumFunctionOnSet(f, {}) = 0
BY FS_EmptySet, SumIsFold, AdderExists, AddsUpStep

LEMMA SumOneChosen ==
  ASSUME NEW f, NEW S, IsFiniteSet(S), S # {}
  PROVE  SumFunctionOnSet(f, S) = f[Chosen(S)] + SumFunctionOnSet(f, S \ {Chosen(S)})
<1> DEFINE R == S \ {Chosen(S)}
<1>1. AddsUp(f, S, Adder(f, S)) /\ R \in SUBSET S /\ IsFiniteSet(R)
  BY AdderExists, FS_Subset
<1>2. Adder(f, S)[S] = f[Chosen(S)] + Adder(f, S)[R]
  BY <1>1, AddsUpStep
<1>3. Adder(f, S)[R] = Adder(f, R)[R]
  <2> HIDE DEF R
  <2> QED BY <1>1, AdderExists, AddersAgree
<1> QED BY <1>2, <1>3, SumIsFold

LEMMA SumType ==
  ASSUME NEW S, IsFiniteSet(S), NEW f, \A x \in S : f[x] \in Int
  PROVE  SumFunctionOnSet(f, S) \in Int
<1> DEFINE Good == {T \in SUBSET S : SumFunctionOnSet(f, T) \in Int}
<1>1. ASSUME NEW T \in SUBSET S, \A U \in (SUBSET T) \ {T} : U \in Good
      PROVE  T \in Good
  <2>1. CASE T = {}
    BY <2>1, SumEmpty
  <2>2. CASE T # {}
    <3>1. Chosen(T) \in T /\ IsFiniteSet(T)
      BY <2>2, ChosenInSet, FS_Subset
    <3>2. T \ {Chosen(T)} \in Good
      BY <1>1, <3>1
    <3>3. SumFunctionOnSet(f, T) = f[Chosen(T)] + SumFunctionOnSet(f, T \ {Chosen(T)})
      BY <2>2, <3>1, SumOneChosen
    <3> QED BY <3>1, <3>2, <3>3
  <2> QED BY <2>1, <2>2
<1> HIDE DEF Good
<1>2. S \in Good
  BY <1>1, SubsetInduction
<1> QED BY <1>2 DEF Good

(* Any member can be taken out of a sum. *)
LEMMA SumOne ==
  ASSUME NEW S, IsFiniteSet(S), NEW f, \A x \in S : f[x] \in Int, NEW x \in S
  PROVE  SumFunctionOnSet(f, S) = f[x] + SumFunctionOnSet(f, S \ {x})
<1> DEFINE Sum(T) == SumFunctionOnSet(f, T)
           Good == {T \in SUBSET S : \A y \in T : Sum(T) = f[y] + Sum(T \ {y})}
<1>1. ASSUME NEW T \in SUBSET S, \A U \in (SUBSET T) \ {T} : U \in Good
      PROVE  T \in Good
  <2> SUFFICES ASSUME NEW y \in T
               PROVE  Sum(T) = f[y] + Sum(T \ {y})
    OBVIOUS
  <2> DEFINE c == Chosen(T)
  <2>1. c \in T /\ IsFiniteSet(T)
    BY ChosenInSet, FS_Subset
  <2>2. Sum(T) = f[c] + Sum(T \ {c})
    BY <2>1, SumOneChosen
  <2> HIDE DEF c, Sum
  <2>3. CASE c = y
    BY <2>2, <2>3
  <2>4. CASE c # y
    <3>1. T \ {c} \in Good /\ T \ {y} \in Good
      BY <1>1, <2>1
    <3>2. y \in T \ {c} /\ c \in T \ {y} /\ (T \ {c}) \ {y} = (T \ {y}) \ {c}
      BY <2>1, <2>4
    <3>3. Sum(T \ {c}) = f[y] + Sum((T \ {y}) \ {c}) /\ Sum(T \ {y}) = f[c] + Sum((T \ {y}) \ {c})
      BY <3>1, <3>2
    <3>4. f[y] \in Int /\ f[c] \in Int /\ Sum((T \ {y}) \ {c}) \in Int
      <4>1. IsFiniteSet((T \ {y}) \ {c})
        BY <2>1, FS_Subset
      <4> QED BY <2>1, <4>1, SumType DEF Sum
    <3> QED BY <2>2, <3>3, <3>4
  <2> QED BY <2>3, <2>4
<1> HIDE DEF Good
<1>2. S \in Good
  BY <1>1, SubsetInduction
<1> QED BY <1>2 DEF Good

(* A set whose sum is built up member by member. *)
LEMMA SumAdd ==
  ASSUME NEW S, IsFiniteSet(S), NEW x, x \notin S, NEW f, \A y \in S \union {x} : f[y] \in Int
  PROVE  SumFunctionOnSet(f, S \union {x}) = f[x] + SumFunctionOnSet(f, S)
<1> DEFINE T == S \union {x}
<1>1. IsFiniteSet(T) /\ x \in T /\ T \ {x} = S
  BY FS_AddElement
<1> HIDE DEF T
<1>2. \A y \in T : f[y] \in Int
  BY DEF T
<1>3. SumFunctionOnSet(f, T) = f[x] + SumFunctionOnSet(f, T \ {x})
  BY <1>1, <1>2, SumOne
<1> QED BY <1>1, <1>3 DEF T

(* Induction over the subsets of a finite set, member by member. *)
LEMMA AddInduction ==
  ASSUME NEW S, IsFiniteSet(S), NEW Good, {} \in Good,
         \A T \in SUBSET S, x \in S : x \notin T /\ T \in Good => T \union {x} \in Good
  PROVE  S \in Good
<1>1. ASSUME NEW T \in SUBSET S, \A U \in (SUBSET T) \ {T} : U \in Good
      PROVE  T \in Good
  <2>1. CASE T = {}
    BY <2>1
  <2>2. CASE T # {}
    <3>1. PICK x \in T : TRUE
      BY <2>2
    <3>2. T \ {x} \in Good /\ T \ {x} \in SUBSET S /\ x \in S /\ (T \ {x}) \union {x} = T
      BY <1>1, <3>1
    <3> QED BY <3>2
  <2> QED BY <2>1, <2>2
<1> QED BY <1>1, SubsetInduction

LEMMA SumSame ==
  ASSUME NEW S, IsFiniteSet(S), NEW f, NEW g, \A x \in S : f[x] \in Int /\ f[x] = g[x]
  PROVE  SumFunctionOnSet(f, S) = SumFunctionOnSet(g, S)
<1> DEFINE Good == {T \in SUBSET S : SumFunctionOnSet(f, T) = SumFunctionOnSet(g, T)}
<1>1. {} \in Good
  BY SumEmpty
<1>2. ASSUME NEW T \in SUBSET S, NEW x \in S, x \notin T, T \in Good
      PROVE  T \union {x} \in Good
  <2>1. IsFiniteSet(T)
    BY FS_Subset
  <2>2. /\ SumFunctionOnSet(f, T \union {x}) = f[x] + SumFunctionOnSet(f, T)
        /\ SumFunctionOnSet(g, T \union {x}) = g[x] + SumFunctionOnSet(g, T)
    BY <1>2, <2>1, SumAdd
  <2> QED BY <1>2, <2>2
<1> HIDE DEF Good
<1>3. S \in Good
  BY <1>1, <1>2, AddInduction
<1> QED BY <1>3 DEF Good

(* Sums are counts when every member counts one. *)
LEMMA SumOfOnes ==
  ASSUME NEW S, IsFiniteSet(S), NEW f, \A x \in S : f[x] = 1
  PROVE  SumFunctionOnSet(f, S) = Cardinality(S)
<1> DEFINE Good == {T \in SUBSET S : SumFunctionOnSet(f, T) = Cardinality(T)}
<1>1. {} \in Good
  BY SumEmpty, FS_EmptySet
<1>2. ASSUME NEW T \in SUBSET S, NEW x \in S, x \notin T, T \in Good
      PROVE  T \union {x} \in Good
  <2>1. IsFiniteSet(T)
    BY FS_Subset
  <2>2. SumFunctionOnSet(f, T \union {x}) = 1 + SumFunctionOnSet(f, T)
    <3>1. \A y \in T \union {x} : f[y] \in Int
      OBVIOUS
    <3> QED BY <1>2, <2>1, <3>1, SumAdd
  <2>3. Cardinality(T \union {x}) = Cardinality(T) + 1 /\ Cardinality(T) \in Nat
    BY <1>2, <2>1, FS_AddElement, FS_CardinalityType
  <2> QED BY <1>2, <2>2, <2>3
<1> HIDE DEF Good
<1>3. S \in Good
  BY <1>1, <1>2, AddInduction
<1> QED BY <1>3 DEF Good

LEMMA SumOfZeros ==
  ASSUME NEW S, IsFiniteSet(S), NEW f, \A x \in S : f[x] = 0
  PROVE  SumFunctionOnSet(f, S) = 0
<1> DEFINE Good == {T \in SUBSET S : SumFunctionOnSet(f, T) = 0}
<1>1. {} \in Good
  BY SumEmpty
<1>2. ASSUME NEW T \in SUBSET S, NEW x \in S, x \notin T, T \in Good
      PROVE  T \union {x} \in Good
  <2>1. IsFiniteSet(T) /\ \A y \in T \union {x} : f[y] \in Int
    BY FS_Subset
  <2>2. SumFunctionOnSet(f, T \union {x}) = 0 + SumFunctionOnSet(f, T)
    BY <1>2, <2>1, SumAdd
  <2> QED BY <1>2, <2>2
<1> HIDE DEF Good
<1>3. S \in Good
  BY <1>1, <1>2, AddInduction
<1> QED BY <1>3 DEF Good

LEMMA Distributes ==
  ASSUME NEW k \in Int, NEW a \in Int, NEW b \in Int
  PROVE  k * (a + b) = k * a + k * b
OBVIOUS

LEMMA SumTimes ==
  ASSUME NEW S, IsFiniteSet(S), NEW k \in Int, NEW f, NEW g, \A x \in S : f[x] \in Int /\ g[x] = k * f[x]
  PROVE  SumFunctionOnSet(g, S) = k * SumFunctionOnSet(f, S)
<1> DEFINE Good == {T \in SUBSET S : SumFunctionOnSet(g, T) = k * SumFunctionOnSet(f, T)}
<1>1. {} \in Good
  BY SumEmpty
<1>2. ASSUME NEW T \in SUBSET S, NEW x \in S, x \notin T, T \in Good
      PROVE  T \union {x} \in Good
  <2>1. IsFiniteSet(T) /\ (\A y \in T \union {x} : f[y] \in Int) /\ (\A y \in T \union {x} : g[y] \in Int)
    BY FS_Subset
  <2> DEFINE a == SumFunctionOnSet(f, T)
  <2>2. SumFunctionOnSet(f, T \union {x}) = f[x] + a
    BY <1>2, <2>1, SumAdd
  <2>3. SumFunctionOnSet(g, T \union {x}) = g[x] + k * a
    BY <1>2, <2>1, SumAdd
  <2>4. a \in Int /\ f[x] \in Int
    BY <2>1, SumType
  <2> HIDE DEF a
  <2>5. g[x] + k * a = k * (f[x] + a)
    BY <2>4, Distributes
  <2> QED BY <2>2, <2>3, <2>5
<1> HIDE DEF Good
<1>3. S \in Good
  BY <1>1, <1>2, AddInduction
<1> QED BY <1>3 DEF Good

LEMMA SumPlus ==
  ASSUME NEW S, IsFiniteSet(S), NEW f, NEW g, NEW h,
         \A x \in S : f[x] \in Int /\ g[x] \in Int /\ h[x] = f[x] + g[x]
  PROVE  SumFunctionOnSet(h, S) = SumFunctionOnSet(f, S) + SumFunctionOnSet(g, S)
<1> DEFINE Good == {T \in SUBSET S : SumFunctionOnSet(h, T) = SumFunctionOnSet(f, T) + SumFunctionOnSet(g, T)}
<1>1. {} \in Good
  BY SumEmpty
<1>2. ASSUME NEW T \in SUBSET S, NEW x \in S, x \notin T, T \in Good
      PROVE  T \union {x} \in Good
  <2>1. /\ IsFiniteSet(T)
        /\ \A y \in T \union {x} : f[y] \in Int
        /\ \A y \in T \union {x} : g[y] \in Int
        /\ \A y \in T \union {x} : h[y] \in Int
    BY FS_Subset
  <2>2. /\ SumFunctionOnSet(f, T \union {x}) = f[x] + SumFunctionOnSet(f, T)
        /\ SumFunctionOnSet(g, T \union {x}) = g[x] + SumFunctionOnSet(g, T)
        /\ SumFunctionOnSet(h, T \union {x}) = h[x] + SumFunctionOnSet(h, T)
    BY <1>2, <2>1, SumAdd
  <2>3. SumFunctionOnSet(f, T) \in Int /\ SumFunctionOnSet(g, T) \in Int
    BY <2>1, SumType
  <2> QED BY <1>2, <2>1, <2>2, <2>3
<1> HIDE DEF Good
<1>3. S \in Good
  BY <1>1, <1>2, AddInduction
<1> QED BY <1>3 DEF Good

(* h takes S to I, one to one. *)
OneToOne(h, S, I) ==
  /\ \A x \in S : h[x] \in I
  /\ \A x, y \in S : h[x] = h[y] => x = y
  /\ \A z \in I : \E x \in S : h[x] = z

(* A sum over places is the sum over what is there, if every place has       *)
(* another.                                                                 *)
LEMMA SumOfImage ==
  ASSUME NEW S, IsFiniteSet(S), NEW h, NEW I, OneToOne(h, S, I),
         NEW g, \A z \in I : g[z] \in Int,
         NEW f, \A x \in S : f[x] = g[h[x]]
  PROVE  IsFiniteSet(I) /\ SumFunctionOnSet(g, I) = SumFunctionOnSet(f, S)
<1> DEFINE Image(T) == {h[x] : x \in T}
           Good == {T \in SUBSET S : /\ IsFiniteSet(Image(T))
                                     /\ SumFunctionOnSet(g, Image(T)) = SumFunctionOnSet(f, T)}
<1>0. /\ \A x \in S : h[x] \in I
      /\ \A x, y \in S : h[x] = h[y] => x = y
      /\ \A z \in I : \E x \in S : h[x] = z
  BY DEF OneToOne
<1>1. {} \in Good
  <2>1. Image({}) = {}
    OBVIOUS
  <2> QED BY <2>1, SumEmpty, FS_EmptySet
<1>2. ASSUME NEW T \in SUBSET S, NEW x \in S, x \notin T, T \in Good
      PROVE  T \union {x} \in Good
  <2>1. IsFiniteSet(T) /\ \A y \in T \union {x} : f[y] \in Int
    BY <1>0, FS_Subset
  <2>2. Image(T \union {x}) = Image(T) \union {h[x]} /\ h[x] \notin Image(T)
    BY <1>0, <1>2
  <2>3. \A z \in Image(T) \union {h[x]} : g[z] \in Int
    BY <1>0
  <2>4. IsFiniteSet(Image(T)) /\ SumFunctionOnSet(g, Image(T)) = SumFunctionOnSet(f, T)
    BY <1>2
  <2> HIDE DEF Image
  <2>5. SumFunctionOnSet(f, T \union {x}) = f[x] + SumFunctionOnSet(f, T)
    BY <1>2, <2>1, SumAdd
  <2>6. SumFunctionOnSet(g, Image(T) \union {h[x]}) = g[h[x]] + SumFunctionOnSet(g, Image(T))
    BY <2>2, <2>3, <2>4, SumAdd
  <2>7. IsFiniteSet(Image(T) \union {h[x]})
    BY <2>4, FS_AddElement
  <2> QED BY <1>2, <2>2, <2>4, <2>5, <2>6, <2>7
<1> HIDE DEF Good
<1>3. S \in Good
  BY <1>1, <1>2, AddInduction
<1>4. I = Image(S)
  BY <1>0
<1> QED BY <1>3, <1>4 DEF Good

(* The sum over a set is the sum, over its parts, of their sums. *)
LEMMA SumOfParts ==
  ASSUME NEW S, IsFiniteSet(S), NEW P, IsFiniteSet(P), NEW f, \A x \in S : f[x] \in Int,
         NEW part, \A x \in S : part[x] \in P
  PROVE  SumFunctionOnSet(f, S) =
           SumFunctionOnSet([p \in P |-> SumFunctionOnSet(f, {x \in S : part[x] = p})], P)
<1> DEFINE In(T, p) == {x \in T : part[x] = p}
           Parts(T) == [p \in P |-> SumFunctionOnSet(f, In(T, p))]
           Good == {T \in SUBSET S : SumFunctionOnSet(f, T) = SumFunctionOnSet(Parts(T), P)}
<1>1. {} \in Good
  <2>1. \A p \in P : Parts({})[p] = 0
    <3>1. \A p \in P : In({}, p) = {}
      OBVIOUS
    <3> QED BY <3>1, SumEmpty
  <2> HIDE DEF Parts
  <2> QED BY <2>1, SumOfZeros, SumEmpty
<1>2. ASSUME NEW T \in SUBSET S, NEW x \in S, x \notin T, T \in Good
      PROVE  T \union {x} \in Good
  <2> DEFINE W == T \union {x}
             q == part[x]
  <2>1. IsFiniteSet(T) /\ \A y \in W : f[y] \in Int
    BY FS_Subset
  <2>2. \A p \in P : IsFiniteSet(In(T, p)) /\ In(T, p) \in SUBSET T
    BY <2>1, FS_Subset
  <2>3. \A p \in P : Parts(T)[p] \in Int
    BY <2>2, SumType
  <2>4. In(W, q) = In(T, q) \union {x} /\ x \notin In(T, q)
    BY <1>2
  <2>5. \A p \in P \ {q} : In(W, p) = In(T, p)
    OBVIOUS
  <2>6. q \in P
    OBVIOUS
  <2>7. SumFunctionOnSet(f, W) = f[x] + SumFunctionOnSet(f, T)
    BY <1>2, <2>1, SumAdd
  <2> HIDE DEF q, W, In
  <2>8. SumFunctionOnSet(f, In(T, q) \union {x}) = f[x] + SumFunctionOnSet(f, In(T, q))
    <3>1. \A y \in In(T, q) \union {x} : f[y] \in Int
      BY <2>2, <2>6
    <3> QED BY <2>2, <2>4, <2>6, <3>1, SumAdd
  <2>9. Parts(W)[q] = f[x] + Parts(T)[q] /\ \A p \in P \ {q} : Parts(W)[p] = Parts(T)[p]
    BY <2>4, <2>5, <2>6, <2>8
  <2> HIDE DEF Parts
  <2>10. \A p \in P : Parts(W)[p] \in Int
    BY <2>3, <2>6, <2>9
  <2>11. IsFiniteSet(P \ {q})
    BY FS_Subset
  <2>12. SumFunctionOnSet(Parts(W), P \ {q}) = SumFunctionOnSet(Parts(T), P \ {q})
    BY <2>9, <2>10, <2>11, SumSame
  <2>13. /\ SumFunctionOnSet(Parts(W), P) = Parts(W)[q] + SumFunctionOnSet(Parts(W), P \ {q})
         /\ SumFunctionOnSet(Parts(T), P) = Parts(T)[q] + SumFunctionOnSet(Parts(T), P \ {q})
    BY <2>3, <2>6, <2>10, SumOne
  <2>14. SumFunctionOnSet(Parts(T), P \ {q}) \in Int
    BY <2>3, <2>11, SumType
  <2>15. SumFunctionOnSet(f, W) = SumFunctionOnSet(Parts(W), P)
    <3>1. SumFunctionOnSet(f, T) = SumFunctionOnSet(Parts(T), P) /\ f[x] \in Int /\ Parts(T)[q] \in Int
      BY <1>2, <2>3, <2>6
    <3> QED BY <2>7, <2>9, <2>12, <2>13, <2>14, <3>1
  <2> QED BY <2>15 DEF W
<1> HIDE DEF Good
<1>3. S \in Good
  BY <1>1, <1>2, AddInduction
<1> QED BY <1>3 DEF Good

-----------------------------------------------------------------------------
(* Induction over the numbers up to a bound, for a set of good ones. *)
LEMMA CountInduction ==
  ASSUME NEW n \in Nat, NEW Good, 0 \in Good,
         \A k \in 0 .. n - 1 : k \in Good => k + 1 \in Good
  PROVE  \A k \in 0 .. n : k \in Good
<1> DEFINE Bad == {k \in 0 .. n : k \notin Good}
<1>1. Bad \in SUBSET Nat
  OBVIOUS
<1>2. ASSUME Bad # {}
      PROVE  FALSE
  <2> HIDE DEF Bad
  <2>1. PICK k \in Bad : \A j \in Bad : ~ (<<j, k>> \in OpToRel(<, Nat))
    BY <1>1, <1>2, NatLessThanWellFounded, WFMin
  <2>2. k \in 0 .. n /\ k \notin Good
    BY DEF Bad
  <2>3. k # 0 /\ k - 1 \in 0 .. n - 1 /\ k - 1 + 1 = k
    BY <2>2
  <2>4. k - 1 \in Bad
    BY <2>2, <2>3 DEF Bad
  <2>5. <<k - 1, k>> \in OpToRel(<, Nat)
    BY <2>2, <2>3 DEF OpToRel
  <2> QED BY <2>1, <2>4, <2>5
<1> QED BY <1>2

(* A loop: something is the state after each of its rounds. *)
IsLoop(f, n, A, first, round) ==
  f \in [0 .. n -> A] /\ f[0] = first /\ \A k \in 1 .. n : f[k] = round[<<k, f[k - 1]>>]

LEMMA LoopExists ==
  ASSUME NEW n \in Nat, NEW A, NEW first \in A, NEW round,
         \A k \in 1 .. n, a \in A : round[<<k, a>>] \in A
  PROVE  \E f : IsLoop(f, n, A, first, round)
<1> DEFINE Loop(m, f) == f[0] = first /\ \A k \in 1 .. m : f[k] = round[<<k, f[k - 1]>>]
           Good == {m \in 0 .. n : \E f \in [0 .. m -> A] : Loop(m, f)}
<1>1. 0 \in Good
  <2> DEFINE f == [k \in 0 .. 0 |-> first]
  <2>1. f \in [0 .. 0 -> A] /\ f[0] = first
    OBVIOUS
  <2>2. \A k \in 1 .. 0 : FALSE
    OBVIOUS
  <2> HIDE DEF f
  <2>3. Loop(0, f)
    BY <2>1, <2>2
  <2>4. 0 \in 0 .. n
    OBVIOUS
  <2> QED BY <2>1, <2>3, <2>4
<1>2. ASSUME NEW m \in 0 .. n - 1, m \in Good
      PROVE  m + 1 \in Good
  <2>1. PICK f \in [0 .. m -> A] : Loop(m, f)
    BY <1>2
  <2> DEFINE g == [k \in 0 .. m + 1 |-> IF k = m + 1 THEN round[<<m + 1, f[m]>>] ELSE f[k]]
  <2>2. m \in 0 .. m /\ m + 1 \in 1 .. n
    OBVIOUS
  <2>3. round[<<m + 1, f[m]>>] \in A
    <3>1. f[m] \in A
      BY <2>2
    <3> QED BY <2>2, <3>1
  <2>4. g \in [0 .. m + 1 -> A]
    BY <2>3
  <2>5. g[0] = first
    BY <2>1
  <2>6. ASSUME NEW k \in 1 .. m + 1
        PROVE  g[k] = round[<<k, g[k - 1]>>]
    <3>1. CASE k = m + 1
      <4>1. k - 1 = m /\ m \in 0 .. m + 1 /\ m # m + 1 /\ k \in 0 .. m + 1
        BY <3>1
      <4>2. g[k - 1] = f[m] /\ g[k] = round[<<m + 1, f[m]>>]
        BY <3>1, <4>1
      <4> QED BY <3>1, <4>2
    <3>2. CASE k # m + 1
      <4>1. k \in 1 .. m /\ k - 1 \in 0 .. m /\ k - 1 # m + 1
        BY <3>2
      <4>2. g[k] = f[k] /\ g[k - 1] = f[k - 1]
        BY <4>1, <3>2
      <4> QED BY <2>1, <4>1, <4>2
    <3> QED BY <3>1, <3>2
  <2> HIDE DEF g
  <2>7. m + 1 \in 0 .. n
    OBVIOUS
  <2> QED BY <2>4, <2>5, <2>6, <2>7
<1>3. n \in Good
  <2> HIDE DEF Good
  <2>1. n \in 0 .. n
    OBVIOUS
  <2> QED BY <1>1, <1>2, <2>1, CountInduction
<1> QED BY <1>3 DEF IsLoop

(* The members of a set of numbers from the smallest: every one has its      *)
(* place, and every place its member.                                       *)
LEMMA RanksInOrder ==
  ASSUME NEW S \in SUBSET Int, IsFiniteSet(S), NEW nth,
         nth = [n \in 1 .. Cardinality(S) |-> CHOOSE i \in S : Cardinality({j \in S : j <= i}) = n]
  PROVE  /\ Cardinality(S) \in Nat
         /\ nth \in [1 .. Cardinality(S) -> S]
         /\ \A n, m \in 1 .. Cardinality(S) : nth[n] = nth[m] => n = m
         /\ \A i \in S : \E n \in 1 .. Cardinality(S) : nth[n] = i
<1> DEFINE UpTo(i) == {j \in S : j <= i}
           rank == [i \in S |-> Cardinality(UpTo(i))]
           size == Cardinality(S)
<1>1. size \in Nat
  BY FS_CardinalityType
<1>2. ASSUME NEW i \in S
      PROVE  IsFiniteSet(UpTo(i)) /\ rank[i] \in 1 .. size
  <2>1. UpTo(i) \in SUBSET S /\ i \in UpTo(i)
    OBVIOUS
  <2> HIDE DEF UpTo
  <2>2. IsFiniteSet(UpTo(i)) /\ Cardinality(UpTo(i)) <= size
    BY <2>1, FS_Subset
  <2>3. Cardinality(UpTo(i)) \in Nat /\ Cardinality(UpTo(i)) # 0
    BY <2>1, <2>2, FS_CardinalityType, FS_EmptySet
  <2> QED BY <1>1, <2>2, <2>3
<1>3. ASSUME NEW i \in S, NEW k \in S, i <= k, rank[i] = rank[k]
      PROVE  i = k
  <2>0. i \in Int /\ k \in Int /\ \A j \in S : j \in Int
    OBVIOUS
  <2>1. UpTo(i) \in SUBSET UpTo(k) /\ k \in UpTo(k)
    <3>1. k <= k /\ \A j \in S : j <= i => j <= k
      BY <1>3, <2>0
    <3> QED BY <3>1
  <2>2. UpTo(i) = UpTo(k)
    <3> HIDE DEF UpTo
    <3> QED BY <1>2, <1>3, <2>1, FS_Subset
  <2> QED BY <1>3, <2>1, <2>2
<1>4. \A i, k \in S : rank[i] = rank[k] => i = k
  <2> HIDE DEF rank
  <2>1. \A i, k \in S : i <= k \/ k <= i
    OBVIOUS
  <2> QED BY <1>3, <2>1
<1>5. rank \in Injection(S, 1 .. size)
  <2>1. rank \in [S -> 1 .. size]
    BY <1>2
  <2> HIDE DEF rank
  <2> QED BY <1>4, <2>1 DEF Injection, IsInjective
<1>6. \A n \in 1 .. size : \E i \in S : rank[i] = n
  <2>1. IsFiniteSet(1 .. size) /\ Cardinality(1 .. size) = size
    BY <1>1, FS_Interval
  <2> HIDE DEF rank, size
  <2>2. rank \in Surjection(S, 1 .. size)
    BY <1>5, <2>1, FS_Injection DEF size
  <2> QED BY <2>2 DEF Surjection
<1>7. nth = [n \in 1 .. size |-> CHOOSE i \in S : Cardinality(UpTo(i)) = n]
  OBVIOUS
<1>8. ASSUME NEW n \in 1 .. size
      PROVE  nth[n] \in S /\ rank[nth[n]] = n
  <2>1. \E i \in S : Cardinality(UpTo(i)) = n
    BY <1>6
  <2>2. nth[n] = CHOOSE i \in S : Cardinality(UpTo(i)) = n
    BY <1>7
  <2> HIDE DEF UpTo
  <2>3. nth[n] \in S /\ Cardinality(UpTo(nth[n])) = n
    BY <2>1, <2>2
  <2> QED BY <2>3
<1> HIDE DEF rank, size
<1>9. nth \in [1 .. size -> S]
  BY <1>7, <1>8
<1>10. \A i \in S : rank[i] \in 1 .. size
  BY <1>2
<1>11. ASSUME NEW i \in S
       PROVE  nth[rank[i]] = i
  <2>1. nth[rank[i]] \in S /\ rank[nth[rank[i]]] = rank[i]
    BY <1>8, <1>10
  <2> QED BY <1>4, <2>1
<1>12. \A n, m \in 1 .. size : nth[n] = nth[m] => n = m
  BY <1>8
<1>13. \A i \in S : \E n \in 1 .. size : nth[n] = i
  BY <1>10, <1>11
<1> QED BY <1>1, <1>9, <1>12, <1>13 DEF size

(* Only what is not zero counts. *)
LEMMA SumOfSupport ==
  ASSUME NEW S, IsFiniteSet(S), NEW f, \A x \in S : f[x] \in Int,
         NEW T \in SUBSET S, \A x \in S \ T : f[x] = 0
  PROVE  SumFunctionOnSet(f, S) = SumFunctionOnSet(f, T)
<1> DEFINE Good == {U \in SUBSET (S \ T) : SumFunctionOnSet(f, T \union U) = SumFunctionOnSet(f, T)}
<1>1. {} \in Good
  <2>1. T \union {} = T
    OBVIOUS
  <2> QED BY <2>1
<1>2. ASSUME NEW U \in SUBSET (S \ T), NEW x \in S \ T, x \notin U, U \in Good
      PROVE  U \union {x} \in Good
  <2> DEFINE V == T \union U
  <2>1. V \in SUBSET S /\ x \in S /\ x \notin V /\ T \union (U \union {x}) = V \union {x}
    BY <1>2
  <2>2. SumFunctionOnSet(f, V) = SumFunctionOnSet(f, T)
    BY <1>2
  <2> HIDE DEF V
  <2>3. IsFiniteSet(V) /\ IsFiniteSet(T)
    BY <2>1, FS_Subset
  <2>4. SumFunctionOnSet(f, V \union {x}) = f[x] + SumFunctionOnSet(f, V)
    BY <2>1, <2>3, SumAdd
  <2>5. f[x] = 0
    OBVIOUS
  <2>6. \A y \in T : f[y] \in Int
    OBVIOUS
  <2>7. SumFunctionOnSet(f, T) \in Int
    BY <2>3, <2>6, SumType
  <2>8. SumFunctionOnSet(f, V \union {x}) = SumFunctionOnSet(f, T)
    BY <2>2, <2>4, <2>5, <2>7
  <2>9. SumFunctionOnSet(f, T \union (U \union {x})) = SumFunctionOnSet(f, T)
    BY <2>1, <2>8
  <2> QED BY <2>9
<1>3. IsFiniteSet(S \ T)
  BY FS_Subset
<1> HIDE DEF Good
<1>4. S \ T \in Good
  BY <1>1, <1>2, <1>3, AddInduction
<1>5. T \union (S \ T) = S
  OBVIOUS
<1> QED BY <1>4, <1>5 DEF Good
=============================================================================
