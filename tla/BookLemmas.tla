----------------------------- MODULE BookLemmas -----------------------------
(***************************************************************************)
(* What the operations of a price level and of the book do, for every set  *)
(* of ids, prices and sizes.                                               *)
(*                                                                         *)
(* First sums.  A total is a sum of the values of a function over a finite *)
(* set, as the sums over the levels of a side are: SumFunctionOnSet of the *)
(* community modules.  It is defined as a fold, by a recursive function;   *)
(* the first lemmas show that the recursion has a solution on finite sets, *)
(* that the order of the fold does not matter, and what a sum is after the *)
(* changes the models make.  Induction is stated for sets, not for         *)
(* predicates: a set of naturals (or of subsets) closed under the          *)
(* induction step has them all.                                            *)
(*                                                                         *)
(* Then one level: its operations keep every other order in its place and  *)
(* the cached total exact.                                                 *)
(*                                                                         *)
(* Then the book: insert_order, cancel_order and modify_order leave a      *)
(* consistent book consistent (well typed, with the index and the queues   *)
(* in agreement) and its counts exact, add or drop exactly the ids and     *)
(* prices and shares they should, and leave every other order as it was.   *)
(* The last part shows which sequence snapshot() is, and what the          *)
(* operations do to it: the priority queues of PriorityQueues.             *)
(***************************************************************************)
EXTENDS BookOps, SequenceTheorems, FiniteSetTheorems, WellFoundedInduction,
        NaturalsInduction, TLAPS

(***************************************************************************)
(* Induction                                                               *)
(***************************************************************************)

\* A set of naturals that is not empty has a least element.
LEMMA LeastNatural ==
  ASSUME NEW T \in SUBSET Nat, T # {}
  PROVE  \E n \in T : \A m \in T : n <= m
<1> DEFINE R == OpToRel(<, Nat)
<1>1. IsWellFoundedOn(R, Nat)
  BY NatLessThanWellFounded
<1>2. R = {pair \in Nat \X Nat : pair[1] < pair[2]}
  BY DEF OpToRel
<1> HIDE DEF R
<1>3. PICK n \in T : \A m \in T : <<m, n>> \notin R
  BY <1>1, WFMin
<1>4. \A m \in T : ~(m < n)
  BY <1>2, <1>3
<1> QED
  BY <1>3, <1>4

\* Mathematical induction.
LEMMA AllNaturals ==
  ASSUME NEW T, 0 \in T, \A n \in Nat : n \in T => n + 1 \in T
  PROVE  Nat \subseteq T
<1> SUFFICES ASSUME Nat \ T # {} PROVE FALSE
  OBVIOUS
<1>1. PICK n \in Nat \ T : \A m \in Nat \ T : n <= m
  BY LeastNatural
<1>2. n - 1 \in Nat
  BY <1>1
<1>3. n - 1 \in T
  BY <1>1, <1>2
<1> QED
  BY <1>1, <1>2, <1>3

\* Induction over the subsets of a finite set, from those with one element
\* less.
LEMMA AllSubsets ==
  ASSUME NEW S, IsFiniteSet(S), NEW T,
         \A s \in SUBSET S : (\A x \in s : s \ {x} \in T) => s \in T
  PROVE  SUBSET S \subseteq T
<1> DEFINE Done == {n \in Nat : \A s \in SUBSET S : Cardinality(s) = n => s \in T}
<1>1. 0 \in Done
  <2> SUFFICES ASSUME NEW s \in SUBSET S, Cardinality(s) = 0 PROVE s \in T
    OBVIOUS
  <2>1. s = {}
    BY FS_Subset, FS_EmptySet
  <2> QED
    BY <2>1
<1>2. ASSUME NEW n \in Nat, n \in Done PROVE n + 1 \in Done
  <2> SUFFICES ASSUME NEW s \in SUBSET S, Cardinality(s) = n + 1 PROVE s \in T
    OBVIOUS
  <2>1. ASSUME NEW x \in s PROVE s \ {x} \in T
    <3>1. IsFiniteSet(s)
      BY FS_Subset
    <3>2. Cardinality(s \ {x}) = Cardinality(s) - 1
      BY <3>1, FS_RemoveElement
    <3>3. Cardinality(s \ {x}) = n
      BY <3>2
    <3> QED
      BY <1>2, <3>3
  <2> QED
    BY <2>1
<1>3. Nat \subseteq Done
  <2> HIDE DEF Done
  <2> QED
    BY <1>1, <1>2, AllNaturals
<1>4. \A s \in SUBSET S : Cardinality(s) \in Nat
  BY FS_Subset, FS_CardinalityType
<1> QED
  BY <1>3, <1>4

(***************************************************************************)
(* The recursion behind a sum                                              *)
(***************************************************************************)

\* The element the fold takes first, and the fold's equation.
Chosen(s) == CHOOSE x \in s : TRUE

Unfolded(f, g, s) == IF s = {} THEN 0 ELSE f[Chosen(s)] + g[s \ {Chosen(s)}]

Sums(f, S, g) == g = [s \in SUBSET S |-> Unfolded(f, g, s)]

LEMMA SumIsFold ==
  ASSUME NEW f, NEW S
  PROVE  SumFunctionOnSet(f, S) = (CHOOSE g : Sums(f, S, g))[S]
BY DEF SumFunctionOnSet, FoldFunctionOnSet, MapThenFoldSet, Sums, Unfolded, Chosen

\* The recursion has a solution: functions that satisfy the equation on the
\* sets of at most n elements exist for every n.
LEMMA SumsExist ==
  ASSUME NEW f, NEW S, IsFiniteSet(S)
  PROVE  \E g : Sums(f, S, g)
<1> DEFINE Upto(g, n) ==
             /\ g = [s \in SUBSET S |-> g[s]]
             /\ \A s \in SUBSET S : Cardinality(s) <= n => g[s] = Unfolded(f, g, s)
           Done == {n \in Nat : \E g : Upto(g, n)}
<1>1. \A s \in SUBSET S : IsFiniteSet(s) /\ Cardinality(s) \in Nat
                           /\ Cardinality(s) <= Cardinality(S)
                           /\ (Cardinality(s) = 0 <=> s = {})
  BY FS_Subset, FS_CardinalityType, FS_EmptySet
<1>2. 0 \in Done
  <2> DEFINE zero == [s \in SUBSET S |-> 0]
  <2>1. \A s \in SUBSET S : Cardinality(s) <= 0 => s = {}
    BY <1>1
  <2>2. Upto(zero, 0)
    BY <2>1 DEF Unfolded
  <2> QED
    BY <2>2
<1>3. ASSUME NEW n \in Nat, n \in Done PROVE n + 1 \in Done
  <2>1. PICK g : Upto(g, n)
    BY <1>3
  <2> DEFINE h == [s \in SUBSET S |->
                     IF Cardinality(s) <= n + 1 THEN Unfolded(f, g, s) ELSE 0]
  <2>2. ASSUME NEW s \in SUBSET S, Cardinality(s) <= n PROVE h[s] = g[s]
    <3>1. Cardinality(s) <= n + 1
      BY <1>1, <2>2
    <3> QED
      BY <2>1, <2>2, <3>1
  <2>3. ASSUME NEW s \in SUBSET S, Cardinality(s) <= n + 1
        PROVE  h[s] = Unfolded(f, h, s)
    <3>1. CASE s = {}
      BY <2>3, <3>1 DEF Unfolded
    <3>2. CASE s # {}
      <4>1. Chosen(s) \in s
        BY <3>2 DEF Chosen
      <4>2. s \ {Chosen(s)} \in SUBSET S /\ Cardinality(s \ {Chosen(s)}) = Cardinality(s) - 1
        BY <1>1, <4>1, FS_RemoveElement
      <4>3. Cardinality(s \ {Chosen(s)}) <= n
        BY <1>1, <2>3, <4>2
      <4>4. h[s \ {Chosen(s)}] = g[s \ {Chosen(s)}]
        BY <2>2, <4>2, <4>3
      <4>5. h[s] = Unfolded(f, g, s)
        BY <2>3
      <4> HIDE DEF h
      <4> QED
        BY <3>2, <4>4, <4>5 DEF Unfolded
    <3> QED
      BY <3>1, <3>2
  <2>4. Upto(h, n + 1)
    <3> HIDE DEF h
    <3>1. h = [s \in SUBSET S |-> h[s]]
      BY DEF h
    <3> QED
      BY <2>3, <3>1
  <2> HIDE DEF h, Upto
  <2> QED
    BY <2>4
<1>4. Cardinality(S) \in Done
  <2>1. Nat \subseteq Done
    <3> HIDE DEF Done
    <3> QED
      BY <1>2, <1>3, AllNaturals
  <2> QED
    BY <2>1, FS_CardinalityType
<1>5. PICK g : Upto(g, Cardinality(S))
  BY <1>4
<1>6. \A s \in SUBSET S : g[s] = Unfolded(f, g, s)
  BY <1>1, <1>5
<1>7. g = [s \in SUBSET S |-> g[s]]
  BY <1>5
<1> QED
  BY <1>6, <1>7 DEF Sums

\* ... and no more than one: the sum of a subset is the same in the fold of
\* any set that has it.
LEMMA SumsAgree ==
  ASSUME NEW f, NEW S, IsFiniteSet(S), NEW T \in SUBSET S, NEW g, NEW h,
         Sums(f, S, g), Sums(f, T, h)
  PROVE  \A s \in SUBSET T : g[s] = h[s]
<1> DEFINE Same == {s \in SUBSET T : g[s] = h[s]}
<1>1. ASSUME NEW s \in SUBSET T, \A x \in s : s \ {x} \in Same
      PROVE  s \in Same
  <2>1. g[s] = Unfolded(f, g, s)
    BY DEF Sums
  <2>2. h[s] = Unfolded(f, h, s)
    BY DEF Sums
  <2>3. CASE s = {}
    BY <2>1, <2>2, <2>3 DEF Unfolded
  <2>4. CASE s # {}
    <3>1. Chosen(s) \in s
      BY <2>4 DEF Chosen
    <3> QED
      BY <1>1, <2>1, <2>2, <2>4, <3>1 DEF Unfolded
  <2> QED
    BY <2>3, <2>4
<1>2. IsFiniteSet(T)
  BY FS_Subset
<1>3. SUBSET T \subseteq Same
  <2> HIDE DEF Same
  <2> QED
    BY <1>1, <1>2, AllSubsets
<1> QED
  BY <1>3

LEMMA SumEmpty ==
  ASSUME NEW f
  PROVE  SumFunctionOnSet(f, {}) = 0
<1> DEFINE g == CHOOSE g : Sums(f, {}, g)
<1>1. Sums(f, {}, g)
  BY SumsExist, FS_EmptySet
<1> HIDE DEF g
<1>2. g[{}] = 0
  BY <1>1 DEF Sums, Unfolded
<1> QED
  BY <1>2, SumIsFold DEF g

LEMMA SumUnfolds ==
  ASSUME NEW f, NEW S, IsFiniteSet(S), S # {}
  PROVE  SumFunctionOnSet(f, S) =
           f[Chosen(S)] + SumFunctionOnSet(f, S \ {Chosen(S)})
<1> DEFINE rest == S \ {Chosen(S)}
           g == CHOOSE g : Sums(f, S, g)
           h == CHOOSE h : Sums(f, rest, h)
<1>1. IsFiniteSet(rest) /\ rest \in SUBSET S
  BY FS_RemoveElement
<1>2. SumFunctionOnSet(f, S) = g[S] /\ SumFunctionOnSet(f, rest) = h[rest]
  BY SumIsFold
<1>3. Sums(f, S, g)
  BY SumsExist
<1>4. Sums(f, rest, h)
  BY <1>1, SumsExist
<1> HIDE DEF g, h, rest
<1>5. g[rest] = h[rest]
  BY <1>1, <1>3, <1>4, SumsAgree
<1>6. g[S] = Unfolded(f, g, S)
  BY <1>3 DEF Sums
<1> QED
  BY <1>2, <1>5, <1>6 DEF Unfolded, rest

(***************************************************************************)
(* Sums of integers                                                        *)
(***************************************************************************)

\* The sum is an integer.
LEMMA SumInt ==
  ASSUME NEW f, NEW S, IsFiniteSet(S), \A x \in S : f[x] \in Int
  PROVE  SumFunctionOnSet(f, S) \in Int
<1> DEFINE Done == {s \in SUBSET S : SumFunctionOnSet(f, s) \in Int}
<1>1. ASSUME NEW s \in SUBSET S, \A x \in s : s \ {x} \in Done
      PROVE  s \in Done
  <2>1. CASE s = {}
    BY <2>1, SumEmpty
  <2>2. CASE s # {}
    <3>1. IsFiniteSet(s)
      BY FS_Subset
    <3>2. Chosen(s) \in s
      BY <2>2 DEF Chosen
    <3>3. SumFunctionOnSet(f, s) = f[Chosen(s)] + SumFunctionOnSet(f, s \ {Chosen(s)})
      BY <2>2, <3>1, SumUnfolds
    <3>4. f[Chosen(s)] \in Int /\ SumFunctionOnSet(f, s \ {Chosen(s)}) \in Int
      BY <1>1, <3>2
    <3> QED
      BY <3>3, <3>4
  <2> QED
    BY <2>1, <2>2
<1>2. SUBSET S \subseteq Done
  <2> HIDE DEF Done
  <2> QED
    BY <1>1, AllSubsets
<1> QED
  BY <1>2

\* Any element may be taken first.
LEMMA SumTakes ==
  ASSUME NEW f, NEW S, IsFiniteSet(S), \A x \in S : f[x] \in Int, NEW x \in S
  PROVE  SumFunctionOnSet(f, S) = f[x] + SumFunctionOnSet(f, S \ {x})
<1> DEFINE Sum(s) == SumFunctionOnSet(f, s)
           Done == {s \in SUBSET S : \A y \in s : Sum(s) = f[y] + Sum(s \ {y})}
<1>1. ASSUME NEW s \in SUBSET S, \A y \in s : s \ {y} \in Done
      PROVE  s \in Done
  <2> SUFFICES ASSUME NEW y \in s
               PROVE  Sum(s) = f[y] + Sum(s \ {y})
    OBVIOUS
  <2> DEFINE c == Chosen(s)
             least == (s \ {c}) \ {y}
  <2>1. c \in s
    BY DEF Chosen
  <2>2. Sum(s) = f[c] + Sum(s \ {c})
    BY FS_Subset, SumUnfolds
  <2>3. CASE y # c
    <3>1. Sum(least) \in Int
      BY FS_Subset, SumInt
    <3>2. Sum(s \ {c}) = f[y] + Sum(least)
      BY <1>1, <2>1, <2>3
    <3>3. (s \ {y}) \ {c} = least
      OBVIOUS
    <3>4. Sum(s \ {y}) = f[c] + Sum((s \ {y}) \ {c})
      BY <1>1, <2>1, <2>3
    <3>5. f[y] \in Int /\ f[c] \in Int
      BY <2>1
    <3>6. Sum(s) = f[c] + (f[y] + Sum(least))
      BY <2>2, <3>2
    <3>7. Sum(s \ {y}) = f[c] + Sum(least)
      BY <3>3, <3>4
    <3> HIDE DEF Sum, c, least
    <3>8. f[c] + (f[y] + Sum(least)) = f[y] + (f[c] + Sum(least))
      BY <3>1, <3>5
    <3> QED
      BY <3>6, <3>7, <3>8, Zenon
  <2> QED
    BY <2>2, <2>3
<1>2. SUBSET S \subseteq Done
  <2> HIDE DEF Done
  <2> QED
    BY <1>1, AllSubsets
<1> QED
  BY <1>2

\* The sum depends on the values only.
LEMMA SumSame ==
  ASSUME NEW f, NEW g, NEW S, IsFiniteSet(S), \A x \in S : f[x] = g[x]
  PROVE  SumFunctionOnSet(f, S) = SumFunctionOnSet(g, S)
<1> DEFINE Done == {s \in SUBSET S : SumFunctionOnSet(f, s) = SumFunctionOnSet(g, s)}
<1>1. ASSUME NEW s \in SUBSET S, \A x \in s : s \ {x} \in Done
      PROVE  s \in Done
  <2>1. CASE s = {}
    BY <2>1, SumEmpty
  <2>2. CASE s # {}
    <3>1. IsFiniteSet(s)
      BY FS_Subset
    <3>2. Chosen(s) \in s
      BY <2>2 DEF Chosen
    <3>3. /\ SumFunctionOnSet(f, s) = f[Chosen(s)] + SumFunctionOnSet(f, s \ {Chosen(s)})
          /\ SumFunctionOnSet(g, s) = g[Chosen(s)] + SumFunctionOnSet(g, s \ {Chosen(s)})
      BY <2>2, <3>1, SumUnfolds
    <3> QED
      BY <1>1, <3>2, <3>3
  <2> QED
    BY <2>1, <2>2
<1>2. SUBSET S \subseteq Done
  <2> HIDE DEF Done
  <2> QED
    BY <1>1, AllSubsets
<1> QED
  BY <1>2

\* The values of a function on a finite set are finitely many.
LEMMA FiniteImage ==
  ASSUME NEW f, NEW S, IsFiniteSet(S)
  PROVE  IsFiniteSet({f[x] : x \in S})
<1> DEFINE Done == {s \in SUBSET S : IsFiniteSet({f[x] : x \in s})}
<1>1. ASSUME NEW s \in SUBSET S, \A x \in s : s \ {x} \in Done
      PROVE  s \in Done
  <2>1. CASE s = {}
    <3>1. {f[x] : x \in s} = {}
      BY <2>1
    <3> QED
      BY <3>1, FS_EmptySet
  <2>2. CASE s # {}
    <3>1. PICK x \in s : TRUE
      BY <2>2
    <3> DEFINE whole == {f[z] : z \in s}
               rest == {f[z] : z \in s \ {x}}
    <3>2. whole = rest \cup {f[x]}
      BY <3>1
    <3>3. IsFiniteSet(rest)
      BY <1>1, <3>1
    <3> HIDE DEF whole, rest
    <3>4. IsFiniteSet(whole)
      BY <3>2, <3>3, FS_AddElement
    <3> QED
      BY <3>4 DEF whole
  <2> QED
    BY <2>1, <2>2
<1>2. SUBSET S \subseteq Done
  <2> HIDE DEF Done
  <2> QED
    BY <1>1, AllSubsets
<1> QED
  BY <1>2

\* ... not on the names of the elements: a sum may be taken over a set that
\* is in one-to-one correspondence.
LEMMA SumRenamed ==
  ASSUME NEW f, NEW T, \A y \in T : f[y] \in Int,
         NEW via, NEW S, IsFiniteSet(S),
         NEW into, \A x \in S : into[x] \in T /\ via[x] = f[into[x]],
         \A x, z \in S : into[x] = into[z] => x = z,
         \A y \in T : \E x \in S : into[x] = y
  PROVE  SumFunctionOnSet(via, S) = SumFunctionOnSet(f, T)
<1> DEFINE Image(s) == {into[x] : x \in s}
           Done == {s \in SUBSET S : SumFunctionOnSet(via, s) = SumFunctionOnSet(f, Image(s))}
<1>1. ASSUME NEW s \in SUBSET S, \A x \in s : s \ {x} \in Done
      PROVE  s \in Done
  <2>1. CASE s = {}
    <3>1. Image(s) = {}
      BY <2>1
    <3> QED
      BY <2>1, <3>1, SumEmpty
  <2>2. CASE s # {}
    <3>1. PICK x \in s : TRUE
      BY <2>2
    <3>2. IsFiniteSet(s) /\ IsFiniteSet(Image(s))
      BY FS_Subset, FiniteImage
    <3>3. Image(s) \ {into[x]} = Image(s \ {x})
      BY <3>1
    <3>4. into[x] \in Image(s) /\ Image(s) \subseteq T
      BY <3>1
    <3>5. SumFunctionOnSet(via, s) = via[x] + SumFunctionOnSet(via, s \ {x})
      <4>1. \A z \in s : via[z] \in Int
        OBVIOUS
      <4> QED
        BY <3>1, <3>2, <4>1, SumTakes
    <3>6. SumFunctionOnSet(f, Image(s))
             = f[into[x]] + SumFunctionOnSet(f, Image(s) \ {into[x]})
      <4> HIDE DEF Image
      <4> QED
        BY <3>2, <3>4, SumTakes
    <3>7. via[x] = f[into[x]]
      BY <3>1
    <3>8. SumFunctionOnSet(via, s \ {x}) = SumFunctionOnSet(f, Image(s \ {x}))
      BY <1>1, <3>1
    <3> HIDE DEF Image
    <3> QED
      BY <3>3, <3>5, <3>6, <3>7, <3>8
  <2> QED
    BY <2>1, <2>2
<1>2. SUBSET S \subseteq Done
  <2> HIDE DEF Done
  <2> QED
    BY <1>1, AllSubsets
<1>3. Image(S) = T
  OBVIOUS
<1> QED
  BY <1>2, <1>3

(***************************************************************************)
(* Sums after a change                                                     *)
(***************************************************************************)

\* A sum of naturals is one, and no term is larger than the sum.
LEMMA SumNat ==
  ASSUME NEW f, NEW S, IsFiniteSet(S), \A x \in S : f[x] \in Nat
  PROVE  /\ SumFunctionOnSet(f, S) \in Nat
         /\ \A x \in S : f[x] <= SumFunctionOnSet(f, S)
<1> DEFINE Done == {s \in SUBSET S : SumFunctionOnSet(f, s) \in Nat}
<1>1. ASSUME NEW s \in SUBSET S, \A x \in s : s \ {x} \in Done
      PROVE  s \in Done
  <2>1. CASE s = {}
    BY <2>1, SumEmpty
  <2>2. CASE s # {}
    <3>1. IsFiniteSet(s)
      BY FS_Subset
    <3>2. PICK x \in s : TRUE
      BY <2>2
    <3>3. SumFunctionOnSet(f, s) = f[x] + SumFunctionOnSet(f, s \ {x})
      <4>1. \A y \in s : f[y] \in Int
        OBVIOUS
      <4> QED
        BY <3>1, <3>2, <4>1, SumTakes
    <3>4. f[x] \in Nat /\ SumFunctionOnSet(f, s \ {x}) \in Nat
      BY <1>1, <3>2
    <3> QED
      BY <3>3, <3>4
  <2> QED
    BY <2>1, <2>2
<1>2. SUBSET S \subseteq Done
  <2> HIDE DEF Done
  <2> QED
    BY <1>1, AllSubsets
<1>3. ASSUME NEW x \in S PROVE f[x] <= SumFunctionOnSet(f, S)
  <2>1. SumFunctionOnSet(f, S) = f[x] + SumFunctionOnSet(f, S \ {x})
    <3>1. \A y \in S : f[y] \in Int
      OBVIOUS
    <3> QED
      BY <3>1, SumTakes
  <2>2. SumFunctionOnSet(f, S \ {x}) \in Nat
    BY <1>2
  <2>3. f[x] \in Nat
    OBVIOUS
  <2> QED
    BY <2>1, <2>2, <2>3
<1> QED
  BY <1>2, <1>3

\* Two functions that agree but at one element k: the second has a term more,
\* a term less, or another term.
LEMMA SumAdded ==
  ASSUME NEW f, NEW g, NEW S, NEW T, NEW k, IsFiniteSet(S), k \notin S, T = S \cup {k},
         \A x \in S : f[x] \in Int, \A x \in S : f[x] = g[x], g[k] \in Int
  PROVE  SumFunctionOnSet(g, T) = SumFunctionOnSet(f, S) + g[k]
<1>1. IsFiniteSet(T)
  BY FS_AddElement
<1>2. k \in T /\ T \ {k} = S /\ \A x \in T : g[x] \in Int
  OBVIOUS
<1>3. SumFunctionOnSet(g, T) = g[k] + SumFunctionOnSet(g, S)
  BY <1>1, <1>2, SumTakes
<1>4. SumFunctionOnSet(g, S) = SumFunctionOnSet(f, S)
  BY SumSame
<1>5. SumFunctionOnSet(f, S) \in Int
  BY SumInt
<1> QED
  BY <1>3, <1>4, <1>5

LEMMA SumRemoved ==
  ASSUME NEW f, NEW g, NEW S, NEW T, NEW k \in S, IsFiniteSet(S), T = S \ {k},
         \A x \in S : f[x] \in Int, \A x \in T : f[x] = g[x]
  PROVE  /\ SumFunctionOnSet(g, T) \in Int
         /\ SumFunctionOnSet(g, T) = SumFunctionOnSet(f, S) - f[k]
<1>1. IsFiniteSet(T)
  BY FS_RemoveElement
<1>2. SumFunctionOnSet(f, S) = f[k] + SumFunctionOnSet(f, T)
  BY SumTakes
<1>3. \A x \in T : f[x] \in Int
  OBVIOUS
<1>4. SumFunctionOnSet(g, T) = SumFunctionOnSet(f, T)
  BY <1>1, SumSame
<1>5. SumFunctionOnSet(f, T) \in Int /\ f[k] \in Int
  BY <1>1, <1>3, SumInt
<1> QED
  BY <1>2, <1>4, <1>5

LEMMA SumChanged ==
  ASSUME NEW f, NEW g, NEW S, NEW k \in S, IsFiniteSet(S), g[k] \in Int,
         \A x \in S : f[x] \in Int, \A x \in S \ {k} : f[x] = g[x]
  PROVE  SumFunctionOnSet(g, S) = (SumFunctionOnSet(f, S) - f[k]) + g[k]
<1>1. \A x \in S : g[x] \in Int
  OBVIOUS
<1>2. SumFunctionOnSet(g, S) = g[k] + SumFunctionOnSet(g, S \ {k})
  BY <1>1, SumTakes
<1>3. /\ SumFunctionOnSet(g, S \ {k}) \in Int
      /\ SumFunctionOnSet(g, S \ {k}) = SumFunctionOnSet(f, S) - f[k]
  <2> DEFINE T == S \ {k}
  <2>1. T = S \ {k} /\ \A x \in T : f[x] = g[x]
    OBVIOUS
  <2> HIDE DEF T
  <2>2. /\ SumFunctionOnSet(g, T) \in Int
        /\ SumFunctionOnSet(g, T) = SumFunctionOnSet(f, S) - f[k]
    BY <2>1, SumRemoved
  <2> QED
    BY <2>2 DEF T
<1>4. SumFunctionOnSet(f, S) \in Int /\ f[k] \in Int
  BY SumInt
<1> QED
  BY <1>2, <1>3, <1>4

(***************************************************************************)
(* The queue of a level                                                    *)
(***************************************************************************)

\* An order is found at its own position, and only there if ids are not
\* repeated (find, front).
LEMMA PositionOfHeld ==
  ASSUME NEW level \in Level, NEW id, HasOrder(level, id)
  PROVE  /\ PositionOf(level, id) \in Positions(level)
         /\ level.queue[PositionOf(level, id)].id = id
         /\ FindInLevel(level, id) \in Order
         /\ FindInLevel(level, id).id = id
<1>1. /\ PositionOf(level, id) \in Positions(level)
      /\ level.queue[PositionOf(level, id)].id = id
  BY DEF HasOrder, PositionOf
<1>2. level.queue \in Seq(Order)
  BY DEF Level
<1>3. level.queue[PositionOf(level, id)] \in Order
  BY <1>1, <1>2, ElementOfSeq DEF Positions
<1> QED
  BY <1>1, <1>3 DEF FindInLevel

LEMMA PositionOfUnique ==
  ASSUME NEW level \in Level, NoTwins(level), NEW i \in Positions(level)
  PROVE  /\ HasOrder(level, level.queue[i].id)
         /\ PositionOf(level, level.queue[i].id) = i
         /\ FindInLevel(level, level.queue[i].id) = level.queue[i]
<1> DEFINE id == level.queue[i].id
<1>1. HasOrder(level, id)
  BY DEF HasOrder
<1>2. /\ PositionOf(level, id) \in Positions(level)
      /\ level.queue[PositionOf(level, id)].id = id
  BY <1>1, PositionOfHeld
<1>3. PositionOf(level, id) = i
  BY <1>2 DEF NoTwins
<1> QED
  BY <1>1, <1>3 DEF FindInLevel

\* add_order appends: nothing else in the queue moves.
LEMMA LevelAddQueue ==
  ASSUME NEW level \in Level, NEW order \in Order
  PROVE  LET after == LevelAdd(level, order)
         IN /\ after \in Level
            /\ after.price = level.price
            /\ Len(after.queue) = Len(level.queue) + 1
            /\ after.queue # <<>>
            /\ after.queue[Len(level.queue) + 1] = order
            /\ \A i \in Positions(level) : after.queue[i] = level.queue[i]
<1> DEFINE after == LevelAdd(level, order)
<1>1. level.queue \in Seq(Order) /\ level.total_quantity \in Int /\ level.price \in Prices
  BY DEF Level
<1>2. order.quantity \in Int
  BY DEF Order
<1>3. after = [price |-> level.price,
               total_quantity |-> level.total_quantity + order.quantity,
               queue |-> Append(level.queue, order)]
  <2> DEFINE longer == Append(level.queue, order)
             size == order.quantity
  <2>1. after = [level EXCEPT !.total_quantity = @ + size, !.queue = longer]
    BY DEF LevelAdd
  <2> HIDE DEF after, longer, size
  <2>2. after = [price |-> level.price,
                 total_quantity |-> level.total_quantity + size, queue |-> longer]
    BY <2>1 DEF Level
  <2> QED
    BY <2>2 DEF longer, size
<1>4. /\ Append(level.queue, order) \in Seq(Order)
      /\ Len(Append(level.queue, order)) = Len(level.queue) + 1
      /\ Append(level.queue, order)[Len(level.queue) + 1] = order
      /\ \A i \in 1 .. Len(level.queue) : Append(level.queue, order)[i] = level.queue[i]
  BY <1>1, AppendProperties
<1>5. after \in Level
  BY <1>1, <1>2, <1>3, <1>4 DEF Level
<1>6. after.queue # <<>>
  BY <1>1, <1>3, <1>4, LenProperties, EmptySeq
<1> QED
  BY <1>3, <1>4, <1>5, <1>6 DEF Positions

\* Removing position n shifts the younger orders up by one.
LEMMA RemoveAtQueue ==
  ASSUME NEW S, NEW s \in Seq(S), NEW n \in 1 .. Len(s)
  PROVE  /\ RemoveAt(s, n) \in Seq(S)
         /\ Len(RemoveAt(s, n)) = Len(s) - 1
         /\ \A i \in 1 .. Len(s) - 1 :
              RemoveAt(s, n)[i] = s[IF i < n THEN i ELSE i + 1]
<1> DEFINE front == SubSeq(s, 1, n - 1)
           back == SubSeq(s, n + 1, Len(s))
<1>0. Len(s) \in Nat /\ \A i \in 1 .. Len(s) : s[i] \in S
  BY LenProperties, ElementOfSeq
<1>1. /\ front \in Seq(S) /\ Len(front) = n - 1
      /\ \A i \in 1 .. n - 1 : front[i] = s[i]
  <2>1. \A i \in 1 .. n - 1 : s[i] \in S
    BY <1>0
  <2>2. /\ front \in Seq(S)
        /\ Len(front) = IF 1 <= n - 1 THEN (n - 1) - 1 + 1 ELSE 0
        /\ \A i \in 1 .. (n - 1) - 1 + 1 : front[i] = s[1 + i - 1]
    BY <1>0, <2>1, SubSeqProperties
  <2> HIDE DEF front
  <2> QED
    BY <1>0, <2>2
<1>2. /\ back \in Seq(S) /\ Len(back) = Len(s) - n
      /\ \A i \in 1 .. Len(s) - n : back[i] = s[n + i]
  <2>1. \A i \in n + 1 .. Len(s) : s[i] \in S
    BY <1>0
  <2>2. /\ back \in Seq(S)
        /\ Len(back) = IF n + 1 <= Len(s) THEN Len(s) - (n + 1) + 1 ELSE 0
        /\ \A i \in 1 .. Len(s) - (n + 1) + 1 : back[i] = s[(n + 1) + i - 1]
    BY <1>0, <2>1, SubSeqProperties
  <2> HIDE DEF back
  <2> QED
    BY <1>0, <2>2
<1>3. RemoveAt(s, n) = front \o back
  BY DEF RemoveAt
<1> HIDE DEF front, back
<1>4. /\ front \o back \in Seq(S)
      /\ Len(front \o back) = Len(front) + Len(back)
      /\ \A i \in 1 .. Len(front) + Len(back) :
           (front \o back)[i] = IF i <= Len(front) THEN front[i]
                                ELSE back[i - Len(front)]
  BY <1>1, <1>2, ConcatProperties
<1>5. Len(front) + Len(back) = Len(s) - 1
  BY <1>0, <1>1, <1>2
<1>6. \A i \in 1 .. Len(s) - 1 : (front \o back)[i] = s[IF i < n THEN i ELSE i + 1]
  <2> SUFFICES ASSUME NEW i \in 1 .. Len(s) - 1
               PROVE  (front \o back)[i] = s[IF i < n THEN i ELSE i + 1]
    OBVIOUS
  <2>1. CASE i < n
    BY <1>0, <1>1, <1>4, <1>5, <2>1
  <2>2. CASE ~(i < n)
    <3>1. (front \o back)[i] = back[i - (n - 1)]
      BY <1>0, <1>1, <1>4, <1>5, <2>2
    <3>2. i - (n - 1) \in 1 .. Len(s) - n /\ n + (i - (n - 1)) = i + 1
      BY <1>0, <2>2
    <3> QED
      BY <1>2, <2>2, <3>1, <3>2
  <2> QED
    BY <2>1, <2>2
<1> QED
  BY <1>3, <1>4, <1>5, <1>6

\* Where position i of a queue stood before position n was removed.
Before(n, i) == IF i < n THEN i ELSE i + 1

\* cancel_order takes out the order and keeps the others in their order.
LEMMA LevelCancelQueue ==
  ASSUME NEW level \in Level, NEW id, HasOrder(level, id)
  PROVE  LET after == LevelCancel(level, id)
             n == PositionOf(level, id)
         IN /\ after \in Level
            /\ after.price = level.price
            /\ Len(after.queue) = Len(level.queue) - 1
            /\ \A i \in Positions(after) :
                 /\ Before(n, i) \in Positions(level)
                 /\ Before(n, i) # n
                 /\ after.queue[i] = level.queue[Before(n, i)]
<1> DEFINE after == LevelCancel(level, id)
           n == PositionOf(level, id)
<1>1. level.queue \in Seq(Order) /\ level.total_quantity \in Int /\ level.price \in Prices
  BY DEF Level
<1>2. n \in 1 .. Len(level.queue) /\ FindInLevel(level, id) \in Order
  BY PositionOfHeld DEF Positions
<1>3. after = [price |-> level.price,
               total_quantity |-> level.total_quantity - FindInLevel(level, id).quantity,
               queue |-> RemoveAt(level.queue, n)]
  BY DEF LevelCancel, Level
<1> HIDE DEF n, after
<1>4. /\ RemoveAt(level.queue, n) \in Seq(Order)
      /\ Len(RemoveAt(level.queue, n)) = Len(level.queue) - 1
      /\ \A i \in 1 .. Len(level.queue) - 1 :
           RemoveAt(level.queue, n)[i] = level.queue[IF i < n THEN i ELSE i + 1]
  BY <1>1, <1>2, RemoveAtQueue
<1>5. after \in Level
  <2>1. FindInLevel(level, id).quantity \in Int
    BY <1>2 DEF Order
  <2> QED
    BY <1>1, <1>3, <1>4, <2>1 DEF Level
<1>6. Len(level.queue) \in Nat
  BY <1>1, LenProperties
<1>7. ASSUME NEW i \in Positions(after)
      PROVE  /\ Before(n, i) \in Positions(level)
             /\ Before(n, i) # n
             /\ after.queue[i] = level.queue[Before(n, i)]
  BY <1>2, <1>3, <1>4, <1>6 DEF Positions, Before
<1> QED
  BY <1>3, <1>4, <1>5, <1>7 DEF n, after

\* reduce_order changes one size, to a positive one, and no position.
LEMMA LevelReduceQueue ==
  ASSUME NEW level \in Level, NEW id, NEW new_quantity \in Int
  PROVE  LET after == LevelReduce(level, id, new_quantity)
         IN /\ after \in Level
            /\ after.price = level.price
            /\ Len(after.queue) = Len(level.queue)
            /\ \A i \in Positions(level) :
                 /\ after.queue[i].id = level.queue[i].id
                 /\ after.queue[i].side = level.queue[i].side
                 /\ after.queue[i].price = level.queue[i].price
<1> DEFINE after == LevelReduce(level, id, new_quantity)
           n == PositionOf(level, id)
           shrunk == [level.queue[n] EXCEPT !.quantity = new_quantity]
<1>1. level.queue \in Seq(Order) /\ level.total_quantity \in Int /\ level.price \in Prices
  BY DEF Level
<1>2. CASE ~CanReduce(level, id, new_quantity)
  BY <1>2 DEF LevelReduce
<1>3. CASE CanReduce(level, id, new_quantity)
  <2>1. HasOrder(level, id) /\ new_quantity > 0
    BY <1>3 DEF CanReduce
  <2>2. n \in 1 .. Len(level.queue) /\ FindInLevel(level, id) \in Order
    BY <2>1, PositionOfHeld DEF Positions
  <2>3. level.queue[n] \in Order
    BY <1>1, <2>2, ElementOfSeq
  <2>4. after = [price |-> level.price,
                 total_quantity |-> level.total_quantity
                                      - (FindInLevel(level, id).quantity - new_quantity),
                 queue |-> [level.queue EXCEPT ![n] = shrunk]]
    BY <1>3 DEF LevelReduce, Level
  <2>5. shrunk \in Order /\ shrunk.id = level.queue[n].id
        /\ shrunk.side = level.queue[n].side /\ shrunk.price = level.queue[n].price
    BY <2>1, <2>3 DEF Order
  <2>6. FindInLevel(level, id).quantity \in Int
    BY <2>2 DEF Order
  <2> HIDE DEF n, after, shrunk
  <2>7. /\ [level.queue EXCEPT ![n] = shrunk] \in Seq(Order)
        /\ Len([level.queue EXCEPT ![n] = shrunk]) = Len(level.queue)
        /\ \A j \in 1 .. Len(level.queue) :
             [level.queue EXCEPT ![n] = shrunk][j] = IF j = n THEN shrunk ELSE level.queue[j]
    BY <1>1, <2>2, <2>5, ExceptSeq
  <2>8. after \in Level
    BY <1>1, <2>4, <2>6, <2>7 DEF Level
  <2> QED
    BY <2>4, <2>5, <2>7, <2>8 DEF Positions, after
<1> QED
  BY <1>2, <1>3

(***************************************************************************)
(* The shares of a level                                                   *)
(***************************************************************************)

\* A queued order has a positive size.
LEMMA QueuedSize ==
  ASSUME NEW level \in Level
  PROVE  /\ Len(level.queue) \in Nat
         /\ DOMAIN level.queue = 1 .. Len(level.queue)
         /\ \A i \in 1 .. Len(level.queue) :
              /\ level.queue[i] \in Order
              /\ level.queue[i].quantity \in Nat \ {0}
<1>1. level.queue \in Seq(Order)
  BY DEF Level
<1>2. \A i \in 1 .. Len(level.queue) : level.queue[i] \in Order
  BY <1>1, ElementOfSeq
<1> QED
  BY <1>1, <1>2, LenProperties DEF Order

\* Shares(queue) is a sum of positive sizes.
LEMMA SharesNat ==
  ASSUME NEW queue \in Seq(Order)
  PROVE  Shares(queue) \in Nat
<1> DEFINE size == [i \in 1 .. Len(queue) |-> queue[i].quantity]
<1>1. \A i \in 1 .. Len(queue) : size[i] \in Nat
  <2>1. \A i \in 1 .. Len(queue) : queue[i] \in Order
    BY ElementOfSeq
  <2> QED
    BY <2>1 DEF Order
<1>2. IsFiniteSet(1 .. Len(queue))
  BY LenProperties, FS_Interval
<1> HIDE DEF size
<1>3. SumFunctionOnSet(size, 1 .. Len(queue)) \in Nat
  BY <1>1, <1>2, SumNat
<1> QED
  BY <1>3 DEF Shares, SumFunction, size

\* The cached total is exact.
Exact(level) == Shares(level.queue) = level.total_quantity

LEMMA EmptyLevelExact ==
  ASSUME NEW price
  PROVE  Exact(EmptyLevel(price))
<1> DEFINE size == [i \in 1 .. Len(<<>>) |-> <<>>[i].quantity]
<1>1. DOMAIN size = {}
  BY EmptySeq
<1> HIDE DEF size
<1>2. SumFunctionOnSet(size, DOMAIN size) = 0
  BY <1>1, SumEmpty
<1>3. Shares(<<>>) = 0
  BY <1>2 DEF Shares, SumFunction, size
<1> QED
  BY <1>3 DEF Exact, EmptyLevel

LEMMA LevelAddExact ==
  ASSUME NEW level \in Level, NEW order \in Order, Exact(level)
  PROVE  Exact(LevelAdd(level, order))
<1> DEFINE after == LevelAdd(level, order)
           n == Len(level.queue)
           size == [i \in 1 .. n |-> level.queue[i].quantity]
           sizeAfter == [i \in 1 .. n + 1 |-> after.queue[i].quantity]
<1>1. n \in Nat /\ IsFiniteSet(1 .. n)
  BY LenProperties, FS_Interval DEF Level
<1>2. /\ Len(after.queue) = n + 1
      /\ after.queue[n + 1] = order
      /\ \A i \in 1 .. n : after.queue[i] = level.queue[i]
  BY LevelAddQueue DEF Positions
<1>3. /\ \A i \in 1 .. n : size[i] \in Int
      /\ order.quantity \in Int
  BY QueuedSize DEF Order
<1>4. after.total_quantity = level.total_quantity + order.quantity
  BY DEF LevelAdd, Level
<1>5. Shares(level.queue) = SumFunctionOnSet(size, 1 .. n)
  BY DEF Shares, SumFunction
<1>6. Shares(after.queue) = SumFunctionOnSet(sizeAfter, 1 .. n + 1)
  BY <1>2 DEF Shares, SumFunction
<1>7. /\ sizeAfter[n + 1] = order.quantity
      /\ \A i \in 1 .. n : sizeAfter[i] = size[i]
      /\ (1 .. n) \cup {n + 1} = 1 .. n + 1
      /\ n + 1 \notin 1 .. n
  BY <1>1, <1>2
<1> HIDE DEF n, size, sizeAfter, after
<1>8. SumFunctionOnSet(sizeAfter, 1 .. n + 1)
        = SumFunctionOnSet(size, 1 .. n) + order.quantity
  <2> DEFINE S == 1 .. n
             new == n + 1
  <2>1. /\ IsFiniteSet(S) /\ new \notin S
        /\ \A i \in S : size[i] \in Int
        /\ \A i \in S : size[i] = sizeAfter[i]
        /\ sizeAfter[new] \in Int
    BY <1>1, <1>3, <1>7
  <2> DEFINE T == S \cup {new}
  <2>2. T = S \cup {new}
    OBVIOUS
  <2>3. T = 1 .. n + 1
    BY <1>7
  <2> HIDE DEF S, T, new
  <2>4. SumFunctionOnSet(sizeAfter, T) = SumFunctionOnSet(size, S) + sizeAfter[new]
    BY <2>1, <2>2, SumAdded
  <2> QED
    BY <1>7, <2>3, <2>4 DEF S, new
<1>9. level.total_quantity \in Int
  BY DEF Level
<1> QED
  BY <1>3, <1>4, <1>5, <1>6, <1>8, <1>9 DEF Exact, after

LEMMA LevelCancelExact ==
  ASSUME NEW level \in Level, NEW id, HasOrder(level, id), Exact(level)
  PROVE  Exact(LevelCancel(level, id))
<1> DEFINE after == LevelCancel(level, id)
           n == Len(level.queue)
           k == PositionOf(level, id)
           size == [i \in 1 .. n |-> level.queue[i].quantity]
           from == [i \in 1 .. n - 1 |-> Before(k, i)]
           sizeAfter == [i \in 1 .. n - 1 |-> size[from[i]]]
<1>1. n \in Nat /\ IsFiniteSet(1 .. n) /\ IsFiniteSet(1 .. n - 1)
  BY LenProperties, FS_Interval DEF Level
<1>2. k \in 1 .. n
  BY PositionOfHeld DEF Positions
<1>3. \A i \in 1 .. n : size[i] \in Int
  BY QueuedSize
<1>4. after.total_quantity = level.total_quantity - size[k]
  BY <1>2 DEF LevelCancel, Level, FindInLevel
<1>5. Len(after.queue) = n - 1
      /\ \A i \in 1 .. n - 1 : after.queue[i] = level.queue[Before(k, i)]
  BY LevelCancelQueue DEF Positions
<1> HIDE DEF k, n, after
<1>6. \A i \in 1 .. n - 1 : Before(k, i) \in (1 .. n) \ {k}
  BY <1>1, <1>2 DEF Before
<1>7. Shares(level.queue) = SumFunctionOnSet(size, 1 .. n)
  BY DEF Shares, SumFunction, n
<1>8. Shares(after.queue) = SumFunctionOnSet(sizeAfter, 1 .. n - 1)
  <2>1. \A i \in 1 .. n - 1 : after.queue[i].quantity = sizeAfter[i]
    BY <1>5, <1>6
  <2>2. [i \in 1 .. Len(after.queue) |-> after.queue[i].quantity] = sizeAfter
    BY <1>5, <2>1
  <2>3. DOMAIN sizeAfter = 1 .. n - 1
    OBVIOUS
  <2> HIDE DEF sizeAfter
  <2> QED
    BY <2>2, <2>3 DEF Shares, SumFunction
<1>9. /\ \A i \in 1 .. n - 1 : from[i] \in (1 .. n) \ {k}
      /\ \A i, j \in 1 .. n - 1 : from[i] = from[j] => i = j
      /\ \A j \in (1 .. n) \ {k} : \E i \in 1 .. n - 1 : from[i] = j
  <2>1. \A i, j \in 1 .. n - 1 : from[i] = from[j] => i = j
    BY <1>1, <1>2 DEF Before
  <2>2. ASSUME NEW j \in (1 .. n) \ {k} PROVE \E i \in 1 .. n - 1 : from[i] = j
    <3>1. CASE j < k
      <4>1. j \in 1 .. n - 1 /\ from[j] = j
        BY <1>1, <1>2, <3>1 DEF Before
      <4> QED
        BY <4>1
    <3>2. CASE ~(j < k)
      <4>1. j - 1 \in 1 .. n - 1 /\ from[j - 1] = j
        BY <1>1, <1>2, <3>2 DEF Before
      <4> QED
        BY <4>1
    <3> QED
      BY <3>1, <3>2
  <2> QED
    BY <1>6, <2>1, <2>2
<1>10. \A i \in (1 .. n) \ {k} : size[i] \in Int
  BY <1>3
<1>11. \A i \in 1 .. n - 1 : sizeAfter[i] = size[from[i]]
  OBVIOUS
<1> HIDE DEF size, from, sizeAfter
<1>12. SumFunctionOnSet(sizeAfter, 1 .. n - 1) = SumFunctionOnSet(size, (1 .. n) \ {k})
  <2> DEFINE S == 1 .. n - 1
             T == (1 .. n) \ {k}
  <2>1. /\ IsFiniteSet(S)
        /\ \A j \in T : size[j] \in Int
        /\ \A i \in S : from[i] \in T /\ sizeAfter[i] = size[from[i]]
        /\ \A i, j \in S : from[i] = from[j] => i = j
        /\ \A j \in T : \E i \in S : from[i] = j
    BY <1>1, <1>9, <1>10, <1>11
  <2> HIDE DEF S, T
  <2>2. SumFunctionOnSet(sizeAfter, S) = SumFunctionOnSet(size, T)
    BY <2>1, SumRenamed
  <2> QED
    BY <2>2 DEF S, T
<1>13. SumFunctionOnSet(size, 1 .. n) = size[k] + SumFunctionOnSet(size, (1 .. n) \ {k})
  BY <1>1, <1>2, <1>3, SumTakes
<1>14. SumFunctionOnSet(size, (1 .. n) \ {k}) \in Int
  BY <1>1, <1>10, FS_RemoveElement, SumInt
<1>15. level.total_quantity \in Int /\ size[k] \in Int
  BY <1>2, <1>3 DEF Level
<1> QED
  BY <1>4, <1>7, <1>8, <1>12, <1>13, <1>14, <1>15 DEF Exact, after

LEMMA LevelReduceExact ==
  ASSUME NEW level \in Level, NEW id, NEW new_quantity \in Int, Exact(level)
  PROVE  Exact(LevelReduce(level, id, new_quantity))
<1> DEFINE after == LevelReduce(level, id, new_quantity)
           n == Len(level.queue)
           k == PositionOf(level, id)
           size == [i \in 1 .. n |-> level.queue[i].quantity]
           sizeAfter == [i \in 1 .. n |-> IF i = k THEN new_quantity ELSE size[i]]
<1>1. CASE ~CanReduce(level, id, new_quantity)
  BY <1>1 DEF LevelReduce
<1>2. CASE CanReduce(level, id, new_quantity)
  <2>1. n \in Nat /\ IsFiniteSet(1 .. n)
    BY LenProperties, FS_Interval DEF Level
  <2>2. k \in 1 .. n
    BY <1>2, PositionOfHeld DEF Positions, CanReduce
  <2>3. \A i \in 1 .. n : size[i] \in Int
    BY QueuedSize
  <2>4. after.total_quantity = level.total_quantity - (size[k] - new_quantity)
    BY <1>2, <2>2 DEF LevelReduce, Level, FindInLevel
  <2>5. Len(after.queue) = n
    BY LevelReduceQueue
  <2>6. after.queue = [level.queue EXCEPT ![k].quantity = new_quantity]
    BY <1>2 DEF LevelReduce, Level
  <2>7. \A i \in 1 .. n : after.queue[i].quantity = sizeAfter[i]
    <3>1. \A i \in 1 .. n : level.queue[i] \in Order
      BY ElementOfSeq DEF Level
    <3>2. DOMAIN level.queue = 1 .. n
      BY LenProperties DEF Level
    <3> QED
      BY <2>6, <3>1, <3>2 DEF Order
  <2>8. Shares(after.queue) = SumFunctionOnSet(sizeAfter, 1 .. n)
    <3>1. [i \in 1 .. Len(after.queue) |-> after.queue[i].quantity] = sizeAfter
      BY <2>5, <2>7
    <3>2. DOMAIN sizeAfter = 1 .. n
      OBVIOUS
    <3> HIDE DEF sizeAfter
    <3> QED
      BY <3>1, <3>2 DEF Shares, SumFunction
  <2>9. Shares(level.queue) = SumFunctionOnSet(size, 1 .. n)
    BY DEF Shares, SumFunction
  <2>10. /\ sizeAfter[k] = new_quantity
         /\ \A i \in (1 .. n) \ {k} : size[i] = sizeAfter[i]
    BY <2>2
  <2> HIDE DEF n, k, size, sizeAfter, after
  <2>11. SumFunctionOnSet(sizeAfter, 1 .. n)
           = (SumFunctionOnSet(size, 1 .. n) - size[k]) + new_quantity
    <3> DEFINE S == 1 .. n
    <3>1. /\ IsFiniteSet(S) /\ k \in S
          /\ \A i \in S : size[i] \in Int
          /\ \A i \in S \ {k} : size[i] = sizeAfter[i]
          /\ sizeAfter[k] \in Int
      BY <2>1, <2>2, <2>3, <2>10
    <3> HIDE DEF S
    <3>2. SumFunctionOnSet(sizeAfter, S) = (SumFunctionOnSet(size, S) - size[k]) + sizeAfter[k]
      BY <3>1, SumChanged
    <3> QED
      BY <2>10, <3>2 DEF S
  <2>12. level.total_quantity \in Int /\ size[k] \in Int
    BY <2>2, <2>3 DEF Level
  <2> QED
    BY <2>4, <2>8, <2>9, <2>11, <2>12 DEF Exact, after
<1> QED
  BY <1>1, <1>2

(***************************************************************************)
(* A consistent book                                                       *)
(***************************************************************************)

Consistent(b) == WellTyped(b) /\ Agrees(b)

\* The empty book is consistent.
LEMMA EmptyConsistent == Consistent(EmptyBook)
<1>1. /\ DOMAIN EmptyBook = {"levels", "locations"}
      /\ EmptyBook.levels = [side \in Sides |-> NoLevels]
      /\ DOMAIN EmptyBook.locations = {}
  BY DEF EmptyBook
<1>2. DOMAIN NoLevels = {}
  BY DEF NoLevels
<1>3. \A side \in Sides : DOMAIN EmptyBook.levels[side] = {}
  BY <1>1, <1>2
<1>4. WellTyped(EmptyBook)
  BY <1>1, <1>3 DEF WellTyped
<1>5. Agrees(EmptyBook)
  BY <1>1, <1>3 DEF Agrees, IndexedAreQueued
<1> QED
  BY <1>4, <1>5 DEF Consistent

\* find(id) returns the order itself, on the side and at the price the index
\* has for it.
LEMMA FindResting ==
  ASSUME NEW b, Consistent(b), NEW id \in DOMAIN b.locations
  PROVE  LET loc == b.locations[id]
             level == b.levels[loc.side][loc.price]
         IN /\ loc \in Location
            /\ loc.price \in DOMAIN b.levels[loc.side]
            /\ level \in Level
            /\ HasOrder(level, id)
            /\ LevelIndexed(b, loc.side, loc.price)
            /\ find(b, id) \in Order
            /\ find(b, id).id = id
            /\ find(b, id).side = loc.side
            /\ find(b, id).price = loc.price
<1> DEFINE loc == b.locations[id]
           level == b.levels[loc.side][loc.price]
<1>1. loc \in Location /\ loc.side \in Sides
  BY DEF Consistent, WellTyped, Location
<1>2. loc.price \in DOMAIN b.levels[loc.side] /\ HasOrder(level, id)
  BY DEF Consistent, Agrees, IndexedAreQueued
<1>3. level \in Level /\ LevelIndexed(b, loc.side, loc.price)
  BY <1>1, <1>2 DEF Consistent, WellTyped, Agrees
<1>4. /\ PositionOf(level, id) \in Positions(level)
      /\ FindInLevel(level, id) \in Order
      /\ FindInLevel(level, id).id = id
  BY <1>2, <1>3, PositionOfHeld
<1>5. find(b, id) = level.queue[PositionOf(level, id)]
  BY DEF find, FindInLevel
<1>6. find(b, id) = FindInLevel(level, id)
  BY DEF find
<1>7. find(b, id).side = loc.side /\ find(b, id).price = loc.price
  BY <1>3, <1>4, <1>5 DEF LevelIndexed, OrderIndexed
<1> QED
  BY <1>1, <1>2, <1>3, <1>4, <1>6, <1>7

(***************************************************************************)
(* insert_order                                                            *)
(***************************************************************************)

\* The level an order joins: the book's own, or a new one with no orders.
LEMMA LevelAtTyped ==
  ASSUME NEW b, Consistent(b), NEW side \in Sides, NEW price \in Prices
  PROVE  /\ LevelAt(b, side, price) \in Level
         /\ LevelAt(b, side, price).price = price
         /\ price \notin DOMAIN b.levels[side] =>
              Positions(LevelAt(b, side, price)) = {}
<1>1. CASE price \in DOMAIN b.levels[side]
  <2>1. LevelAt(b, side, price) = b.levels[side][price]
    BY <1>1 DEF LevelAt
  <2>2. b.levels[side][price] \in Level
    BY <1>1 DEF Consistent, WellTyped
  <2>3. LevelIndexed(b, side, price)
    BY <1>1 DEF Consistent, Agrees
  <2> QED
    BY <1>1, <2>1, <2>2, <2>3 DEF LevelIndexed
<1>2. CASE price \notin DOMAIN b.levels[side]
  <2>1. LevelAt(b, side, price) = [price |-> price, total_quantity |-> 0, queue |-> <<>>]
    BY <1>2 DEF LevelAt, EmptyLevel
  <2>2. <<>> \in Seq(Order) /\ Len(<<>>) = 0
    BY EmptySeq
  <2>3. LevelAt(b, side, price) \in Level
    BY <2>1, <2>2 DEF Level
  <2> QED
    BY <2>1, <2>2, <2>3 DEF Positions
<1> QED
  BY <1>1, <1>2

\* Inserting an order with a fresh id keeps the book consistent, and adds
\* that id and at most that price.
LEMMA InsertConsistent ==
  ASSUME NEW b, Consistent(b), NEW order \in Order, ~contains(b, order.id)
  PROVE  LET after == insert_order(b, order)
         IN /\ Consistent(after)
            /\ DOMAIN after.locations = DOMAIN b.locations \cup {order.id}
            /\ \A side \in Sides :
                 DOMAIN after.levels[side] =
                   IF side = order.side THEN DOMAIN b.levels[side] \cup {order.price}
                   ELSE DOMAIN b.levels[side]
<1> DEFINE after == insert_order(b, order)
           s == order.side
           p == order.price
           old == LevelAt(b, s, p)
           new == LevelAdd(old, order)
<1>1. s \in Sides /\ p \in Prices /\ order.id \in OrderIds
  BY DEF Order
<1>2. /\ old \in Level
      /\ old.price = p
      /\ p \notin DOMAIN b.levels[s] => Positions(old) = {}
  BY <1>1, LevelAtTyped
<1>3. p \in DOMAIN b.levels[s] => old = b.levels[s][p]
  BY DEF LevelAt
<1>4. /\ new \in Level
      /\ new.price = p
      /\ Len(new.queue) = Len(old.queue) + 1
      /\ new.queue # <<>>
      /\ new.queue[Len(old.queue) + 1] = order
      /\ \A i \in Positions(old) : new.queue[i] = old.queue[i]
  BY <1>2, LevelAddQueue
<1>5. Len(old.queue) \in Nat
  BY <1>2, LenProperties DEF Level
<1>6. /\ DOMAIN after = {"levels", "locations"}
      /\ after.levels = [b.levels EXCEPT ![s] = Put(@, p, new)]
      /\ after.locations = Put(b.locations, order.id, [side |-> s, price |-> p])
  BY DEF insert_order, WithLevel, Emplace, contains
<1> HIDE DEF after, new, old
<1>7. DOMAIN b.levels = Sides
  BY DEF Consistent, WellTyped
<1>8. /\ DOMAIN after.levels = Sides
      /\ DOMAIN after.levels[s] = DOMAIN b.levels[s] \cup {p}
      /\ after.levels[s][p] = new
      /\ \A price \in DOMAIN b.levels[s] :
           price # p => after.levels[s][price] = b.levels[s][price]
      /\ \A side \in Sides : side # s => after.levels[side] = b.levels[side]
  BY <1>1, <1>6, <1>7 DEF Put
<1>9. /\ DOMAIN after.locations = DOMAIN b.locations \cup {order.id}
      /\ after.locations[order.id] = [side |-> s, price |-> p]
      /\ \A id \in DOMAIN b.locations : after.locations[id] = b.locations[id]
  BY <1>6 DEF Put, contains
<1>10. WellTyped(after)
  <2>1. \A side \in Sides :
          /\ DOMAIN after.levels[side] \subseteq Prices
          /\ \A price \in DOMAIN after.levels[side] : after.levels[side][price] \in Level
    BY <1>1, <1>4, <1>8 DEF Consistent, WellTyped
  <2>2. \A id \in DOMAIN after.locations : id \in OrderIds /\ after.locations[id] \in Location
    BY <1>1, <1>9 DEF Consistent, WellTyped, Location
  <2> QED
    BY <1>6, <1>8, <2>1, <2>2 DEF WellTyped
<1>11. \A i \in Positions(new) :
         \/ i = Len(old.queue) + 1
         \/ /\ i \in Positions(old) /\ p \in DOMAIN b.levels[s]
            /\ new.queue[i] = b.levels[s][p].queue[i]
            /\ i \in Positions(b.levels[s][p])
  <2> SUFFICES ASSUME NEW i \in Positions(new), i # Len(old.queue) + 1
               PROVE  /\ i \in Positions(old) /\ p \in DOMAIN b.levels[s]
                      /\ new.queue[i] = b.levels[s][p].queue[i]
                      /\ i \in Positions(b.levels[s][p])
    OBVIOUS
  <2>1. i \in Positions(old)
    BY <1>4, <1>5 DEF Positions
  <2>2. p \in DOMAIN b.levels[s] /\ old = b.levels[s][p]
    BY <1>2, <1>3, <2>1
  <2> QED
    BY <1>4, <2>1, <2>2
<1>12. ASSUME NEW side \in Sides, NEW price \in DOMAIN after.levels[side]
       PROVE  LevelIndexed(after, side, price)
  <2>1. CASE side = s /\ price = p
    <3>1. ASSUME NEW i \in Positions(new)
          PROVE  /\ OrderIndexed(after, new.queue[i], s, p)
                 /\ i # Len(old.queue) + 1 => new.queue[i].id \in DOMAIN b.locations
      <4>1. CASE i = Len(old.queue) + 1
        BY <1>4, <1>9, <4>1 DEF OrderIndexed, contains
      <4>2. CASE i # Len(old.queue) + 1
        <5>1. /\ p \in DOMAIN b.levels[s]
              /\ new.queue[i] = b.levels[s][p].queue[i]
              /\ i \in Positions(b.levels[s][p])
          BY <1>11, <4>2
        <5>2. LevelIndexed(b, s, p)
          BY <1>1, <5>1 DEF Consistent, Agrees
        <5>3. OrderIndexed(b, new.queue[i], s, p)
          BY <5>1, <5>2 DEF LevelIndexed
        <5> QED
          BY <1>9, <5>3 DEF OrderIndexed, contains
      <4> QED
        BY <4>1, <4>2
    <3>2. NoTwins(new)
      <4> SUFFICES ASSUME NEW i \in Positions(new), NEW j \in Positions(new),
                          new.queue[i].id = new.queue[j].id
                   PROVE  i = j
        BY DEF NoTwins
      <4>1. CASE i = Len(old.queue) + 1 \/ j = Len(old.queue) + 1
        BY <1>4, <3>1, <4>1 DEF contains
      <4>2. CASE i # Len(old.queue) + 1 /\ j # Len(old.queue) + 1
        <5>1. /\ p \in DOMAIN b.levels[s]
              /\ new.queue[i] = b.levels[s][p].queue[i]
              /\ new.queue[j] = b.levels[s][p].queue[j]
              /\ i \in Positions(b.levels[s][p])
              /\ j \in Positions(b.levels[s][p])
          BY <1>11, <4>2
        <5>2. NoTwins(b.levels[s][p])
          BY <1>1, <5>1 DEF Consistent, Agrees, LevelIndexed
        <5> QED
          BY <5>1, <5>2 DEF NoTwins
      <4> QED
        BY <4>1, <4>2
    <3> QED
      BY <1>4, <1>8, <2>1, <3>1, <3>2 DEF LevelIndexed
  <2>2. CASE ~(side = s /\ price = p)
    <3>1. price \in DOMAIN b.levels[side] /\ after.levels[side][price] = b.levels[side][price]
      BY <1>8, <2>2
    <3>2. LevelIndexed(b, side, price)
      BY <3>1 DEF Consistent, Agrees
    <3>3. \A o : OrderIndexed(b, o, side, price) =>
                         OrderIndexed(after, o, side, price)
      BY <1>9 DEF OrderIndexed, contains
    <3> QED
      BY <3>1, <3>2, <3>3 DEF LevelIndexed
  <2> QED
    BY <2>1, <2>2
<1>13. IndexedAreQueued(after)
  <2> SUFFICES ASSUME NEW id \in DOMAIN after.locations
               PROVE  LET loc == after.locations[id]
                      IN /\ loc.price \in DOMAIN after.levels[loc.side]
                         /\ HasOrder(after.levels[loc.side][loc.price], id)
    BY DEF IndexedAreQueued
  <2>1. CASE id = order.id
    <3>1. HasOrder(new, id)
      BY <1>4, <1>5, <2>1 DEF HasOrder, Positions
    <3> QED
      BY <1>8, <1>9, <2>1, <3>1
  <2>2. CASE id # order.id
    <3> DEFINE loc == b.locations[id]
    <3>1. id \in DOMAIN b.locations /\ after.locations[id] = loc
      BY <1>9, <2>2
    <3>2. /\ loc.side \in Sides
          /\ loc.price \in DOMAIN b.levels[loc.side]
          /\ HasOrder(b.levels[loc.side][loc.price], id)
      BY <3>1, FindResting DEF Location
    <3>3. CASE loc.side = s /\ loc.price = p
      <4>1. PICK i \in Positions(old) : old.queue[i].id = id
        BY <1>3, <3>2, <3>3 DEF HasOrder
      <4>2. i \in Positions(new) /\ new.queue[i].id = id
        BY <1>4, <1>5, <4>1 DEF Positions
      <4> QED
        BY <1>8, <3>1, <3>3, <4>2 DEF HasOrder
    <3>4. CASE ~(loc.side = s /\ loc.price = p)
      BY <1>8, <3>1, <3>2, <3>4
    <3> QED
      BY <3>3, <3>4
  <2> QED
    BY <2>1, <2>2
<1>14. Consistent(after)
  BY <1>10, <1>12, <1>13 DEF Consistent, Agrees
<1> QED
  BY <1>8, <1>9, <1>14 DEF after

(***************************************************************************)
(* cancel_order                                                            *)
(***************************************************************************)

\* Cancelling keeps the book consistent, forgets exactly that id and adds no
\* price: the level is kept with the other orders, or dropped if it has none.
LEMMA CancelConsistent ==
  ASSUME NEW b, Consistent(b), NEW id \in DOMAIN b.locations
  PROVE  LET after == cancel_order(b, id)
         IN /\ Consistent(after)
            /\ DOMAIN after.locations = DOMAIN b.locations \ {id}
            /\ \A side \in Sides :
                 DOMAIN after.levels[side] \subseteq DOMAIN b.levels[side]
<1> DEFINE after == cancel_order(b, id)
           s == b.locations[id].side
           p == b.locations[id].price
           old == b.levels[s][p]
           new == LeftLevel(b, id)
           n == PositionOf(old, id)
<1>1. /\ s \in Sides /\ p \in DOMAIN b.levels[s]
      /\ old \in Level /\ HasOrder(old, id) /\ LevelIndexed(b, s, p)
  BY FindResting DEF Location
<1>2. n \in Positions(old) /\ old.queue[n].id = id
  BY <1>1, PositionOfHeld
<1>3. new = LevelCancel(old, id)
  BY DEF LeftLevel
<1> HIDE DEF old, s, p
<1>4. /\ new \in Level
      /\ new.price = old.price
      /\ Len(new.queue) = Len(old.queue) - 1
      /\ \A i \in Positions(new) :
           /\ Before(n, i) \in Positions(old)
           /\ Before(n, i) # n
           /\ new.queue[i] = old.queue[Before(n, i)]
  BY <1>1, <1>3, LevelCancelQueue
<1> USE DEF old, s, p
<1>5. /\ old.price = p /\ NoTwins(old)
      /\ \A i \in Positions(old) : OrderIndexed(b, old.queue[i], s, p)
  BY <1>1 DEF LevelIndexed
<1>6. /\ DOMAIN after = {"levels", "locations"}
      /\ after.levels = IF new.queue = <<>>
                        THEN [b.levels EXCEPT ![s] = Without(@, p)]
                        ELSE [b.levels EXCEPT ![s] = Put(@, p, new)]
      /\ after.locations = Without(b.locations, id)
  BY DEF cancel_order, WithLevel, contains
<1>7. Len(old.queue) \in Nat /\ Len(new.queue) \in Nat
  BY <1>1, <1>4, LenProperties DEF Level
<1>8. DOMAIN b.levels = Sides
  BY DEF Consistent, WellTyped
<1> HIDE DEF after, new, old, n, s, p
<1>9. /\ DOMAIN after.levels = Sides
      /\ \A side \in Sides : side # s => after.levels[side] = b.levels[side]
      /\ \A price \in DOMAIN after.levels[s] :
           /\ price \in DOMAIN b.levels[s]
           /\ price # p => after.levels[s][price] = b.levels[s][price]
           /\ price = p => after.levels[s][p] = new /\ new.queue # <<>>
      /\ \A price \in DOMAIN b.levels[s] :
           price # p \/ new.queue # <<>> => price \in DOMAIN after.levels[s]
  <2>1. CASE new.queue = <<>>
    BY <1>1, <1>6, <1>8, <2>1 DEF Without
  <2>2. CASE new.queue # <<>>
    BY <1>1, <1>6, <1>8, <2>2 DEF Put
  <2> QED
    BY <2>1, <2>2
<1>10. /\ DOMAIN after.locations = DOMAIN b.locations \ {id}
       /\ \A o \in DOMAIN b.locations : o # id => after.locations[o] = b.locations[o]
  BY <1>6 DEF Without
<1>11. \A side \in Sides : DOMAIN after.levels[side] \subseteq DOMAIN b.levels[side]
  BY <1>9
<1>12. WellTyped(after)
  <2>1. ASSUME NEW side \in Sides
        PROVE  /\ DOMAIN after.levels[side] \subseteq Prices
               /\ \A price \in DOMAIN after.levels[side] : after.levels[side][price] \in Level
    BY <1>1, <1>4, <1>9 DEF Consistent, WellTyped
  <2>2. \A o \in DOMAIN after.locations : o \in OrderIds /\ after.locations[o] \in Location
    BY <1>10 DEF Consistent, WellTyped
  <2> QED
    BY <1>6, <1>9, <2>1, <2>2 DEF WellTyped
<1>13. \A side, price, o : OrderIndexed(b, o, side, price) /\ o.id # id
                              => OrderIndexed(after, o, side, price)
  BY <1>10 DEF OrderIndexed, contains
<1>14. ASSUME NEW side \in Sides, NEW price \in DOMAIN after.levels[side]
       PROVE  LevelIndexed(after, side, price)
  <2>1. CASE side = s /\ price = p
    <3>1. ASSUME NEW i \in Positions(new)
          PROVE  OrderIndexed(after, new.queue[i], s, p)
      <4>1. /\ Before(n, i) \in Positions(old) /\ Before(n, i) # n
            /\ new.queue[i] = old.queue[Before(n, i)]
        BY <1>4
      <4>2. new.queue[i].id # id
        BY <1>2, <1>5, <4>1 DEF NoTwins
      <4> QED
        BY <1>5, <1>13, <4>1, <4>2
    <3>2. NoTwins(new)
      <4> SUFFICES ASSUME NEW i \in Positions(new), NEW j \in Positions(new),
                          new.queue[i].id = new.queue[j].id
                   PROVE  i = j
        BY DEF NoTwins
      <4>1. Before(n, i) = Before(n, j)
        BY <1>4, <1>5 DEF NoTwins
      <4>2. i \in Int /\ j \in Int /\ n \in Int
        BY <1>2, <1>7 DEF Positions
      <4> QED
        BY <4>1, <4>2 DEF Before
    <3> QED
      BY <1>4, <1>5, <1>9, <2>1, <3>1, <3>2 DEF LevelIndexed
  <2>2. CASE ~(side = s /\ price = p)
    <3>1. price \in DOMAIN b.levels[side] /\ after.levels[side][price] = b.levels[side][price]
      BY <1>9, <2>2
    <3>2. LevelIndexed(b, side, price)
      BY <3>1 DEF Consistent, Agrees
    <3>3. \A o : OrderIndexed(b, o, side, price) => o.id # id
      BY <2>2 DEF OrderIndexed, s, p
    <3> QED
      BY <1>13, <3>1, <3>2, <3>3 DEF LevelIndexed
  <2> QED
    BY <2>1, <2>2
<1>15. IndexedAreQueued(after)
  <2> SUFFICES ASSUME NEW o \in DOMAIN after.locations
               PROVE  LET loc == after.locations[o]
                      IN /\ loc.price \in DOMAIN after.levels[loc.side]
                         /\ HasOrder(after.levels[loc.side][loc.price], o)
    BY DEF IndexedAreQueued
  <2> DEFINE loc == b.locations[o]
  <2>1. o \in DOMAIN b.locations /\ o # id /\ after.locations[o] = loc
    BY <1>10
  <2>2. /\ loc.side \in Sides
        /\ loc.price \in DOMAIN b.levels[loc.side]
        /\ HasOrder(b.levels[loc.side][loc.price], o)
    BY <2>1, FindResting DEF Location
  <2>3. CASE loc.side = s /\ loc.price = p
    <3>1. PICK i \in Positions(old) : old.queue[i].id = o
      BY <2>2, <2>3 DEF HasOrder, old
    <3>2. i # n
      BY <1>2, <2>1, <3>1
    <3>3. PICK k \in Positions(new) : Before(n, k) = i
      <4>1. CASE i < n
        <5>1. i \in Positions(new) /\ Before(n, i) = i
          BY <1>2, <1>4, <1>7, <3>1, <4>1 DEF Positions, Before
        <5> QED
          BY <5>1
      <4>2. CASE ~(i < n)
        <5>1. i - 1 \in Positions(new) /\ Before(n, i - 1) = i
          BY <1>2, <1>4, <1>7, <3>1, <3>2, <4>2 DEF Positions, Before
        <5> QED
          BY <5>1
      <4> QED
        BY <4>1, <4>2
    <3>4. HasOrder(new, o)
      BY <1>4, <3>1, <3>3 DEF HasOrder
    <3>5. new.queue # <<>>
      BY <1>7, <3>3, EmptySeq DEF Positions
    <3>6. p \in DOMAIN after.levels[s] /\ after.levels[s][p] = new
      BY <1>1, <1>9, <3>5 DEF old
    <3> QED
      BY <2>1, <2>3, <3>4, <3>6
  <2>4. CASE ~(loc.side = s /\ loc.price = p)
    BY <1>9, <2>1, <2>2, <2>4
  <2> QED
    BY <2>3, <2>4
<1>16. Consistent(after)
  BY <1>12, <1>14, <1>15 DEF Consistent, Agrees
<1> QED
  BY <1>10, <1>11, <1>16 DEF after

(***************************************************************************)
(* modify_order                                                            *)
(***************************************************************************)

\* The in-place branch: the level's own reduce_order, whether it applies or
\* refuses, changes no id, no side, no price and no position.
LEMMA ReducedConsistent ==
  ASSUME NEW b, Consistent(b), NEW id \in DOMAIN b.locations, NEW new_quantity \in Int
  PROVE  LET after == Reduced(b, id, new_quantity)
         IN /\ Consistent(after)
            /\ DOMAIN after.locations = DOMAIN b.locations
            /\ \A side \in Sides : DOMAIN after.levels[side] = DOMAIN b.levels[side]
<1> DEFINE after == Reduced(b, id, new_quantity)
           s == b.locations[id].side
           p == b.locations[id].price
           old == b.levels[s][p]
           new == LevelReduce(old, id, new_quantity)
<1>1. /\ s \in Sides /\ p \in DOMAIN b.levels[s]
      /\ old \in Level /\ LevelIndexed(b, s, p)
  BY FindResting DEF Location
<1> HIDE DEF old, s, p
<1>2. /\ new \in Level
      /\ new.price = old.price
      /\ Len(new.queue) = Len(old.queue)
      /\ \A i \in Positions(old) :
           /\ new.queue[i].id = old.queue[i].id
           /\ new.queue[i].side = old.queue[i].side
           /\ new.queue[i].price = old.queue[i].price
  BY <1>1, LevelReduceQueue
<1> USE DEF old, s, p
<1>3. /\ old.queue # <<>> /\ old.price = p /\ NoTwins(old)
      /\ \A i \in Positions(old) : OrderIndexed(b, old.queue[i], s, p)
  BY <1>1 DEF LevelIndexed
<1>4. /\ DOMAIN after = {"levels", "locations"}
      /\ after.levels = [b.levels EXCEPT ![s] = Put(@, p, new)]
      /\ after.locations = b.locations
  BY DEF Reduced, WithLevel
<1>5. DOMAIN b.levels = Sides
  BY DEF Consistent, WellTyped
<1>6. Positions(new) = Positions(old) /\ new.queue # <<>>
  BY <1>1, <1>2, <1>3, LenProperties, EmptySeq DEF Positions, Level
<1> HIDE DEF after, new, old, s, p
<1>7. /\ DOMAIN after.levels = Sides
      /\ \A side \in Sides : DOMAIN after.levels[side] = DOMAIN b.levels[side]
      /\ after.levels[s][p] = new
      /\ \A side \in Sides : \A price \in DOMAIN b.levels[side] :
           ~(side = s /\ price = p) => after.levels[side][price] = b.levels[side][price]
  BY <1>1, <1>4, <1>5 DEF Put
<1>8. WellTyped(after)
  <2>1. ASSUME NEW side \in Sides
        PROVE  /\ DOMAIN after.levels[side] \subseteq Prices
               /\ \A price \in DOMAIN after.levels[side] : after.levels[side][price] \in Level
    BY <1>1, <1>2, <1>7 DEF Consistent, WellTyped
  <2> QED
    BY <1>4, <1>7, <2>1 DEF Consistent, WellTyped
<1>9. \A side, price, o : OrderIndexed(b, o, side, price) <=> OrderIndexed(after, o, side, price)
  BY <1>4 DEF OrderIndexed, contains
<1>10. ASSUME NEW side \in Sides, NEW price \in DOMAIN after.levels[side]
       PROVE  LevelIndexed(after, side, price)
  <2>1. CASE side = s /\ price = p
    <3>1. ASSUME NEW i \in Positions(new)
          PROVE  OrderIndexed(after, new.queue[i], s, p)
      <4>1. OrderIndexed(after, old.queue[i], s, p)
        BY <1>3, <1>6, <1>9
      <4> QED
        BY <1>2, <1>6, <4>1 DEF OrderIndexed
    <3>2. NoTwins(new)
      BY <1>2, <1>3, <1>6 DEF NoTwins
    <3> QED
      BY <1>2, <1>3, <1>6, <1>7, <2>1, <3>1, <3>2 DEF LevelIndexed
  <2>2. CASE ~(side = s /\ price = p)
    <3>1. price \in DOMAIN b.levels[side] /\ after.levels[side][price] = b.levels[side][price]
      BY <1>7, <2>2
    <3>2. LevelIndexed(b, side, price)
      BY <3>1 DEF Consistent, Agrees
    <3> QED
      BY <1>9, <3>1, <3>2 DEF LevelIndexed
  <2> QED
    BY <2>1, <2>2
<1>11. IndexedAreQueued(after)
  <2> SUFFICES ASSUME NEW o \in DOMAIN b.locations
               PROVE  LET loc == b.locations[o]
                      IN /\ loc.price \in DOMAIN after.levels[loc.side]
                         /\ HasOrder(after.levels[loc.side][loc.price], o)
    BY <1>4 DEF IndexedAreQueued
  <2> DEFINE loc == b.locations[o]
  <2>1. /\ loc.side \in Sides
        /\ loc.price \in DOMAIN b.levels[loc.side]
        /\ HasOrder(b.levels[loc.side][loc.price], o)
    BY FindResting DEF Location
  <2>2. CASE loc.side = s /\ loc.price = p
    <3>1. HasOrder(old, o)
      BY <2>1, <2>2 DEF old
    <3>2. HasOrder(new, o)
      BY <1>2, <1>6, <3>1 DEF HasOrder
    <3> QED
      BY <1>1, <1>7, <2>2, <3>2
  <2>3. CASE ~(loc.side = s /\ loc.price = p)
    BY <1>7, <2>1, <2>3
  <2> QED
    BY <2>2, <2>3
<1>12. Consistent(after)
  BY <1>8, <1>10, <1>11 DEF Consistent, Agrees
<1> QED
  BY <1>4, <1>7, <1>12 DEF after

\* Whatever it is asked for, modify_order keeps the book consistent and the
\* set of resting ids as it was.
LEMMA ModifyConsistent ==
  ASSUME NEW b, Consistent(b), NEW id, NEW new_price \in Prices, NEW new_quantity \in Int
  PROVE  LET after == modify_order(b, id, new_price, new_quantity)
         IN /\ Consistent(after)
            /\ DOMAIN after.locations = DOMAIN b.locations
<1> DEFINE after == modify_order(b, id, new_price, new_quantity)
<1>1. CASE ~contains(b, id) \/ new_quantity <= 0
  BY <1>1 DEF modify_order
<1>2. CASE contains(b, id) /\ new_quantity > 0
  <2> DEFINE original == find(b, id)
             replacement == Repriced(original, new_price, new_quantity)
             inPlace == new_price = b.locations[id].price /\ new_quantity <= original.quantity
  <2>1. id \in DOMAIN b.locations
    BY <1>2 DEF contains
  <2>2. CASE inPlace
    <3>1. after = Reduced(b, id, new_quantity)
      BY <1>2, <2>2 DEF modify_order
    <3> QED
      BY <2>1, <3>1, ReducedConsistent
  <2>3. CASE ~inPlace
    <3> DEFINE between == cancel_order(b, id)
    <3>1. after = insert_order(between, replacement)
      BY <1>2, <2>3 DEF modify_order
    <3>2. Consistent(between) /\ DOMAIN between.locations = DOMAIN b.locations \ {id}
      BY <2>1, CancelConsistent
    <3>3. original \in Order /\ original.id = id
      BY <2>1, FindResting
    <3> HIDE DEF original
    <3>4. replacement \in Order /\ replacement.id = id
      <4>1. new_quantity \in Nat \ {0}
        BY <1>2
      <4> QED
        BY <3>3, <4>1 DEF Repriced, Order
    <3>5. ~contains(between, replacement.id)
      BY <3>2, <3>4 DEF contains
    <3> HIDE DEF between, replacement, after
    <3>6. /\ Consistent(after)
          /\ DOMAIN after.locations = DOMAIN between.locations \cup {replacement.id}
      BY <3>1, <3>2, <3>4, <3>5, InsertConsistent
    <3> QED
      BY <2>1, <3>2, <3>4, <3>6 DEF after
  <2> QED
    BY <2>2, <2>3
<1> QED
  BY <1>1, <1>2

(***************************************************************************)
(* The counts of a book                                                    *)
(***************************************************************************)

\* Sums over the keys of a map, after an insertion, an assignment or an
\* erasure.
Summable(f) == IsFiniteSet(DOMAIN f) /\ \A x \in DOMAIN f : f[x] \in Int

LEMMA SumPut ==
  ASSUME NEW f, Summable(f), NEW k, NEW v \in Int
  PROVE  SumFunction(Put(f, k, v)) =
           IF k \in DOMAIN f THEN (SumFunction(f) - f[k]) + v ELSE SumFunction(f) + v
<1> DEFINE S == DOMAIN f
           g == Put(f, k, v)
<1>1. /\ DOMAIN g = S \cup {k} /\ g[k] = v
      /\ \A x \in S \ {k} : f[x] = g[x]
  BY DEF Put
<1>2. /\ SumFunction(f) = SumFunctionOnSet(f, S)
      /\ SumFunction(g) = SumFunctionOnSet(g, S \cup {k})
  BY <1>1 DEF SumFunction
<1> HIDE DEF S, g
<1>3. IsFiniteSet(S) /\ \A x \in S : f[x] \in Int
  BY DEF S, Summable
<1>4. CASE k \in S
  <2>1. SumFunctionOnSet(g, S) = (SumFunctionOnSet(f, S) - f[k]) + g[k]
    <3>1. g[k] \in Int /\ \A x \in S \ {k} : f[x] = g[x]
      BY <1>1
    <3> QED
      BY <1>3, <1>4, <3>1, SumChanged
  <2>2. S \cup {k} = S
    BY <1>4
  <2> QED
    BY <1>1, <1>2, <1>4, <2>1, <2>2 DEF g, S
<1>5. CASE k \notin S
  <2> DEFINE T == S \cup {k}
  <2>1. T = S \cup {k} /\ g[k] \in Int /\ \A x \in S : f[x] = g[x]
    BY <1>1, <1>5
  <2> HIDE DEF T
  <2>2. SumFunctionOnSet(g, T) = SumFunctionOnSet(f, S) + g[k]
    BY <1>3, <1>5, <2>1, SumAdded
  <2> QED
    BY <1>1, <1>2, <1>5, <2>1, <2>2 DEF g, S
<1> QED
  BY <1>4, <1>5

LEMMA SumErased ==
  ASSUME NEW f, Summable(f), NEW k, k \in DOMAIN f
  PROVE  SumFunction(Without(f, k)) = SumFunction(f) - f[k]
<1> DEFINE S == DOMAIN f
           g == Without(f, k)
<1>1. DOMAIN g = S \ {k} /\ \A x \in S \ {k} : f[x] = g[x]
  BY DEF Without
<1>2. /\ SumFunction(f) = SumFunctionOnSet(f, S)
      /\ SumFunction(g) = SumFunctionOnSet(g, S \ {k})
  BY <1>1 DEF SumFunction
<1> HIDE DEF S, g
<1>3. k \in S /\ IsFiniteSet(S) /\ \A x \in S : f[x] \in Int
  BY DEF S, Summable
<1> DEFINE T == S \ {k}
<1>4. T = S \ {k} /\ \A x \in T : f[x] = g[x]
  BY <1>1
<1> HIDE DEF T
<1>5. SumFunctionOnSet(g, T) = SumFunctionOnSet(f, S) - f[k]
  BY <1>3, <1>4, SumRemoved
<1> QED
  BY <1>2, <1>4, <1>5 DEF g, S

\* The numbers of orders in the queues of one side.
Lengths(b, side) == [key \in DOMAIN b.levels[side] |-> Len(b.levels[side][key].queue)]

\* Counted walks finitely many levels.
LEMMA CountedNat ==
  ASSUME NEW b, WellTyped(b), NEW side \in Sides, IsFiniteSet(DOMAIN b.levels[side])
  PROVE  /\ Counted(b, side) \in Nat
         /\ Counted(b, side) = SumFunction(Lengths(b, side))
         /\ DOMAIN Lengths(b, side) = DOMAIN b.levels[side]
         /\ \A key \in DOMAIN b.levels[side] :
              /\ Lengths(b, side)[key] = Len(b.levels[side][key].queue)
              /\ Len(b.levels[side][key].queue) \in Nat
<1> DEFINE S == DOMAIN b.levels[side]
           f == Lengths(b, side)
<1>1. DOMAIN f = S /\ \A key \in S : f[key] = Len(b.levels[side][key].queue)
  BY DEF Lengths
<1>2. \A key \in S : Len(b.levels[side][key].queue) \in Nat
  BY QueuedSize DEF WellTyped
<1>3. Counted(b, side) = SumFunctionOnSet(f, S)
  BY <1>1 DEF Counted, Lengths, SumFunction
<1>4. SumFunctionOnSet(f, S) \in Nat
  <2> HIDE DEF S, f
  <2>1. IsFiniteSet(S)
    BY DEF S
  <2> QED
    BY <1>1, <1>2, <2>1, SumNat
<1> QED
  BY <1>1, <1>2, <1>3, <1>4 DEF SumFunction

\* The walk counts what an operation puts into a queue, or takes out of it.
LEMMA CountedPut ==
  ASSUME NEW b, WellTyped(b), NEW s \in Sides, IsFiniteSet(DOMAIN b.levels[s]),
         NEW p, NEW level \in Level,
         NEW after, after.levels = WithLevel(b, s, p, level)
  PROVE  Counted(after, s)
           = IF p \in DOMAIN b.levels[s]
             THEN (Counted(b, s) - Len(b.levels[s][p].queue)) + Len(level.queue)
             ELSE Counted(b, s) + Len(level.queue)
<1> DEFINE f == Lengths(b, s)
<1>1. /\ Counted(b, s) = SumFunction(f)
      /\ DOMAIN f = DOMAIN b.levels[s]
      /\ \A key \in DOMAIN f : f[key] = Len(b.levels[s][key].queue) /\ f[key] \in Nat
  BY CountedNat
<1>2. Len(level.queue) \in Nat
  BY QueuedSize
<1>3. after.levels[s] = Put(b.levels[s], p, level)
  BY DEF WithLevel, WellTyped
<1>4. Lengths(after, s) = Put(f, p, Len(level.queue))
  BY <1>3 DEF Lengths, Put
<1>5. Counted(after, s) = SumFunction(Put(f, p, Len(level.queue)))
  BY <1>4 DEF Counted, Lengths
<1> HIDE DEF f
<1>6. Summable(f)
  BY <1>1 DEF Summable
<1>7. SumFunction(Put(f, p, Len(level.queue))) =
        IF p \in DOMAIN f THEN (SumFunction(f) - f[p]) + Len(level.queue)
        ELSE SumFunction(f) + Len(level.queue)
  BY <1>1, <1>2, <1>6, SumPut
<1> QED
  BY <1>1, <1>5, <1>7

LEMMA CountedWithout ==
  ASSUME NEW b, WellTyped(b), NEW s \in Sides, IsFiniteSet(DOMAIN b.levels[s]),
         NEW p \in DOMAIN b.levels[s],
         NEW after, after.levels = [b.levels EXCEPT ![s] = Without(@, p)]
  PROVE  Counted(after, s) = Counted(b, s) - Len(b.levels[s][p].queue)
<1> DEFINE f == Lengths(b, s)
<1>1. /\ Counted(b, s) = SumFunction(f)
      /\ DOMAIN f = DOMAIN b.levels[s]
      /\ \A key \in DOMAIN f : f[key] = Len(b.levels[s][key].queue) /\ f[key] \in Nat
  BY CountedNat
<1>2. after.levels[s] = Without(b.levels[s], p)
  BY DEF WellTyped
<1>3. Lengths(after, s) = Without(f, p)
  BY <1>2 DEF Lengths, Without
<1>4. Counted(after, s) = SumFunction(Without(f, p))
  BY <1>3 DEF Counted, Lengths
<1> HIDE DEF f
<1>5. Summable(f)
  BY <1>1 DEF Summable
<1>6. SumFunction(Without(f, p)) = SumFunction(f) - f[p]
  BY <1>1, <1>5, SumErased
<1> QED
  BY <1>1, <1>4, <1>6

\* What check_invariants adds to a consistent book: cached totals are exact
\* and the index has as many ids as the queues have orders.
Counts(b) ==
  /\ IsFiniteSet(DOMAIN b.locations)
  /\ \A side \in Sides :
       /\ IsFiniteSet(DOMAIN b.levels[side])
       /\ \A key \in DOMAIN b.levels[side] : Exact(b.levels[side][key])
  /\ Counted(b, "Buy") + Counted(b, "Sell") = Cardinality(DOMAIN b.locations)

LEMMA CountsCheckOut ==
  ASSUME NEW b, Consistent(b), Counts(b)
  PROVE  check_invariants(b)
<1> SUFFICES ASSUME NEW side \in Sides, NEW key \in DOMAIN b.levels[side]
             PROVE  verify_level(b, side, key)
  BY DEF check_invariants, Counts
<1> DEFINE level == b.levels[side][key]
<1>1. LevelIndexed(b, side, key) /\ level \in Level /\ Exact(level)
  BY DEF Consistent, WellTyped, Agrees, Counts
<1>2. \A i \in Positions(level) : level.queue[i].quantity > 0
  <2>1. \A i \in Positions(level) : level.queue[i].quantity \in Nat \ {0}
    BY <1>1, QueuedSize DEF Positions
  <2> QED
    BY <2>1
<1> QED
  BY <1>1, <1>2 DEF verify_level, LevelIndexed, Exact

LEMMA EmptyCounts == Counts(EmptyBook)
<1>1. WellTyped(EmptyBook)
  BY EmptyConsistent DEF Consistent
<1>2. \A side \in Sides : DOMAIN EmptyBook.levels[side] = {}
  BY DEF EmptyBook, NoLevels
<1>3. DOMAIN EmptyBook.locations = {}
  BY DEF EmptyBook
<1>4. ASSUME NEW side \in Sides PROVE Counted(EmptyBook, side) = 0
  <2> DEFINE f == Lengths(EmptyBook, side)
  <2>1. DOMAIN f = {}
    BY <1>2 DEF Lengths
  <2>2. Counted(EmptyBook, side) = SumFunctionOnSet(f, DOMAIN f)
    BY DEF Counted, Lengths, SumFunction
  <2> HIDE DEF f
  <2> QED
    BY <2>1, <2>2, SumEmpty
<1>5. "Buy" \in Sides /\ "Sell" \in Sides
  BY DEF Sides
<1>6. IsFiniteSet({}) /\ Cardinality({}) = 0
  BY FS_EmptySet
<1>7. Counted(EmptyBook, "Buy") + Counted(EmptyBook, "Sell") = 0
  BY <1>4, <1>5
<1> QED
  BY <1>2, <1>3, <1>6, <1>7 DEF Counts

\* The two sides are walked independently.
LEMMA CountedElsewhere ==
  ASSUME NEW b, WellTyped(b), NEW s \in Sides, NEW after,
         \A side \in Sides : side # s => after.levels[side] = b.levels[side],
         \A side \in Sides : Counted(b, side) \in Int,
         Counted(after, s) \in Int
  PROVE  (Counted(after, "Buy") + Counted(after, "Sell"))
           = ((Counted(b, "Buy") + Counted(b, "Sell")) - Counted(b, s)) + Counted(after, s)
<1>1. \A side \in Sides : side # s => Counted(after, side) = Counted(b, side)
  BY DEF Counted
<1> DEFINE was == Counted(b, s)
           is == Counted(after, s)
<1>2. CASE s = "Buy"
  <2>1. Counted(after, "Sell") = Counted(b, "Sell") /\ Counted(b, "Sell") \in Int
        /\ Counted(b, s) \in Int
    BY <1>1, <1>2 DEF Sides
  <2> QED
    BY <1>2, <2>1
<1>3. CASE s = "Sell"
  <2>1. Counted(after, "Buy") = Counted(b, "Buy") /\ Counted(b, "Buy") \in Int
        /\ Counted(b, s) \in Int
    BY <1>1, <1>3 DEF Sides
  <2> QED
    BY <1>3, <2>1
<1> QED
  BY <1>2, <1>3 DEF Sides

\* insert_order adds one order to one queue and one id to the index.
LEMMA InsertCounts ==
  ASSUME NEW b, Consistent(b), Counts(b), NEW order \in Order, ~contains(b, order.id)
  PROVE  Counts(insert_order(b, order))
<1> DEFINE after == insert_order(b, order)
           s == order.side
           p == order.price
           old == LevelAt(b, s, p)
           new == LevelAdd(old, order)
<1>1. s \in Sides /\ p \in Prices /\ WellTyped(b)
  BY DEF Order, Consistent
<1>2. old \in Level /\ Exact(old)
  <2>1. old \in Level
    BY <1>1, LevelAtTyped
  <2>2. Exact(old)
    <3>1. CASE p \in DOMAIN b.levels[s]
      BY <1>1, <3>1 DEF LevelAt, Counts
    <3>2. CASE p \notin DOMAIN b.levels[s]
      BY <3>2, EmptyLevelExact DEF LevelAt
    <3> QED
      BY <3>1, <3>2
  <2> QED
    BY <2>1, <2>2
<1> HIDE DEF old
<1>3. new \in Level /\ Exact(new) /\ Len(new.queue) = Len(old.queue) + 1
  BY <1>2, LevelAddQueue, LevelAddExact
<1>4. Len(old.queue) \in Nat
  BY <1>2, QueuedSize
<1>5. after.levels = WithLevel(b, s, p, new)
  BY DEF insert_order, old
<1>6. DOMAIN after.locations = DOMAIN b.locations \cup {order.id} /\ order.id \notin DOMAIN b.locations
  BY DEF insert_order, contains, Emplace, Put
<1> HIDE DEF after, new, s, p
<1>7. Counted(after, s) = Counted(b, s) + 1 /\ Counted(b, s) \in Nat
  <2>1. Counted(b, s) \in Nat /\ IsFiniteSet(DOMAIN b.levels[s])
    BY <1>1, CountedNat DEF Counts
  <2>2. CASE p \in DOMAIN b.levels[s]
    <3>1. old = b.levels[s][p]
      BY <2>2 DEF old, LevelAt, s, p
    <3>2. Counted(after, s) = (Counted(b, s) - Len(old.queue)) + Len(new.queue)
      BY <1>1, <1>3, <1>5, <2>1, <2>2, <3>1, CountedPut
    <3> QED
      BY <1>3, <1>4, <2>1, <3>2
  <2>3. CASE p \notin DOMAIN b.levels[s]
    <3>1. Len(old.queue) = 0
      BY <2>3, EmptySeq DEF old, LevelAt, EmptyLevel, s, p
    <3>2. Counted(after, s) = Counted(b, s) + Len(new.queue)
      BY <1>1, <1>3, <1>5, <2>1, <2>3, CountedPut
    <3> QED
      BY <1>3, <2>1, <3>1, <3>2
  <2> QED
    BY <2>2, <2>3
<1>8. DOMAIN b.levels = Sides
  BY <1>1 DEF WellTyped
<1>9. /\ \A side \in Sides : side # s => after.levels[side] = b.levels[side]
      /\ DOMAIN after.levels[s] = DOMAIN b.levels[s] \cup {p}
      /\ after.levels[s][p] = new
      /\ \A key \in DOMAIN b.levels[s] \ {p} : after.levels[s][key] = b.levels[s][key]
  BY <1>1, <1>5, <1>8 DEF WithLevel, Put
<1>10. \A side \in Sides : IsFiniteSet(DOMAIN after.levels[side])
  BY <1>9, FS_AddElement DEF Counts
<1>11. \A side \in Sides : \A key \in DOMAIN after.levels[side] : Exact(after.levels[side][key])
  BY <1>3, <1>9 DEF Counts
<1>12. (Counted(after, "Buy") + Counted(after, "Sell"))
           = ((Counted(b, "Buy") + Counted(b, "Sell")) - Counted(b, s)) + Counted(after, s)
  <2>1. \A side \in Sides : Counted(b, side) \in Int
    BY <1>1, CountedNat DEF Counts
  <2>2. Counted(after, s) \in Int
    BY <1>7
  <2> QED
    BY <1>1, <1>9, <2>1, <2>2, CountedElsewhere
<1>13. /\ IsFiniteSet(DOMAIN after.locations)
       /\ Cardinality(DOMAIN after.locations) = Cardinality(DOMAIN b.locations) + 1
       /\ Cardinality(DOMAIN b.locations) \in Nat
  BY <1>6, FS_AddElement, FS_CardinalityType DEF Counts
<1>14. Counted(after, "Buy") + Counted(after, "Sell") = Cardinality(DOMAIN after.locations)
  BY <1>7, <1>12, <1>13 DEF Counts
<1> QED
  BY <1>10, <1>11, <1>13, <1>14 DEF Counts, after

\* cancel_order takes one order out of one queue and its id out of the index.
LEMMA CancelCounts ==
  ASSUME NEW b, Consistent(b), Counts(b), NEW id \in DOMAIN b.locations
  PROVE  Counts(cancel_order(b, id))
<1> DEFINE after == cancel_order(b, id)
           s == b.locations[id].side
           p == b.locations[id].price
           old == b.levels[s][p]
           new == LevelCancel(old, id)
<1>1. /\ s \in Sides /\ p \in DOMAIN b.levels[s]
      /\ old \in Level /\ HasOrder(old, id) /\ Exact(old) /\ WellTyped(b)
  BY FindResting DEF Location, Consistent, Counts
<1> HIDE DEF old, s, p
<1>2. new \in Level /\ Exact(new) /\ Len(new.queue) = Len(old.queue) - 1
  BY <1>1, LevelCancelQueue, LevelCancelExact
<1>3. Len(old.queue) \in Nat /\ Len(new.queue) \in Nat
  BY <1>1, <1>2, QueuedSize
<1>4. /\ after.levels = IF new.queue = <<>>
                        THEN [b.levels EXCEPT ![s] = Without(@, p)]
                        ELSE WithLevel(b, s, p, new)
      /\ after.locations = Without(b.locations, id)
  BY DEF cancel_order, contains, LeftLevel, new, old, s, p
<1>5. DOMAIN after.locations = DOMAIN b.locations \ {id}
  BY <1>4 DEF Without
<1>6. DOMAIN b.levels = Sides
  BY <1>1 DEF WellTyped
<1>7. Counted(b, s) \in Nat /\ IsFiniteSet(DOMAIN b.levels[s])
  BY <1>1, CountedNat DEF Counts
<1> HIDE DEF after, new
<1>8. Counted(after, s) = Counted(b, s) - 1
  <2>1. CASE new.queue = <<>>
    <3>1. after.levels = [b.levels EXCEPT ![s] = Without(@, p)]
      BY <1>4, <2>1
    <3>2. Counted(after, s) = Counted(b, s) - Len(old.queue)
      BY <1>1, <1>7, <3>1, CountedWithout DEF old
    <3>3. Len(new.queue) = Len(old.queue) - 1
      BY <1>2
    <3>4. Len(new.queue) = 0
      BY <2>1, EmptySeq
    <3>5. \A before, left \in Nat : left = before - 1 /\ left = 0 => before = 1
      OBVIOUS
    <3>6. Len(old.queue) = 1
      BY <1>3, <3>3, <3>4, <3>5
    <3> QED
      BY <3>2, <3>6
  <2>2. CASE new.queue # <<>>
    <3>1. after.levels = WithLevel(b, s, p, new)
      BY <1>4, <2>2
    <3>2. Counted(after, s) = (Counted(b, s) - Len(old.queue)) + Len(new.queue)
      BY <1>1, <1>2, <1>7, <3>1, CountedPut DEF old
    <3>3. Len(new.queue) = Len(old.queue) - 1
      BY <1>2
    <3> QED
      BY <1>3, <1>7, <3>2, <3>3
  <2> QED
    BY <2>1, <2>2
<1>9. /\ \A side \in Sides : side # s => after.levels[side] = b.levels[side]
      /\ DOMAIN after.levels[s] \subseteq DOMAIN b.levels[s]
      /\ \A key \in DOMAIN after.levels[s] :
           after.levels[s][key] = IF key = p THEN new ELSE b.levels[s][key]
  <2>1. CASE new.queue = <<>>
    BY <1>1, <1>4, <1>6, <2>1 DEF Without
  <2>2. CASE new.queue # <<>>
    BY <1>1, <1>4, <1>6, <2>2 DEF WithLevel, Put
  <2> QED
    BY <2>1, <2>2
<1>10. \A side \in Sides : IsFiniteSet(DOMAIN after.levels[side])
  BY <1>9, FS_Subset DEF Counts
<1>11. \A side \in Sides : \A key \in DOMAIN after.levels[side] : Exact(after.levels[side][key])
  BY <1>1, <1>2, <1>9 DEF Counts
<1>12. (Counted(after, "Buy") + Counted(after, "Sell"))
           = ((Counted(b, "Buy") + Counted(b, "Sell")) - Counted(b, s)) + Counted(after, s)
  <2>1. \A side \in Sides : Counted(b, side) \in Int
    BY <1>1, CountedNat DEF Counts
  <2>2. Counted(after, s) \in Int
    BY <1>7, <1>8
  <2> QED
    BY <1>1, <1>9, <2>1, <2>2, CountedElsewhere
<1>13. /\ IsFiniteSet(DOMAIN after.locations)
       /\ Cardinality(DOMAIN after.locations) = Cardinality(DOMAIN b.locations) - 1
       /\ Cardinality(DOMAIN b.locations) \in Nat
  BY <1>5, FS_RemoveElement, FS_CardinalityType DEF Counts
<1>14. Counted(after, "Buy") + Counted(after, "Sell") = Cardinality(DOMAIN after.locations)
  BY <1>7, <1>8, <1>12, <1>13 DEF Counts
<1> QED
  BY <1>10, <1>11, <1>13, <1>14 DEF Counts, after

\* reduce_order moves a size and the total together, and no order.
LEMMA ReducedCounts ==
  ASSUME NEW b, Consistent(b), Counts(b), NEW id \in DOMAIN b.locations,
         NEW new_quantity \in Int
  PROVE  Counts(Reduced(b, id, new_quantity))
<1> DEFINE after == Reduced(b, id, new_quantity)
           s == b.locations[id].side
           p == b.locations[id].price
           old == b.levels[s][p]
           new == LevelReduce(old, id, new_quantity)
<1>1. /\ s \in Sides /\ p \in DOMAIN b.levels[s]
      /\ old \in Level /\ Exact(old) /\ WellTyped(b)
  BY FindResting DEF Location, Consistent, Counts
<1> HIDE DEF old, s, p
<1>2. new \in Level /\ Exact(new) /\ Len(new.queue) = Len(old.queue)
  BY <1>1, LevelReduceQueue, LevelReduceExact
<1>3. Len(old.queue) \in Nat
  BY <1>1, QueuedSize
<1>4. after.levels = WithLevel(b, s, p, new) /\ after.locations = b.locations
  BY DEF Reduced, old, s, p
<1>5. Counted(b, s) \in Nat /\ IsFiniteSet(DOMAIN b.levels[s])
  BY <1>1, CountedNat DEF Counts
<1>6. DOMAIN b.levels = Sides
  BY <1>1 DEF WellTyped
<1> HIDE DEF after, new
<1>7. Counted(after, s) = Counted(b, s)
  <2>1. Counted(after, s) = (Counted(b, s) - Len(old.queue)) + Len(new.queue)
    BY <1>1, <1>2, <1>4, <1>5, CountedPut DEF old
  <2>2. Len(new.queue) = Len(old.queue)
    BY <1>2
  <2> QED
    BY <1>3, <1>5, <2>1, <2>2
<1>8. /\ \A side \in Sides : side # s => after.levels[side] = b.levels[side]
      /\ DOMAIN after.levels[s] = DOMAIN b.levels[s]
      /\ \A key \in DOMAIN after.levels[s] :
           after.levels[s][key] = IF key = p THEN new ELSE b.levels[s][key]
  BY <1>1, <1>4, <1>6 DEF WithLevel, Put
<1>9. \A side \in Sides :
        /\ IsFiniteSet(DOMAIN after.levels[side])
        /\ \A key \in DOMAIN after.levels[side] : Exact(after.levels[side][key])
  BY <1>1, <1>2, <1>8 DEF Counts
<1>10. \A side \in Sides : Counted(after, side) = Counted(b, side)
  BY <1>7, <1>8 DEF Counted
<1>11. Counted(after, "Buy") + Counted(after, "Sell") = Cardinality(DOMAIN after.locations)
  BY <1>4, <1>10 DEF Counts, Sides
<1> QED
  BY <1>4, <1>9, <1>11 DEF Counts, after

LEMMA ModifyCounts ==
  ASSUME NEW b, Consistent(b), Counts(b), NEW id, NEW new_price \in Prices,
         NEW new_quantity \in Int
  PROVE  Counts(modify_order(b, id, new_price, new_quantity))
<1> DEFINE after == modify_order(b, id, new_price, new_quantity)
           original == find(b, id)
           replacement == Repriced(original, new_price, new_quantity)
           between == cancel_order(b, id)
<1>1. CASE ~contains(b, id) \/ new_quantity <= 0
  BY <1>1 DEF modify_order
<1>2. CASE contains(b, id) /\ new_quantity > 0
  <2>1. id \in DOMAIN b.locations
    BY <1>2 DEF contains
  <2>2. after = Reduced(b, id, new_quantity) \/ after = insert_order(between, replacement)
    BY <1>2 DEF modify_order
  <2>3. Counts(Reduced(b, id, new_quantity))
    BY <2>1, ReducedCounts
  <2>4. original \in Order /\ original.id = id
    BY <2>1, FindResting
  <2>5. /\ Consistent(between) /\ Counts(between)
        /\ DOMAIN between.locations = DOMAIN b.locations \ {id}
    BY <2>1, CancelConsistent, CancelCounts
  <2> HIDE DEF original
  <2>6. replacement \in Order /\ replacement.id = id
    <3>1. new_quantity \in Nat \ {0}
      BY <1>2
    <3> QED
      BY <2>4, <3>1 DEF Repriced, Order
  <2>7. ~contains(between, replacement.id)
    BY <2>5, <2>6 DEF contains
  <2> HIDE DEF between, replacement, after
  <2>8. Counts(insert_order(between, replacement))
    BY <2>5, <2>6, <2>7, InsertCounts
  <2> QED
    BY <2>2, <2>3, <2>8 DEF after
<1> QED
  BY <1>1, <1>2

(***************************************************************************)
(* What the operations do to the orders a book finds                       *)
(***************************************************************************)

\* `order` is queued at this price of this side, at position i.
StandsAt(b, side, price, order, i) ==
  /\ price \in DOMAIN b.levels[side]
  /\ i \in Positions(b.levels[side][price])
  /\ b.levels[side][price].queue[i] = order

\* The position of an indexed id in its level.
Place(b, id) ==
  PositionOf(b.levels[b.locations[id].side][b.locations[id].price], id)

\* An order is found by its id wherever it is queued, and an indexed id is
\* queued somewhere.
LEMMA FoundAt ==
  ASSUME NEW b, Consistent(b), NEW side \in Sides, NEW price, NEW order, NEW i,
         StandsAt(b, side, price, order, i)
  PROVE  /\ order \in Order
         /\ order.id \in DOMAIN b.locations
         /\ b.locations[order.id] = [side |-> side, price |-> price]
         /\ find(b, order.id) = order
         /\ Place(b, order.id) = i
<1> DEFINE level == b.levels[side][price]
<1>1. price \in DOMAIN b.levels[side] /\ i \in Positions(level) /\ level.queue[i] = order
  BY DEF StandsAt
<1>2. level \in Level /\ LevelIndexed(b, side, price)
  BY <1>1 DEF Consistent, WellTyped, Agrees
<1>3. NoTwins(level) /\ OrderIndexed(b, order, side, price)
  BY <1>1, <1>2 DEF LevelIndexed
<1>4. order \in Order
  BY <1>1, <1>2, QueuedSize DEF Positions
<1>5. b.locations[order.id] = [side |-> side, price |-> price] /\ contains(b, order.id)
  BY <1>3 DEF OrderIndexed
<1>6. FindInLevel(level, order.id) = order /\ PositionOf(level, order.id) = i
  BY <1>1, <1>2, <1>3, PositionOfUnique
<1> QED
  BY <1>4, <1>5, <1>6 DEF find, contains, Place

LEMMA WhereQueued ==
  ASSUME NEW b, Consistent(b), NEW id \in DOMAIN b.locations
  PROVE  LET loc == b.locations[id]
         IN /\ loc.side \in Sides
            /\ loc.price \in DOMAIN b.levels[loc.side]
            /\ loc.price \in Prices
            /\ \E i \in Positions(b.levels[loc.side][loc.price]) :
                 /\ b.levels[loc.side][loc.price].queue[i] = find(b, id)
                 /\ b.levels[loc.side][loc.price].queue[i].id = id
<1> DEFINE level == b.levels[b.locations[id].side][b.locations[id].price]
<1>1. /\ b.locations[id] \in Location
      /\ b.locations[id].price \in DOMAIN b.levels[b.locations[id].side]
      /\ level \in Level
      /\ HasOrder(level, id)
  BY FindResting
<1>2. /\ PositionOf(level, id) \in Positions(level)
      /\ level.queue[PositionOf(level, id)].id = id
  BY <1>1, PositionOfHeld
<1>3. find(b, id) = level.queue[PositionOf(level, id)]
  BY DEF find, FindInLevel
<1> QED
  BY <1>1, <1>2, <1>3 DEF Location

LEMMA Standing ==
  ASSUME NEW b, Consistent(b), NEW id \in DOMAIN b.locations
  PROVE  /\ b.locations[id].side \in Sides
         /\ find(b, id).id = id
         /\ StandsAt(b, b.locations[id].side, b.locations[id].price,
                     find(b, id), Place(b, id))
<1> DEFINE side == b.locations[id].side
           price == b.locations[id].price
<1>1. side \in Sides /\ price \in DOMAIN b.levels[side]
  BY WhereQueued
<1>2. PICK i \in Positions(b.levels[side][price]) :
           /\ b.levels[side][price].queue[i] = find(b, id)
           /\ b.levels[side][price].queue[i].id = id
  BY WhereQueued
<1> DEFINE mine == find(b, id)
<1>3. StandsAt(b, side, price, mine, i) /\ mine.id = id
  BY <1>1, <1>2 DEF StandsAt
<1>4. side \in Sides
  BY <1>1
<1> HIDE DEF side, price, mine
<1>5. Place(b, mine.id) = i
  BY <1>3, <1>4, FoundAt
<1> QED
  BY <1>3, <1>4, <1>5 DEF side, price, mine

\* insert_order puts the new order behind its level's queue and leaves every
\* other order where it stands.
LEMMA InsertStands ==
  ASSUME NEW b, Consistent(b), NEW order \in Order, ~contains(b, order.id),
         NEW side \in Sides, NEW price, NEW mine, NEW i
  PROVE  LET after == insert_order(b, order)
             old == LevelAt(b, order.side, order.price)
         IN /\ StandsAt(after, order.side, order.price, order, Len(old.queue) + 1)
            /\ StandsAt(b, side, price, mine, i) => StandsAt(after, side, price, mine, i)
<1> DEFINE after == insert_order(b, order)
           s == order.side
           p == order.price
           old == LevelAt(b, s, p)
           new == LevelAdd(old, order)
<1>1. s \in Sides /\ p \in Prices /\ DOMAIN b.levels = Sides
  BY DEF Order, Consistent, WellTyped
<1>2. old \in Level
  BY <1>1, LevelAtTyped
<1>3. after.levels = WithLevel(b, s, p, new)
  BY DEF insert_order
<1>4. p \in DOMAIN b.levels[s] => old = b.levels[s][p]
  BY DEF LevelAt
<1> HIDE DEF after, old, s, p
<1>5. /\ Len(old.queue) \in Nat /\ Len(new.queue) = Len(old.queue) + 1
      /\ new.queue[Len(old.queue) + 1] = order
      /\ \A k \in Positions(old) : new.queue[k] = old.queue[k]
  BY <1>2, LevelAddQueue, QueuedSize
<1> HIDE DEF new
<1>6. /\ \A other \in Sides : other # s => after.levels[other] = b.levels[other]
      /\ p \in DOMAIN after.levels[s] /\ after.levels[s][p] = new
      /\ \A key \in DOMAIN b.levels[s] :
           /\ key \in DOMAIN after.levels[s]
           /\ key # p => after.levels[s][key] = b.levels[s][key]
  BY <1>1, <1>3 DEF WithLevel, Put
<1>7. StandsAt(after, s, p, order, Len(old.queue) + 1)
  BY <1>5, <1>6 DEF StandsAt, Positions
<1>8. ASSUME StandsAt(b, side, price, mine, i)
      PROVE  StandsAt(after, side, price, mine, i)
  <2>1. CASE side = s /\ price = p
    <3>1. i \in Positions(old) /\ old.queue[i] = mine
      BY <1>4, <1>8, <2>1 DEF StandsAt
    <3>2. i \in Positions(new) /\ new.queue[i] = mine
      BY <1>5, <3>1 DEF Positions
    <3> QED
      BY <1>6, <2>1, <3>2 DEF StandsAt
  <2>2. CASE ~(side = s /\ price = p)
    BY <1>6, <1>8, <2>2 DEF StandsAt
  <2> QED
    BY <2>1, <2>2
<1> QED
  BY <1>7, <1>8 DEF after, old, s, p

\* insert_order: the new order is found and every other one as before.
LEMMA InsertFinds ==
  ASSUME NEW b, Consistent(b), NEW order \in Order, ~contains(b, order.id)
  PROVE  LET after == insert_order(b, order)
         IN /\ find(after, order.id) = order
            /\ Place(after, order.id) =
                 Len(LevelAt(b, order.side, order.price).queue) + 1
            /\ \A id \in DOMAIN b.locations :
                 find(after, id) = find(b, id) /\ Place(after, id) = Place(b, id)
<1> DEFINE after == insert_order(b, order)
           last == Len(LevelAt(b, order.side, order.price).queue) + 1
<1>1. Consistent(after) /\ order.side \in Sides
  BY InsertConsistent DEF Order
<1>2. StandsAt(after, order.side, order.price, order, last)
  BY <1>1, InsertStands
<1>3. ASSUME NEW id \in DOMAIN b.locations
      PROVE  find(after, id) = find(b, id) /\ Place(after, id) = Place(b, id)
  <2> DEFINE side == b.locations[id].side
             price == b.locations[id].price
             mine == find(b, id)
             i == Place(b, id)
  <2>1. side \in Sides /\ mine.id = id /\ StandsAt(b, side, price, mine, i)
    BY Standing
  <2>2. side \in Sides
    BY <2>1
  <2> HIDE DEF side, price, mine, i
  <2>3. StandsAt(after, side, price, mine, i)
    BY <2>1, <2>2, InsertStands
  <2> HIDE DEF after
  <2>4. find(after, mine.id) = mine /\ Place(after, mine.id) = i
    BY <1>1, <2>2, <2>3, FoundAt
  <2> QED
    BY <2>1, <2>4 DEF mine, i
<1> HIDE DEF after, last
<1>4. find(after, order.id) = order /\ Place(after, order.id) = last
  BY <1>1, <1>2, FoundAt
<1> QED
  BY <1>3, <1>4 DEF after, last

\* The place of position i of this level once the order `id` has left.
ClosedUp(b, id, side, price, i) ==
  IF b.locations[id] = [side |-> side, price |-> price] /\ Place(b, id) < i
  THEN i - 1 ELSE i

\* cancel_order closes the gap of the order that left, and moves no other.
LEMMA CancelStands ==
  ASSUME NEW b, Consistent(b), NEW id \in DOMAIN b.locations,
         NEW side \in Sides, NEW price, NEW mine, NEW i,
         StandsAt(b, side, price, mine, i), mine.id # id
  PROVE  StandsAt(cancel_order(b, id), side, price, mine, ClosedUp(b, id, side, price, i))
<1> DEFINE after == cancel_order(b, id)
           s == b.locations[id].side
           p == b.locations[id].price
           old == b.levels[s][p]
           new == LevelCancel(old, id)
           n == PositionOf(old, id)
<1>1. /\ s \in Sides /\ p \in DOMAIN b.levels[s] /\ DOMAIN b.levels = Sides
      /\ b.locations[id] = [side |-> s, price |-> p]
      /\ old \in Level /\ HasOrder(old, id)
  BY FindResting DEF Location, Consistent, WellTyped
<1>2. after.levels = IF new.queue = <<>>
                     THEN [b.levels EXCEPT ![s] = Without(@, p)]
                     ELSE WithLevel(b, s, p, new)
  BY DEF cancel_order, contains, LeftLevel
<1>3. Place(b, id) = n
  BY DEF Place
<1> HIDE DEF after, old, s, p
<1>4. /\ n \in Positions(old) /\ old.queue[n].id = id
      /\ new \in Level
      /\ Len(new.queue) = Len(old.queue) - 1
      /\ \A k \in Positions(new) : new.queue[k] = old.queue[Before(n, k)]
  BY <1>1, PositionOfHeld, LevelCancelQueue
<1>5. Len(old.queue) \in Nat /\ Len(new.queue) \in Nat
  BY <1>1, <1>4, QueuedSize
<1> HIDE DEF new, n
<1>6. /\ \A other \in Sides : other # s => after.levels[other] = b.levels[other]
      /\ new.queue # <<>> => p \in DOMAIN after.levels[s] /\ after.levels[s][p] = new
      /\ \A key \in DOMAIN b.levels[s] \ {p} :
           key \in DOMAIN after.levels[s] /\ after.levels[s][key] = b.levels[s][key]
  <2>1. CASE new.queue = <<>>
    BY <1>1, <1>2, <2>1 DEF Without
  <2>2. CASE new.queue # <<>>
    BY <1>1, <1>2, <2>2 DEF WithLevel, Put
  <2> QED
    BY <2>1, <2>2
<1>7. CASE side = s /\ price = p
  <2> DEFINE k == IF n < i THEN i - 1 ELSE i
  <2>1. i \in Positions(old) /\ old.queue[i] = mine /\ i # n
    BY <1>4, <1>7 DEF StandsAt, old
  <2>2. k \in Positions(new) /\ Before(n, k) = i
    BY <1>4, <1>5, <2>1 DEF Positions, Before
  <2>3. ClosedUp(b, id, side, price, i) = k
    BY <1>1, <1>3, <1>7 DEF ClosedUp
  <2> HIDE DEF k
  <2>4. new.queue # <<>>
    BY <1>5, <2>2, EmptySeq DEF Positions
  <2>5. new.queue[k] = mine
    BY <1>4, <2>1, <2>2
  <2>6. StandsAt(after, side, price, mine, k)
    BY <1>6, <1>7, <2>2, <2>4, <2>5 DEF StandsAt
  <2> QED
    BY <2>3, <2>6 DEF after
<1>8. CASE ~(side = s /\ price = p)
  <2>1. ClosedUp(b, id, side, price, i) = i
    BY <1>1, <1>8 DEF ClosedUp
  <2>2. StandsAt(after, side, price, mine, i)
    BY <1>6, <1>8 DEF StandsAt
  <2> QED
    BY <2>1, <2>2 DEF after
<1> QED
  BY <1>7, <1>8

\* cancel_order: every order but the one that left is found as before.
LEMMA CancelFinds ==
  ASSUME NEW b, Consistent(b), NEW id \in DOMAIN b.locations,
         NEW other \in DOMAIN b.locations, other # id
  PROVE  /\ find(cancel_order(b, id), other) = find(b, other)
         /\ Place(cancel_order(b, id), other) =
              ClosedUp(b, id, b.locations[other].side, b.locations[other].price,
                       Place(b, other))
<1> DEFINE after == cancel_order(b, id)
           side == b.locations[other].side
           price == b.locations[other].price
           mine == find(b, other)
           i == Place(b, other)
           k == ClosedUp(b, id, side, price, i)
<1>1. Consistent(after)
  BY CancelConsistent
<1>2. side \in Sides /\ mine.id = other /\ StandsAt(b, side, price, mine, i)
  BY Standing
<1>3. side \in Sides
  BY <1>2
<1> HIDE DEF side, price, mine, i
<1>4. StandsAt(after, side, price, mine, k)
  BY <1>2, <1>3, CancelStands
<1> HIDE DEF after, k
<1>5. find(after, mine.id) = mine /\ Place(after, mine.id) = k
  BY <1>1, <1>3, <1>4, FoundAt
<1> QED
  BY <1>2, <1>5 DEF after, side, price, mine, i, k

\* An order after a reduction in place of the order `id`.
Shrunk(order, id, quantity) ==
  IF order.id = id THEN [order EXCEPT !.quantity = quantity] ELSE order

\* A reduction in place moves no order.
LEMMA ReducedStands ==
  ASSUME NEW b, Consistent(b), NEW id \in DOMAIN b.locations,
         NEW new_quantity \in Nat \ {0}, new_quantity <= find(b, id).quantity,
         NEW side \in Sides, NEW price, NEW mine, NEW i, StandsAt(b, side, price, mine, i)
  PROVE  StandsAt(Reduced(b, id, new_quantity), side, price,
                  Shrunk(mine, id, new_quantity), i)
<1> DEFINE after == Reduced(b, id, new_quantity)
           s == b.locations[id].side
           p == b.locations[id].price
           old == b.levels[s][p]
           new == LevelReduce(old, id, new_quantity)
           n == PositionOf(old, id)
<1>1. /\ s \in Sides /\ p \in DOMAIN b.levels[s] /\ DOMAIN b.levels = Sides
      /\ b.locations[id] = [side |-> s, price |-> p]
      /\ old \in Level /\ HasOrder(old, id) /\ LevelIndexed(b, s, p)
  BY FindResting DEF Location, Consistent, WellTyped
<1>2. after.levels = WithLevel(b, s, p, new)
  BY DEF Reduced
<1>3. FindInLevel(old, id) = find(b, id)
  BY DEF find
<1>4. /\ mine.id \in DOMAIN b.locations
      /\ b.locations[mine.id] = [side |-> side, price |-> price]
      /\ Place(b, mine.id) = i
  BY FoundAt
<1>5. Place(b, id) = n
  BY DEF Place
<1> HIDE DEF after, old, s, p
<1>6. n \in Positions(old) /\ old.queue[n].id = id
  BY <1>1, PositionOfHeld
<1>7. new.queue = [old.queue EXCEPT ![n].quantity = new_quantity]
  <2>1. CanReduce(old, id, new_quantity)
    BY <1>1, <1>3 DEF CanReduce
  <2> QED
    BY <1>1, <2>1 DEF LevelReduce, Level
<1>8. DOMAIN old.queue = Positions(old) /\ Positions(new) = Positions(old)
  <2>1. Len(new.queue) = Len(old.queue) /\ DOMAIN old.queue = 1 .. Len(old.queue)
    BY <1>1, LevelReduceQueue, QueuedSize
  <2> QED
    BY <2>1 DEF Positions
<1> HIDE DEF new, n
<1>9. /\ \A other \in Sides : other # s => after.levels[other] = b.levels[other]
      /\ p \in DOMAIN after.levels[s] /\ after.levels[s][p] = new
      /\ \A key \in DOMAIN b.levels[s] \ {p} :
           key \in DOMAIN after.levels[s] /\ after.levels[s][key] = b.levels[s][key]
  BY <1>1, <1>2 DEF WithLevel, Put
<1>10. CASE side = s /\ price = p
  <2>1. i \in Positions(old) /\ old.queue[i] = mine
    BY <1>10 DEF StandsAt, old
  <2>2. mine.id = id <=> i = n
    BY <1>4, <1>5, <1>6, <2>1
  <2>3. new.queue[i] = Shrunk(mine, id, new_quantity)
    <3>1. CASE i = n
      BY <1>7, <1>8, <2>1, <2>2, <3>1 DEF Shrunk
    <3>2. CASE i # n
      BY <1>7, <1>8, <2>1, <2>2, <3>2 DEF Shrunk
    <3> QED
      BY <3>1, <3>2
  <2> QED
    BY <1>8, <1>9, <1>10, <2>1, <2>3 DEF StandsAt, after
<1>11. CASE ~(side = s /\ price = p)
  <2>1. mine.id # id
    BY <1>1, <1>4, <1>11
  <2>2. StandsAt(after, side, price, mine, i)
    BY <1>9, <1>11 DEF StandsAt
  <2> QED
    BY <2>1, <2>2 DEF Shrunk, after
<1> QED
  BY <1>10, <1>11

\* A reduction in place: the order is found with its new size, every other
\* as before.
LEMMA ReducedFinds ==
  ASSUME NEW b, Consistent(b), NEW id \in DOMAIN b.locations,
         NEW new_quantity \in Nat \ {0}, new_quantity <= find(b, id).quantity,
         NEW other \in DOMAIN b.locations
  PROVE  /\ find(Reduced(b, id, new_quantity), other)
              = Shrunk(find(b, other), id, new_quantity)
         /\ find(b, other).id = other
         /\ Place(Reduced(b, id, new_quantity), other) = Place(b, other)
<1> DEFINE after == Reduced(b, id, new_quantity)
           side == b.locations[other].side
           price == b.locations[other].price
           mine == find(b, other)
           i == Place(b, other)
           shrunk == Shrunk(mine, id, new_quantity)
<1>1. Consistent(after)
  BY ReducedConsistent
<1>2. side \in Sides /\ mine.id = other /\ StandsAt(b, side, price, mine, i)
  BY Standing
<1>3. side \in Sides /\ mine \in Order
  BY <1>2, FindResting
<1> HIDE DEF side, price, mine, i
<1>4. StandsAt(after, side, price, shrunk, i)
  BY <1>2, <1>3, ReducedStands
<1>5. shrunk.id = other
  BY <1>2, <1>3 DEF Shrunk, Order
<1> HIDE DEF after, shrunk
<1>6. find(after, shrunk.id) = shrunk /\ Place(after, shrunk.id) = i
  BY <1>1, <1>3, <1>4, FoundAt
<1> QED
  BY <1>2, <1>5, <1>6 DEF after, mine, i, shrunk

\* The two lemmas on what is found afterwards, for all other orders at once.
LEMMA CancelFindsOthers ==
  ASSUME NEW b, Consistent(b), NEW id \in DOMAIN b.locations
  PROVE  \A other \in DOMAIN b.locations :
           other # id => find(cancel_order(b, id), other) = find(b, other)
  BY CancelFinds

LEMMA ReducedFindsAll ==
  ASSUME NEW b, Consistent(b), NEW id \in DOMAIN b.locations,
         NEW new_quantity \in Nat \ {0}, new_quantity <= find(b, id).quantity
  PROVE  /\ find(Reduced(b, id, new_quantity), id)
              = [find(b, id) EXCEPT !.quantity = new_quantity]
         /\ \A other \in DOMAIN b.locations : other # id =>
              find(Reduced(b, id, new_quantity), other) = find(b, other)
<1>1. ASSUME NEW other \in DOMAIN b.locations
      PROVE  /\ find(Reduced(b, id, new_quantity), other)
                  = Shrunk(find(b, other), id, new_quantity)
             /\ find(b, other).id = other
  BY ReducedFinds
<1> QED
  BY <1>1 DEF Shrunk

(***************************************************************************)
(* What the operations do to the shares a book holds                       *)
(***************************************************************************)

\* The cached totals of one side, and the shares of both.
Totals(b, side) ==
  [price \in DOMAIN b.levels[side] |-> b.levels[side][price].total_quantity]

AllShares(b) == total_shares(b, "Buy") + total_shares(b, "Sell")

LEMMA TotalsSummable ==
  ASSUME NEW b, WellTyped(b), NEW side \in Sides, IsFiniteSet(DOMAIN b.levels[side])
  PROVE  /\ total_shares(b, side) \in Int
         /\ total_shares(b, side) = SumFunction(Totals(b, side))
         /\ DOMAIN Totals(b, side) = DOMAIN b.levels[side]
         /\ \A key \in DOMAIN b.levels[side] :
              /\ Totals(b, side)[key] = b.levels[side][key].total_quantity
              /\ b.levels[side][key].total_quantity \in Int
<1> DEFINE S == DOMAIN b.levels[side]
           f == Totals(b, side)
<1>1. DOMAIN f = S /\ \A key \in S : f[key] = b.levels[side][key].total_quantity
  BY DEF Totals
<1>2. \A key \in S : b.levels[side][key].total_quantity \in Int
  BY DEF WellTyped, Level
<1>3. total_shares(b, side) = SumFunctionOnSet(f, S)
  BY <1>1 DEF total_shares, Totals, SumFunction
<1>4. SumFunctionOnSet(f, S) \in Int
  <2> HIDE DEF S, f
  <2>1. IsFiniteSet(S)
    BY DEF S
  <2> QED
    BY <1>1, <1>2, <2>1, SumInt
<1> QED
  BY <1>1, <1>2, <1>3, <1>4 DEF SumFunction

LEMMA TotalPut ==
  ASSUME NEW b, WellTyped(b), NEW s \in Sides, IsFiniteSet(DOMAIN b.levels[s]),
         NEW p, NEW level \in Level,
         NEW after, after.levels = WithLevel(b, s, p, level)
  PROVE  total_shares(after, s)
           = IF p \in DOMAIN b.levels[s]
             THEN (total_shares(b, s) - b.levels[s][p].total_quantity)
                    + level.total_quantity
             ELSE total_shares(b, s) + level.total_quantity
<1> DEFINE f == Totals(b, s)
           total == level.total_quantity
<1>1. /\ total_shares(b, s) = SumFunction(f)
      /\ DOMAIN f = DOMAIN b.levels[s]
      /\ \A key \in DOMAIN f : f[key] = b.levels[s][key].total_quantity /\ f[key] \in Int
  BY TotalsSummable
<1>2. total \in Int
  BY DEF Level
<1>3. after.levels[s] = Put(b.levels[s], p, level)
  BY DEF WithLevel, WellTyped
<1>4. Totals(after, s) = Put(f, p, total)
  BY <1>3 DEF Totals, Put
<1>5. total_shares(after, s) = SumFunction(Put(f, p, total))
  BY <1>4 DEF total_shares, Totals
<1> HIDE DEF f, total
<1>6. Summable(f)
  BY <1>1 DEF Summable
<1>7. SumFunction(Put(f, p, total)) =
        IF p \in DOMAIN f THEN (SumFunction(f) - f[p]) + total
        ELSE SumFunction(f) + total
  BY <1>1, <1>2, <1>6, SumPut
<1> QED
  BY <1>1, <1>5, <1>7 DEF total

LEMMA TotalWithout ==
  ASSUME NEW b, WellTyped(b), NEW s \in Sides, IsFiniteSet(DOMAIN b.levels[s]),
         NEW p \in DOMAIN b.levels[s],
         NEW after, after.levels = [b.levels EXCEPT ![s] = Without(@, p)]
  PROVE  total_shares(after, s) = total_shares(b, s) - b.levels[s][p].total_quantity
<1> DEFINE f == Totals(b, s)
<1>1. /\ total_shares(b, s) = SumFunction(f)
      /\ DOMAIN f = DOMAIN b.levels[s]
      /\ \A key \in DOMAIN f : f[key] = b.levels[s][key].total_quantity /\ f[key] \in Int
  BY TotalsSummable
<1>2. after.levels[s] = Without(b.levels[s], p)
  BY DEF WellTyped
<1>3. Totals(after, s) = Without(f, p)
  BY <1>2 DEF Totals, Without
<1>4. total_shares(after, s) = SumFunction(Without(f, p))
  BY <1>3 DEF total_shares, Totals
<1> HIDE DEF f
<1>5. Summable(f)
  BY <1>1 DEF Summable
<1>6. SumFunction(Without(f, p)) = SumFunction(f) - f[p]
  BY <1>1, <1>5, SumErased
<1> QED
  BY <1>1, <1>4, <1>6

\* A change of one side changes the shares of the book by as much.
LEMMA SharesElsewhere ==
  ASSUME NEW b, NEW s \in Sides, NEW after, NEW change \in Int,
         \A side \in Sides : side # s => after.levels[side] = b.levels[side],
         \A side \in Sides : total_shares(b, side) \in Int,
         total_shares(after, s) = total_shares(b, s) + change
  PROVE  AllShares(after) = AllShares(b) + change /\ AllShares(b) \in Int
<1>1. \A side \in Sides : side # s => total_shares(after, side) = total_shares(b, side)
  BY DEF total_shares
<1>2. CASE s = "Buy"
  <2>1. total_shares(after, "Sell") = total_shares(b, "Sell")
    BY <1>1, <1>2 DEF Sides
  <2> QED
    BY <1>2, <2>1 DEF AllShares, Sides
<1>3. CASE s = "Sell"
  <2>1. total_shares(after, "Buy") = total_shares(b, "Buy")
    BY <1>1, <1>3 DEF Sides
  <2> QED
    BY <1>3, <2>1 DEF AllShares, Sides
<1> QED
  BY <1>2, <1>3 DEF Sides

\* insert_order brings the shares of the order.
LEMMA InsertShares ==
  ASSUME NEW b, Consistent(b), Counts(b), NEW order \in Order, ~contains(b, order.id)
  PROVE  LET after == insert_order(b, order)
         IN /\ AllShares(after) = AllShares(b) + order.quantity
            /\ AllShares(b) \in Int
            /\ total_shares(after, order.side)
                 = total_shares(b, order.side) + order.quantity
            /\ \A side \in Sides : side # order.side =>
                 total_shares(after, side) = total_shares(b, side)
<1> DEFINE after == insert_order(b, order)
           s == order.side
           p == order.price
           old == LevelAt(b, s, p)
           new == LevelAdd(old, order)
           size == order.quantity
<1>1. s \in Sides /\ p \in Prices /\ WellTyped(b) /\ size \in Int
  BY DEF Order, Consistent
<1>2. old \in Level
  BY <1>1, LevelAtTyped
<1>3. after.levels = WithLevel(b, s, p, new)
  BY DEF insert_order
<1>4. p \in DOMAIN b.levels[s] => old = b.levels[s][p]
  BY DEF LevelAt
<1>5. p \notin DOMAIN b.levels[s] => old.total_quantity = 0
  BY DEF LevelAt, EmptyLevel
<1> HIDE DEF old, after
<1>6. /\ new \in Level
      /\ new.total_quantity = old.total_quantity + size
      /\ old.total_quantity \in Int
  BY <1>2, LevelAddQueue DEF LevelAdd, Level
<1> HIDE DEF new, s, p, size
<1>7. IsFiniteSet(DOMAIN b.levels[s])
  BY <1>1 DEF Counts
<1>8. \A side \in Sides : total_shares(b, side) \in Int
  BY <1>1, TotalsSummable DEF Counts
<1>9. total_shares(after, s) = total_shares(b, s) + size
  <2>1. CASE p \in DOMAIN b.levels[s]
    <3>1. total_shares(after, s)
            = (total_shares(b, s) - old.total_quantity) + new.total_quantity
      BY <1>1, <1>3, <1>4, <1>6, <1>7, <2>1, TotalPut
    <3> QED
      BY <1>1, <1>6, <1>8, <3>1
  <2>2. CASE p \notin DOMAIN b.levels[s]
    <3>1. total_shares(after, s) = total_shares(b, s) + new.total_quantity
      BY <1>1, <1>3, <1>6, <1>7, <2>2, TotalPut
    <3>2. new.total_quantity = size
      BY <1>1, <1>5, <1>6, <2>2
    <3> QED
      BY <3>1, <3>2
  <2> QED
    BY <2>1, <2>2
<1>10. \A side \in Sides : side # s => after.levels[side] = b.levels[side]
  BY <1>1, <1>3 DEF WithLevel, WellTyped
<1>11. AllShares(after) = AllShares(b) + size /\ AllShares(b) \in Int
  BY <1>1, <1>8, <1>9, <1>10, SharesElsewhere
<1>12. \A side \in Sides : side # s => total_shares(after, side) = total_shares(b, side)
  BY <1>10 DEF total_shares
<1> QED
  BY <1>9, <1>11, <1>12, Zenon DEF after, size, s

\* cancel_order takes out the order's own shares: a level that is dropped
\* held no others, because its total is exact.
LEMMA CancelShares ==
  ASSUME NEW b, Consistent(b), Counts(b), NEW id \in DOMAIN b.locations
  PROVE  LET after == cancel_order(b, id)
             its == b.locations[id].side
         IN /\ AllShares(after) = AllShares(b) - find(b, id).quantity
            /\ AllShares(b) \in Int
            /\ total_shares(after, its) = total_shares(b, its) - find(b, id).quantity
            /\ \A side \in Sides : side # its =>
                 total_shares(after, side) = total_shares(b, side)
<1> DEFINE after == cancel_order(b, id)
           s == b.locations[id].side
           p == b.locations[id].price
           old == b.levels[s][p]
           new == LevelCancel(old, id)
           size == find(b, id).quantity
<1>1. /\ s \in Sides /\ p \in DOMAIN b.levels[s]
      /\ old \in Level /\ HasOrder(old, id) /\ Exact(old) /\ WellTyped(b)
      /\ size \in Int
  BY FindResting DEF Location, Consistent, Counts, Order
<1>2. after.levels = IF new.queue = <<>>
                     THEN [b.levels EXCEPT ![s] = Without(@, p)]
                     ELSE WithLevel(b, s, p, new)
  BY DEF cancel_order, contains, LeftLevel
<1>3. FindInLevel(old, id).quantity = size
  BY DEF find
<1> HIDE DEF after, old, s, p
<1>4. /\ new \in Level /\ Exact(new)
      /\ new.total_quantity = old.total_quantity - size
      /\ old.total_quantity \in Int
  BY <1>1, <1>3, LevelCancelQueue, LevelCancelExact DEF LevelCancel, Level
<1> HIDE DEF new, size
<1>5. IsFiniteSet(DOMAIN b.levels[s])
  BY <1>1 DEF Counts
<1>6. \A side \in Sides : total_shares(b, side) \in Int
  BY <1>1, TotalsSummable DEF Counts
<1>7. total_shares(after, s) = total_shares(b, s) + (0 - size)
  <2>1. CASE new.queue = <<>>
    <3>1. total_shares(after, s) = total_shares(b, s) - old.total_quantity
      BY <1>1, <1>2, <1>5, <2>1, TotalWithout DEF old
    <3>2. new.total_quantity = 0
      <4>1. Shares(<<>>) = 0
        BY EmptyLevelExact DEF Exact, EmptyLevel
      <4> QED
        BY <1>4, <2>1, <4>1 DEF Exact
    <3>3. old.total_quantity = size
      BY <1>1, <1>4, <3>2
    <3> QED
      BY <1>1, <1>6, <3>1, <3>3
  <2>2. CASE new.queue # <<>>
    <3>1. total_shares(after, s)
            = (total_shares(b, s) - old.total_quantity) + new.total_quantity
      BY <1>1, <1>2, <1>4, <1>5, <2>2, TotalPut DEF old
    <3> QED
      BY <1>1, <1>4, <1>6, <3>1
  <2> QED
    BY <2>1, <2>2
<1>8. \A side \in Sides : side # s => after.levels[side] = b.levels[side]
  <2>1. CASE new.queue = <<>>
    BY <1>1, <1>2, <2>1 DEF WellTyped
  <2>2. CASE new.queue # <<>>
    BY <1>1, <1>2, <2>2 DEF WithLevel, WellTyped
  <2> QED
    BY <2>1, <2>2
<1>9. AllShares(after) = AllShares(b) + (0 - size) /\ AllShares(b) \in Int
  <2>1. 0 - size \in Int
    BY <1>1
  <2> QED
    BY <1>1, <1>6, <1>7, <1>8, <2>1, SharesElsewhere
<1>10. total_shares(b, s) \in Int
  BY <1>1, <1>6
<1>11. /\ AllShares(after) = AllShares(b) - size
       /\ total_shares(after, s) = total_shares(b, s) - size
  BY <1>1, <1>7, <1>9, <1>10
<1>12. \A side \in Sides : side # s => total_shares(after, side) = total_shares(b, side)
  BY <1>8 DEF total_shares
<1> QED
  BY <1>9, <1>11, <1>12, Zenon DEF after, size, s

\* A reduction in place takes out the difference.
LEMMA ReducedShares ==
  ASSUME NEW b, Consistent(b), Counts(b), NEW id \in DOMAIN b.locations,
         NEW new_quantity \in Nat \ {0}, new_quantity <= find(b, id).quantity
  PROVE  LET after == Reduced(b, id, new_quantity)
             its == b.locations[id].side
         IN /\ AllShares(after) = (AllShares(b) - find(b, id).quantity) + new_quantity
            /\ AllShares(b) \in Int
            /\ total_shares(after, its)
                 = total_shares(b, its) - (find(b, id).quantity - new_quantity)
            /\ \A side \in Sides : side # its =>
                 total_shares(after, side) = total_shares(b, side)
<1> DEFINE after == Reduced(b, id, new_quantity)
           s == b.locations[id].side
           p == b.locations[id].price
           old == b.levels[s][p]
           new == LevelReduce(old, id, new_quantity)
           size == find(b, id).quantity
<1>1. /\ s \in Sides /\ p \in DOMAIN b.levels[s]
      /\ old \in Level /\ HasOrder(old, id) /\ WellTyped(b)
      /\ size \in Int
  BY FindResting DEF Location, Consistent, Order
<1>2. after.levels = WithLevel(b, s, p, new)
  BY DEF Reduced
<1>3. FindInLevel(old, id).quantity = size
  BY DEF find
<1> HIDE DEF after, old, s, p
<1>4. /\ new \in Level
      /\ new.total_quantity = old.total_quantity - (size - new_quantity)
      /\ old.total_quantity \in Int
  <2>1. CanReduce(old, id, new_quantity)
    BY <1>1, <1>3 DEF CanReduce
  <2>2. new \in Level
    BY <1>1, LevelReduceQueue
  <2> QED
    BY <1>1, <1>3, <2>1, <2>2 DEF LevelReduce, Level
<1> HIDE DEF new, size
<1>5. IsFiniteSet(DOMAIN b.levels[s])
  BY <1>1 DEF Counts
<1>6. \A side \in Sides : total_shares(b, side) \in Int
  BY <1>1, TotalsSummable DEF Counts, Consistent
<1>7. total_shares(after, s) = total_shares(b, s) + (new_quantity - size)
  <2>1. total_shares(after, s)
          = (total_shares(b, s) - old.total_quantity) + new.total_quantity
    BY <1>1, <1>2, <1>4, <1>5, TotalPut DEF old
  <2> QED
    BY <1>1, <1>4, <1>6, <2>1
<1>8. \A side \in Sides : side # s => after.levels[side] = b.levels[side]
  BY <1>1, <1>2 DEF WithLevel, WellTyped
<1>9. AllShares(after) = AllShares(b) + (new_quantity - size) /\ AllShares(b) \in Int
  <2>1. new_quantity - size \in Int
    BY <1>1
  <2> QED
    BY <1>1, <1>6, <1>7, <1>8, <2>1, SharesElsewhere
<1>10. total_shares(b, s) \in Int
  BY <1>1, <1>6
<1>11. /\ AllShares(after) = (AllShares(b) - size) + new_quantity
       /\ total_shares(after, s) = total_shares(b, s) - (size - new_quantity)
  BY <1>1, <1>7, <1>9, <1>10
<1>12. \A side \in Sides : side # s => total_shares(after, side) = total_shares(b, side)
  BY <1>8 DEF total_shares
<1> QED
  BY <1>9, <1>11, <1>12, Zenon DEF after, size, s

(***************************************************************************)
(* The sides from the top                                                  *)
(***************************************************************************)

\* What it is for a ladder to be the sorted map of a side: it has every price
\* of S once, each strictly behind those before it.
Ladder(ladder, side, S) ==
  /\ Cardinality(S) \in Nat
  /\ DOMAIN ladder = 1 .. Cardinality(S)
  /\ \A k \in 1 .. Cardinality(S) : ladder[k] \in S
  /\ \A j, k \in 1 .. Cardinality(S) : j < k => Better(side, ladder[j], ladder[k])
  /\ \A p \in S : \E k \in 1 .. Cardinality(S) : ladder[k] = p

\* The k-th price has k - 1 above it, and what is above has a lower rank.
LEMMA LadderRanks ==
  ASSUME NEW b, NEW side \in Sides, NEW S, S = DOMAIN b.levels[side],
         IsFiniteSet(S), S \subseteq Int
  PROVE  /\ Cardinality(S) \in Nat
         /\ DOMAIN PriceLadder(b, side) = 1 .. Cardinality(S)
         /\ \A k \in 1 .. Cardinality(S) :
              /\ PriceLadder(b, side)[k] \in S
              /\ Cardinality(Above(b, side, PriceLadder(b, side)[k])) = k - 1
         /\ \A p \in S : Cardinality(Above(b, side, p)) \in 0 .. Cardinality(S) - 1
         /\ \A p, q \in S : Better(side, q, p) =>
              Cardinality(Above(b, side, q)) < Cardinality(Above(b, side, p))
<1> DEFINE n == Cardinality(S)
           rank == [p \in S |-> Cardinality(Above(b, side, p))]
           ladder == PriceLadder(b, side)
<1>1. n \in Nat
  BY FS_CardinalityType
<1>2. \A p \in S : /\ Above(b, side, p) \in SUBSET S
                   /\ p \notin Above(b, side, p)
                   /\ \A q \in S : q \in Above(b, side, p) <=> Better(side, q, p)
  BY DEF Above, Better
<1>3. \A p \in S : rank[p] \in 0 .. n - 1
  <2> SUFFICES ASSUME NEW p \in S PROVE Cardinality(Above(b, side, p)) \in 0 .. n - 1
    OBVIOUS
  <2>1. /\ IsFiniteSet(Above(b, side, p))
        /\ Cardinality(Above(b, side, p)) <= n
        /\ Cardinality(Above(b, side, p)) = n => S = Above(b, side, p)
    BY <1>2, FS_Subset
  <2>2. Cardinality(Above(b, side, p)) \in Nat
    BY <2>1, FS_CardinalityType
  <2> QED
    BY <1>1, <1>2, <2>1, <2>2
<1>4. ASSUME NEW p \in S, NEW q \in S, Better(side, q, p)
      PROVE  rank[q] < rank[p]
  <2> DEFINE A == Above(b, side, q)
             B == Above(b, side, p)
  <2>1. A \subseteq B
    BY <1>4 DEF Above, Better
  <2>2. q \in B /\ q \notin A
    BY <1>2, <1>4
  <2>3. IsFiniteSet(B)
    BY <1>2, FS_Subset
  <2> HIDE DEF A, B
  <2>4. Cardinality(A) <= Cardinality(B) /\ Cardinality(A) # Cardinality(B)
    BY <2>1, <2>2, <2>3, FS_Subset
  <2>5. rank[p] = Cardinality(B) /\ rank[q] = Cardinality(A)
    BY DEF A, B
  <2> QED
    BY <1>3, <2>4, <2>5
<1>5. \A p, q \in S : p = q \/ Better(side, p, q) \/ Better(side, q, p)
  BY DEF Better
<1>6. \A p, q \in S : rank[p] = rank[q] => p = q
  BY <1>3, <1>4, <1>5
<1>7. \A k \in 0 .. n - 1 : \E p \in S : rank[p] = k
  <2> DEFINE T == 0 .. n - 1
  <2>1. IsFiniteSet(T) /\ Cardinality(T) = n
    BY <1>1, FS_Interval
  <2>2. \A p \in S : rank[p] \in T
    BY <1>3
  <2>3. rank = [p \in S |-> rank[p]]
    OBVIOUS
  <2> HIDE DEF T, rank
  <2>4. rank \in Injection(S, T)
    BY <1>6, <2>2, <2>3 DEF Injection, IsInjective
  <2>5. rank \in Surjection(S, T)
    BY <2>1, <2>4, FS_Injection
  <2> QED
    BY <2>5 DEF Surjection, T
<1>8. \A p \in S : rank[p] = Cardinality(Above(b, side, p))
  OBVIOUS
<1>9. ladder = [k \in 1 .. n |->
                  CHOOSE price \in S : Cardinality(Above(b, side, price)) = k - 1]
  BY DEF PriceLadder
<1> HIDE DEF rank, ladder
<1>10. \A k \in 1 .. n : ladder[k] \in S /\ rank[ladder[k]] = k - 1
  <2> SUFFICES ASSUME NEW k \in 1 .. n PROVE ladder[k] \in S /\ rank[ladder[k]] = k - 1
    OBVIOUS
  <2>1. k - 1 \in 0 .. n - 1
    BY <1>1
  <2>2. \E price \in S : Cardinality(Above(b, side, price)) = k - 1
    BY <1>7, <1>8, <2>1
  <2> QED
    BY <1>8, <1>9, <2>2
<1>11. DOMAIN ladder = 1 .. n
  BY <1>9
<1> QED
  BY <1>1, <1>3, <1>4, <1>8, <1>10, <1>11 DEF ladder

LEMMA LadderSorts ==
  ASSUME NEW b, NEW side \in Sides, NEW S, S = DOMAIN b.levels[side],
         IsFiniteSet(S), S \subseteq Int
  PROVE  Ladder(PriceLadder(b, side), side, S)
<1> DEFINE n == Cardinality(S)
           rank == [p \in S |-> Cardinality(Above(b, side, p))]
           ladder == PriceLadder(b, side)
<1>1. \A p, q \in S : p = q \/ Better(side, p, q) \/ Better(side, q, p)
  BY DEF Better
<1>2. \A p \in S : rank[p] = Cardinality(Above(b, side, p))
  OBVIOUS
<1>3. /\ n \in Nat /\ DOMAIN ladder = 1 .. n
      /\ \A k \in 1 .. n : ladder[k] \in S /\ rank[ladder[k]] = k - 1
      /\ \A p \in S : rank[p] \in 0 .. n - 1
      /\ \A p, q \in S : Better(side, q, p) => rank[q] < rank[p]
  BY LadderRanks
<1> HIDE DEF rank, ladder, n
<1>4. \A p, q \in S : Better(side, q, p) => rank[q] < rank[p]
  BY <1>3
<1>5. \A p \in S : rank[p] \in Int
  BY <1>3
<1>6. ASSUME NEW p \in S, NEW q \in S, ~(rank[p] < rank[q]), ~(rank[q] < rank[p])
      PROVE  p = q
  BY <1>1, <1>6, <1>4
<1>7. ASSUME NEW j \in 1 .. n, NEW k \in 1 .. n, j < k
      PROVE  Better(side, ladder[j], ladder[k])
  <2>1. /\ ladder[j] \in S /\ ladder[k] \in S
        /\ rank[ladder[j]] < rank[ladder[k]]
    BY <1>3, <1>7
  <2>2. ladder[j] # ladder[k] /\ ~(rank[ladder[k]] < rank[ladder[j]])
    BY <1>5, <2>1
  <2> QED
    BY <1>1, <1>4, <2>1, <2>2
<1>8. ASSUME NEW p \in S PROVE \E k \in 1 .. n : ladder[k] = p
  <2>1. rank[p] + 1 \in 1 .. n /\ (rank[p] + 1) - 1 = rank[p]
    BY <1>3
  <2>2. PICK k \in 1 .. n : k = rank[p] + 1
    BY <2>1
  <2>3. ladder[k] \in S /\ rank[ladder[k]] = rank[p]
    BY <1>3, <2>1, <2>2
  <2> QED
    BY <1>6, <1>5, <2>3
<1> QED
  BY <1>3, <1>7, <1>8 DEF Ladder, n, ladder

(***************************************************************************)
(* The top of a side                                                       *)
(***************************************************************************)

\* Every level has shares to show.
LEMMA TotalsPositive ==
  ASSUME NEW b, Consistent(b), Counts(b), NEW side \in Sides,
         NEW price \in DOMAIN b.levels[side]
  PROVE  b.levels[side][price].total_quantity \in Nat \ {0}
<1> DEFINE level == b.levels[side][price]
           size == [i \in 1 .. Len(level.queue) |-> level.queue[i].quantity]
<1>1. LevelIndexed(b, side, price) /\ level \in Level /\ Exact(level)
  BY DEF Consistent, WellTyped, Agrees, Counts
<1>2. \A i \in 1 .. Len(level.queue) : level.queue[i].quantity \in Nat \ {0}
  BY <1>1, QueuedSize
<1>3. Len(level.queue) \in Nat /\ 1 \in 1 .. Len(level.queue)
  BY <1>1, LenProperties, EmptySeq DEF Level, LevelIndexed
<1>4. IsFiniteSet(1 .. Len(level.queue)) /\ DOMAIN size = 1 .. Len(level.queue)
  BY <1>3, FS_Interval
<1>5. level.total_quantity = SumFunctionOnSet(size, 1 .. Len(level.queue))
  BY <1>1, <1>4 DEF Exact, Shares, SumFunction
<1>6. \A i \in 1 .. Len(level.queue) : size[i] \in Nat /\ size[i] > 0
  BY <1>2
<1> HIDE DEF size
<1>7. /\ SumFunctionOnSet(size, 1 .. Len(level.queue)) \in Nat
      /\ size[1] <= SumFunctionOnSet(size, 1 .. Len(level.queue))
  BY <1>3, <1>4, <1>6, SumNat
<1> QED
  BY <1>3, <1>5, <1>6, <1>7

\* Up to n levels of one side from the top, with their prices and totals.
TopLevels(b, side, n) ==
  LET depth == Cardinality(DOMAIN b.levels[side])
  IN [k \in 1 .. Min({n, depth}) |->
        [price |-> price_at_level(b, side, k),
         quantity |-> quantity_at_level(b, side, k)]]

\* What such a ladder says of the book: as many levels as it has, up to n, the
\* k-th with the k-th price and the total of that price.
TopOf(top, b, side, n) ==
  /\ Cardinality(DOMAIN b.levels[side]) \in Nat
  /\ \E d \in Nat :
       /\ DOMAIN top = 1 .. d
       /\ \A k \in Nat \ {0} : k <= d <=> k <= n /\ k <= Cardinality(DOMAIN b.levels[side])
  /\ \A k \in DOMAIN top :
       /\ top[k] = [price |-> top[k].price, quantity |-> top[k].quantity]
       /\ top[k].price = PriceLadder(b, side)[k]
       /\ top[k].price \in DOMAIN b.levels[side]
       /\ top[k].price \in Int
       /\ top[k].quantity = b.levels[side][top[k].price].total_quantity
       /\ top[k].quantity \in Nat \ {0}

LEMMA SmallerOfTwo ==
  ASSUME NEW m \in Nat, NEW n \in Nat
  PROVE  Min({m, n}) = IF m <= n THEN m ELSE n
BY DEF Min

LEMMA TopsRead ==
  ASSUME NEW b, Consistent(b), Counts(b), NEW side \in Sides, NEW n \in Nat
  PROVE  TopOf(TopLevels(b, side, n), b, side, n)
<1> DEFINE S == DOMAIN b.levels[side]
           depth == Cardinality(S)
           top == TopLevels(b, side, n)
           d == Min({n, depth})
<1>1. IsFiniteSet(S) /\ S \subseteq Int
  BY PricesAssumption DEF Consistent, WellTyped, Counts
<1>2. /\ depth \in Nat
      /\ DOMAIN PriceLadder(b, side) = 1 .. depth
      /\ \A k \in 1 .. depth : PriceLadder(b, side)[k] \in S
  BY <1>1, LadderRanks
<1>3. d = IF n <= depth THEN n ELSE depth
  BY <1>2, SmallerOfTwo
<1>4. top = [k \in 1 .. d |-> [price |-> PriceLadder(b, side)[k],
                               quantity |-> quantity_at_level(b, side, k)]]
  BY DEF TopLevels, price_at_level
<1> HIDE DEF d, top, depth
<1>5. d \in Nat /\ \A k \in Nat \ {0} : k <= d <=> k <= n /\ k <= depth
  BY <1>2, <1>3
<1>6. ASSUME NEW k \in DOMAIN top
      PROVE  /\ top[k] = [price |-> top[k].price, quantity |-> top[k].quantity]
             /\ top[k].price = PriceLadder(b, side)[k]
             /\ top[k].price \in S
             /\ top[k].price \in Int
             /\ top[k].quantity = b.levels[side][top[k].price].total_quantity
             /\ top[k].quantity \in Nat \ {0}
  <2>1. k \in 1 .. depth
    BY <1>2, <1>4, <1>5
  <2>2. quantity_at_level(b, side, k)
          = b.levels[side][PriceLadder(b, side)[k]].total_quantity
    BY <1>2, <2>1 DEF quantity_at_level, quantity_at
  <2>3. top[k] = [price |-> PriceLadder(b, side)[k], quantity |-> quantity_at_level(b, side, k)]
    BY <1>4
  <2>4. top[k].price = PriceLadder(b, side)[k]
        /\ top[k].quantity = quantity_at_level(b, side, k)
    BY <2>3
  <2>5. top[k].price \in S /\ top[k].price \in Int
    BY <1>1, <1>2, <2>1, <2>4
  <2>6. b.levels[side][top[k].price].total_quantity \in Nat \ {0}
    BY <2>5, TotalsPositive
  <2> QED
    BY <2>2, <2>3, <2>4, <2>5, <2>6
<1>7. DOMAIN top = 1 .. d
  BY <1>4
<1> QED
  BY <1>2, <1>5, <1>6, <1>7 DEF TopOf, top, depth

\* The first of them is the best price of the side.
LEMMA TopIsBest ==
  ASSUME NEW b, Consistent(b), Counts(b), NEW side \in Sides, NEW n \in Nat \ {0},
         NEW top, TopOf(top, b, side, n)
  PROVE  /\ DOMAIN top = {} <=> DOMAIN b.levels[side] = {}
         /\ DOMAIN top # {} =>
              /\ 1 \in DOMAIN top
              /\ IsBest(b, side, top[1].price)
              /\ \A price : IsBest(b, side, price) => price = top[1].price
<1> DEFINE S == DOMAIN b.levels[side]
           depth == Cardinality(S)
<1>1. IsFiniteSet(S) /\ S \subseteq Int
  BY PricesAssumption DEF Consistent, WellTyped, Counts
<1>2. depth \in Nat /\ (depth = 0 <=> S = {})
  BY <1>1, FS_EmptySet, FS_CardinalityType
<1>3. PICK d \in Nat :
        /\ DOMAIN top = 1 .. d
        /\ \A k \in Nat \ {0} : k <= d <=> k <= n /\ k <= depth
  BY DEF TopOf
<1>4. 1 <= d <=> 1 <= depth
  BY <1>3
<1>5. DOMAIN top = {} <=> S = {}
  BY <1>2, <1>3, <1>4
<1>6. ASSUME DOMAIN top # {}
      PROVE  /\ 1 \in DOMAIN top
             /\ IsBest(b, side, top[1].price)
             /\ \A price : IsBest(b, side, price) => price = top[1].price
  <2>1. 1 \in DOMAIN top /\ 1 \in 1 .. depth
    BY <1>2, <1>3, <1>4, <1>6
  <2>2. top[1].price = PriceLadder(b, side)[1] /\ top[1].price \in S
    BY <2>1 DEF TopOf
  <2>3. Ladder(PriceLadder(b, side), side, S)
    BY <1>1, LadderSorts
  <2>4. ASSUME NEW p \in S PROVE p = top[1].price \/ Better(side, top[1].price, p)
    <3>1. PICK k \in 1 .. depth : PriceLadder(b, side)[k] = p
      BY <2>3 DEF Ladder
    <3>2. k = 1 \/ 1 < k
      BY <1>2
    <3> QED
      BY <2>1, <2>2, <2>3, <3>1, <3>2 DEF Ladder
  <2>5. \A p \in S : ~Better(side, p, top[1].price)
    BY <1>1, <2>2, <2>4 DEF Better
  <2> QED
    BY <2>1, <2>2, <2>4, <2>5 DEF IsBest
<1> QED
  BY <1>5, <1>6

\* It is what the best-price accessors say.
LEMMA BestIsTop ==
  ASSUME NEW b, Consistent(b), Counts(b), NEW side \in Sides, NEW n \in Nat \ {0},
         NEW top, TopOf(top, b, side, n), DOMAIN b.levels[side] # {}
  PROVE  LET best == CHOOSE price \in DOMAIN b.levels[side] : IsBest(b, side, price)
         IN top[1] = [price |-> best, quantity |-> b.levels[side][best].total_quantity]
<1> DEFINE best == CHOOSE price \in DOMAIN b.levels[side] : IsBest(b, side, price)
<1>1. /\ 1 \in DOMAIN top /\ IsBest(b, side, top[1].price)
      /\ \A price : IsBest(b, side, price) => price = top[1].price
  BY TopIsBest
<1>2. \E price \in DOMAIN b.levels[side] : IsBest(b, side, price)
  BY <1>1 DEF IsBest
<1>3. IsBest(b, side, best)
  BY <1>2
<1> HIDE DEF best
<1>4. best = top[1].price
  BY <1>1, <1>3
<1> QED
  BY <1>1, <1>4 DEF TopOf, best

\* Every level of this side is still there, with no fewer shares.
Grows(a, b, side) ==
  /\ DOMAIN a.levels[side] \subseteq DOMAIN b.levels[side]
  /\ \A price \in DOMAIN a.levels[side] :
       a.levels[side][price].total_quantity <= b.levels[side][price].total_quantity

\* With more prices the k-th is no worse.
LEMMA LadderRises ==
  ASSUME NEW a, NEW b, NEW side \in Sides, NEW S, NEW T,
         S = DOMAIN a.levels[side], T = DOMAIN b.levels[side], S \subseteq T,
         IsFiniteSet(T), T \subseteq Int, NEW k \in 1 .. Cardinality(S)
  PROVE  /\ Cardinality(S) <= Cardinality(T)
         /\ ~Better(side, PriceLadder(a, side)[k], PriceLadder(b, side)[k])
<1> DEFINE p == PriceLadder(a, side)[k]
           q == PriceLadder(b, side)[k]
           A == Above(a, side, p)
           B == Above(b, side, q)
<1>1. /\ IsFiniteSet(S) /\ Cardinality(S) <= Cardinality(T)
      /\ Cardinality(S) \in Nat /\ Cardinality(T) \in Nat
  BY FS_Subset, FS_CardinalityType
<1>2. k \in 1 .. Cardinality(T)
  BY <1>1
<1>3. p \in S /\ Cardinality(A) = k - 1
  BY <1>1, LadderRanks
<1>4. q \in T /\ Cardinality(B) = k - 1
  BY <1>2, LadderRanks
<1>5. ASSUME Better(side, p, q) PROVE FALSE
  <2>1. A \cup {p} \subseteq B /\ p \notin A
    BY <1>3, <1>4, <1>5 DEF Above, Better
  <2>2. IsFiniteSet(A) /\ IsFiniteSet(B)
    <3>1. A \subseteq S /\ B \subseteq T
      BY DEF Above
    <3> QED
      BY <1>1, <3>1, FS_Subset
  <2> HIDE DEF A, B, p, q
  <2>3. Cardinality(A \cup {p}) = k
    <3>1. Cardinality(A \cup {p}) = Cardinality(A) + 1
      BY <2>1, <2>2, FS_AddElement
    <3> QED
      BY <1>1, <1>3, <3>1
  <2>4. Cardinality(A \cup {p}) <= Cardinality(B)
    BY <2>1, <2>2, FS_Subset
  <2> QED
    BY <1>4, <2>3, <2>4
<1> QED
  BY <1>1, <1>5

\* On a side that grows, each level of the ladder improves: a better price, or
\* no fewer shares at the same one.
LEMMA TopsRise ==
  ASSUME NEW a, NEW b, Consistent(a), Counts(a), Consistent(b), Counts(b),
         NEW side \in Sides, Grows(a, b, side), NEW n \in Nat,
         NEW old, TopOf(old, a, side, n), NEW new, TopOf(new, b, side, n),
         NEW k \in DOMAIN old
  PROVE  /\ k \in DOMAIN new
         /\ ~Better(side, old[k].price, new[k].price)
         /\ old[k].price = new[k].price => old[k].quantity <= new[k].quantity
<1> DEFINE S == DOMAIN a.levels[side]
           T == DOMAIN b.levels[side]
<1>1. /\ S \subseteq T /\ IsFiniteSet(T) /\ T \subseteq Int
      /\ Cardinality(S) \in Nat /\ Cardinality(T) \in Nat
  BY PricesAssumption DEF Consistent, WellTyped, Counts, Grows, TopOf
<1>2. k \in Nat \ {0} /\ k <= n /\ k <= Cardinality(S)
  BY DEF TopOf
<1>3. /\ Cardinality(S) <= Cardinality(T)
      /\ ~Better(side, PriceLadder(a, side)[k], PriceLadder(b, side)[k])
  <2>1. k \in 1 .. Cardinality(S)
    BY <1>1, <1>2
  <2> HIDE DEF S, T
  <2>2. S = DOMAIN a.levels[side] /\ T = DOMAIN b.levels[side]
    BY DEF S, T
  <2> QED
    BY <1>1, <2>1, <2>2, LadderRises
<1>4. k \in DOMAIN new
  <2>1. PICK d \in Nat :
          /\ DOMAIN new = 1 .. d
          /\ \A m \in Nat \ {0} : m <= d <=> m <= n /\ m <= Cardinality(T)
    BY DEF TopOf
  <2>2. k <= Cardinality(T)
    BY <1>1, <1>2, <1>3
  <2> QED
    BY <1>2, <2>1, <2>2
<1>5. /\ old[k].price = PriceLadder(a, side)[k] /\ old[k].price \in S
      /\ old[k].quantity = a.levels[side][old[k].price].total_quantity
  BY DEF TopOf
<1>6. /\ new[k].price = PriceLadder(b, side)[k]
      /\ new[k].quantity = b.levels[side][new[k].price].total_quantity
  BY <1>4 DEF TopOf
<1> QED
  BY <1>3, <1>4, <1>5, <1>6 DEF Grows

\* On a side that neither loses nor gains, no level of the ladder moves.
LEMMA TopsStand ==
  ASSUME NEW a, NEW b, Consistent(a), Counts(a), Consistent(b), Counts(b),
         NEW side \in Sides, Grows(a, b, side), Grows(b, a, side), NEW n \in Nat,
         NEW old, TopOf(old, a, side, n), NEW new, TopOf(new, b, side, n)
  PROVE  /\ DOMAIN old = DOMAIN new
         /\ \A k \in DOMAIN old : old[k] = new[k]
<1>1. ASSUME NEW k \in DOMAIN old
      PROVE  /\ k \in DOMAIN new
             /\ ~Better(side, old[k].price, new[k].price)
             /\ old[k].price = new[k].price => old[k].quantity <= new[k].quantity
  BY TopsRise
<1>2. ASSUME NEW k \in DOMAIN new
      PROVE  /\ k \in DOMAIN old
             /\ ~Better(side, new[k].price, old[k].price)
             /\ new[k].price = old[k].price => new[k].quantity <= old[k].quantity
  BY TopsRise
<1>3. DOMAIN old = DOMAIN new
  BY <1>1, <1>2
<1>4. ASSUME NEW k \in DOMAIN old PROVE old[k] = new[k]
  <2>1. /\ old[k] = [price |-> old[k].price, quantity |-> old[k].quantity]
        /\ new[k] = [price |-> new[k].price, quantity |-> new[k].quantity]
        /\ old[k].price \in Int /\ old[k].quantity \in Nat
        /\ new[k].price \in Int /\ new[k].quantity \in Nat
    BY <1>3 DEF TopOf
  <2>2. old[k].price = new[k].price
    BY <1>1, <1>2, <1>3, <2>1 DEF Better
  <2>3. old[k].quantity = new[k].quantity
    BY <1>1, <1>2, <1>3, <2>1, <2>2
  <2> QED
    BY <2>1, <2>2, <2>3
<1> QED
  BY <1>3, <1>4

\* An empty book has nothing to show.
LEMMA NoTops ==
  ASSUME NEW side \in Sides, NEW n \in Nat
  PROVE  TopLevels(EmptyBook, side, n) = <<>>
<1> DEFINE ladder == TopLevels(EmptyBook, side, n)
<1>1. Consistent(EmptyBook) /\ Counts(EmptyBook)
  BY EmptyConsistent, EmptyCounts
<1>2. DOMAIN EmptyBook.levels[side] = {}
  BY DEF EmptyBook, NoLevels
<1>3. TopOf(ladder, EmptyBook, side, n)
  BY <1>1, TopsRead
<1>4. DOMAIN ladder = {}
  BY <1>2, <1>3 DEF TopOf
<1>5. \A f : f = [k \in DOMAIN f |-> f[k]] /\ DOMAIN f = {} => f = <<>>
  OBVIOUS
<1>6. ladder = [k \in DOMAIN ladder |-> ladder[k]]
  BY DEF TopLevels
<1> QED
  BY <1>4, <1>5, <1>6

\* An order that is inserted makes its side grow and leaves the other alone.
LEMMA InsertGrows ==
  ASSUME NEW b, Consistent(b), NEW order \in Order
  PROVE  /\ Grows(b, insert_order(b, order), order.side)
         /\ \A side \in Sides : side # order.side =>
              insert_order(b, order).levels[side] = b.levels[side]
<1> DEFINE after == insert_order(b, order)
           s == order.side
           p == order.price
           old == LevelAt(b, s, p)
           new == LevelAdd(old, order)
<1>1. s \in Sides /\ p \in Prices /\ DOMAIN b.levels = Sides /\ order.quantity \in Nat
  BY QuantitiesAssumption DEF Order, Consistent, WellTyped
<1>2. after.levels = [b.levels EXCEPT ![s] = Put(@, p, new)]
  BY DEF insert_order, WithLevel
<1>3. p \in DOMAIN b.levels[s] => old = b.levels[s][p] /\ old \in Level
  BY <1>1 DEF LevelAt, Consistent, WellTyped
<1>4. new.total_quantity = old.total_quantity + order.quantity
  BY DEF LevelAdd
<1> HIDE DEF after, new, old
<1>5. /\ DOMAIN after.levels[s] = DOMAIN b.levels[s] \cup {p}
      /\ after.levels[s][p] = new
      /\ \A price \in DOMAIN b.levels[s] :
           price # p => after.levels[s][price] = b.levels[s][price]
      /\ \A side \in Sides : side # s => after.levels[side] = b.levels[side]
  BY <1>1, <1>2 DEF Put
<1>6. ASSUME NEW price \in DOMAIN b.levels[s]
      PROVE  b.levels[s][price].total_quantity <= after.levels[s][price].total_quantity
  <2>1. b.levels[s][price].total_quantity \in Int
    BY <1>1 DEF Consistent, WellTyped, Level
  <2>2. CASE price = p
    BY <1>1, <1>3, <1>4, <1>5, <2>1, <2>2
  <2>3. CASE price # p
    BY <1>5, <2>1, <2>3
  <2> QED
    BY <2>2, <2>3
<1> QED
  BY <1>5, <1>6 DEF Grows, after

\* An order that is cancelled leaves its side with no more shares anywhere.
LEMMA CancelThins ==
  ASSUME NEW b, Consistent(b), NEW id \in DOMAIN b.locations
  PROVE  LET after == cancel_order(b, id)
             its == b.locations[id].side
         IN /\ its \in Sides
            /\ Grows(after, b, its)
            /\ \A side \in Sides : side # its => after.levels[side] = b.levels[side]
<1> DEFINE after == cancel_order(b, id)
           s == b.locations[id].side
           p == b.locations[id].price
           old == b.levels[s][p]
           new == LevelCancel(old, id)
           size == find(b, id).quantity
<1>1. /\ s \in Sides /\ p \in DOMAIN b.levels[s]
      /\ old \in Level /\ HasOrder(old, id) /\ WellTyped(b)
      /\ size \in Nat
  BY FindResting DEF Location, Consistent, Order
<1>2. after.levels = IF new.queue = <<>>
                     THEN [b.levels EXCEPT ![s] = Without(@, p)]
                     ELSE [b.levels EXCEPT ![s] = Put(@, p, new)]
  BY DEF cancel_order, contains, LeftLevel, WithLevel
<1>3. FindInLevel(old, id).quantity = size
  BY DEF find
<1> HIDE DEF after, old, s, p
<1>4. /\ new.total_quantity = old.total_quantity - size
      /\ old.total_quantity \in Int
  BY <1>1, <1>3 DEF LevelCancel, Level
<1>5. new.total_quantity <= old.total_quantity
  BY <1>1, <1>4
<1> HIDE DEF new, size
<1>6. DOMAIN b.levels = Sides
  BY <1>1 DEF WellTyped
<1>7. /\ \A side \in Sides : side # s => after.levels[side] = b.levels[side]
      /\ DOMAIN after.levels[s] \subseteq DOMAIN b.levels[s]
      /\ \A price \in DOMAIN after.levels[s] :
           after.levels[s][price] = IF price = p THEN new ELSE b.levels[s][price]
  <2>1. CASE new.queue = <<>>
    BY <1>1, <1>2, <1>6, <2>1 DEF Without
  <2>2. CASE new.queue # <<>>
    BY <1>1, <1>2, <1>6, <2>2 DEF Put
  <2> QED
    BY <2>1, <2>2
<1>8. ASSUME NEW price \in DOMAIN after.levels[s]
      PROVE  after.levels[s][price].total_quantity <= b.levels[s][price].total_quantity
  <2>1. b.levels[s][price].total_quantity \in Int
    BY <1>1, <1>7 DEF WellTyped, Level
  <2>2. CASE price = p
    BY <1>5, <1>7, <2>2 DEF old
  <2>3. CASE price # p
    BY <1>7, <2>1, <2>3
  <2> QED
    BY <2>2, <2>3
<1>9. Grows(after, b, s)
  BY <1>7, <1>8 DEF Grows
<1> QED
  BY <1>1, <1>7, <1>9 DEF after, s

\* Nor does a reduction in place add any.
LEMMA ReducedThins ==
  ASSUME NEW b, Consistent(b), NEW id \in DOMAIN b.locations, NEW new_quantity \in Nat \ {0}
  PROVE  LET after == Reduced(b, id, new_quantity)
             its == b.locations[id].side
         IN /\ its \in Sides
            /\ Grows(after, b, its)
            /\ \A side \in Sides : side # its => after.levels[side] = b.levels[side]
<1> DEFINE after == Reduced(b, id, new_quantity)
           s == b.locations[id].side
           p == b.locations[id].price
           old == b.levels[s][p]
           new == LevelReduce(old, id, new_quantity)
           size == find(b, id).quantity
<1>1. /\ s \in Sides /\ p \in DOMAIN b.levels[s]
      /\ old \in Level /\ HasOrder(old, id) /\ WellTyped(b)
      /\ size \in Nat
  BY FindResting DEF Location, Consistent, Order
<1>2. after.levels = [b.levels EXCEPT ![s] = Put(@, p, new)]
  BY DEF Reduced, WithLevel
<1>3. FindInLevel(old, id).quantity = size
  BY DEF find
<1> HIDE DEF after, old, s, p
<1>4. new.total_quantity <= old.total_quantity /\ old.total_quantity \in Int
  <2>1. old.total_quantity \in Int
    BY <1>1 DEF Level
  <2>2. CASE ~CanReduce(old, id, new_quantity)
    BY <2>1, <2>2 DEF LevelReduce
  <2>3. CASE CanReduce(old, id, new_quantity)
    <3>1. new_quantity <= size
      BY <1>3, <2>3 DEF CanReduce
    <3>2. new.total_quantity = old.total_quantity - (size - new_quantity)
      BY <1>1, <1>3, <2>3 DEF LevelReduce, Level
    <3> QED
      BY <1>1, <2>1, <3>1, <3>2
  <2> QED
    BY <2>1, <2>2, <2>3
<1> HIDE DEF new, size
<1>5. DOMAIN b.levels = Sides
  BY <1>1 DEF WellTyped
<1>6. /\ \A side \in Sides : side # s => after.levels[side] = b.levels[side]
      /\ DOMAIN after.levels[s] = DOMAIN b.levels[s]
      /\ \A price \in DOMAIN after.levels[s] :
           after.levels[s][price] = IF price = p THEN new ELSE b.levels[s][price]
  BY <1>1, <1>2, <1>5 DEF Put
<1>7. ASSUME NEW price \in DOMAIN after.levels[s]
      PROVE  after.levels[s][price].total_quantity <= b.levels[s][price].total_quantity
  <2>1. b.levels[s][price].total_quantity \in Int
    BY <1>1, <1>6 DEF WellTyped, Level
  <2>2. CASE price = p
    BY <1>4, <1>6, <2>2 DEF old
  <2>3. CASE price # p
    BY <1>6, <2>1, <2>3
  <2> QED
    BY <2>2, <2>3
<1>8. Grows(after, b, s)
  BY <1>6, <1>7 DEF Grows
<1> QED
  BY <1>1, <1>6, <1>8 DEF after, s

(***************************************************************************)
(* Sequences in order                                                      *)
(***************************************************************************)

\* Two enumerations of the same elements in the order of an asymmetric
\* relation are the same.
Asymmetric(R) == \A x, y : <<x, y>> \in R => <<y, x>> \notin R

InOrder(q, m, R) == \A i, j \in 1 .. m : i < j => <<q[i], q[j]>> \in R

Within(q, m, r, n) == \A i \in 1 .. m : \E j \in 1 .. n : r[j] = q[i]

LEMMA SortedUnique ==
  ASSUME NEW m \in Nat, NEW n \in Nat, NEW q, NEW r, NEW R, Asymmetric(R),
         InOrder(q, m, R), InOrder(r, n, R), Within(q, m, r, n), Within(r, n, q, m)
  PROVE  m = n /\ \A i \in 1 .. m : q[i] = r[i]
<1> USE DEF Asymmetric, InOrder, Within
<1> DEFINE Same(k) == \A i \in 1 .. k : i <= m /\ i <= n => q[i] = r[i]
           T == {k \in Nat : Same(k)}
<1>1. /\ \A i, j \in 1 .. m : q[i] = q[j] => i = j
      /\ \A i, j \in 1 .. n : r[i] = r[j] => i = j
  <2>1. ASSUME NEW i \in 1 .. m, NEW j \in 1 .. m, q[i] = q[j] PROVE i = j
    <3>1. i < j \/ j < i \/ i = j
      OBVIOUS
    <3> QED
      BY <2>1, <3>1
  <2>2. ASSUME NEW i \in 1 .. n, NEW j \in 1 .. n, r[i] = r[j] PROVE i = j
    <3>1. i < j \/ j < i \/ i = j
      OBVIOUS
    <3> QED
      BY <2>2, <3>1
  <2> QED
    BY <2>1, <2>2
<1>2. 0 \in T
  OBVIOUS
<1>3. ASSUME NEW k \in Nat, k \in T PROVE k + 1 \in T
  <2>0. Same(k)
    BY <1>3
  <2> SUFFICES ASSUME k + 1 <= m, k + 1 <= n PROVE q[k + 1] = r[k + 1]
    <3> SUFFICES ASSUME NEW i \in 1 .. k + 1, i <= m, i <= n PROVE q[i] = r[i]
      OBVIOUS
    <3>1. i \in 1 .. k \/ i = k + 1
      OBVIOUS
    <3> QED
      BY <2>0, <3>1
  <2> DEFINE next == k + 1
  <2>1. next \in 1 .. m /\ next \in 1 .. n
    BY <1>3
  <2>2. \A i \in 1 .. next - 1 : q[i] = r[i]
    BY <2>0
  <2> HIDE DEF next
  <2>3. PICK i \in 1 .. n : r[i] = q[next]
    BY <2>1
  <2>4. PICK j \in 1 .. m : q[j] = r[next]
    BY <2>1
  <2>5. i >= next
    <3>1. CASE i < next
      <4>1. i \in 1 .. next - 1 /\ i \in 1 .. m
        BY <2>1, <3>1
      <4> QED
        BY <1>1, <2>1, <2>2, <2>3, <3>1, <4>1
    <3> QED
      BY <2>1, <3>1
  <2>6. j >= next
    <3>1. CASE j < next
      <4>1. j \in 1 .. next - 1 /\ j \in 1 .. n
        BY <2>1, <3>1
      <4> QED
        BY <1>1, <2>1, <2>2, <2>4, <3>1, <4>1
    <3> QED
      BY <2>1, <3>1
  <2>7. CASE i = next
    BY <2>3, <2>7 DEF next
  <2>8. CASE j = next
    BY <2>4, <2>8 DEF next
  <2>9. CASE i > next /\ j > next
    <3>1. <<r[next], q[next]>> \in R
      BY <2>1, <2>3, <2>9
    <3>2. <<q[next], r[next]>> \in R
      BY <2>1, <2>4, <2>9
    <3> QED
      BY <3>1, <3>2
  <2> QED
    BY <2>1, <2>5, <2>6, <2>7, <2>8, <2>9
<1>4. \A k \in Nat : Same(k)
  <2> HIDE DEF Same
  <2>1. Nat \subseteq T
    BY <1>2, <1>3, AllNaturals
  <2> QED
    BY <2>1
<1>5. \A i \in 1 .. m : i <= n => q[i] = r[i]
  <2> SUFFICES ASSUME NEW i \in 1 .. m, i <= n PROVE q[i] = r[i]
    OBVIOUS
  <2>1. Same(m)
    BY <1>4
  <2> QED
    BY <2>1
<1>6. ~(m < n)
  <2> SUFFICES ASSUME m < n PROVE FALSE
    OBVIOUS
  <2>1. m + 1 \in 1 .. n
    OBVIOUS
  <2>2. PICK i \in 1 .. m : q[i] = r[m + 1]
    BY <2>1
  <2>3. r[i] = r[m + 1] /\ i \in 1 .. n
    BY <1>5, <2>2
  <2> QED
    BY <1>1, <2>1, <2>3
<1>7. ~(n < m)
  <2> SUFFICES ASSUME n < m PROVE FALSE
    OBVIOUS
  <2>1. n + 1 \in 1 .. m
    OBVIOUS
  <2>2. PICK i \in 1 .. n : r[i] = q[n + 1]
    BY <2>1
  <2>3. q[i] = q[n + 1] /\ i \in 1 .. m
    BY <1>5, <2>2
  <2> QED
    BY <1>1, <2>1, <2>3
<1> HIDE DEF Asymmetric, InOrder, Within, Same, T
<1>8. m = n
  BY <1>6, <1>7
<1>9. \A i \in 1 .. m : q[i] = r[i]
  BY <1>5, <1>8
<1> QED
  BY <1>8, <1>9

\* A set of positions with all those before each is an initial segment.
LEMMA InitialSegment ==
  ASSUME NEW n \in Nat, NEW S \in SUBSET (1 .. n),
         \A i \in S : \A j \in 1 .. n : j < i => j \in S
  PROVE  /\ Cardinality(S) \in 0 .. n
         /\ \A i \in 1 .. n : i \in S <=> i <= Cardinality(S)
<1> DEFINE Out == (1 .. n + 1) \ S
<1>1. n + 1 \in Out /\ Out \in SUBSET Nat
  OBVIOUS
<1>2. PICK k \in Out : \A j \in Out : k <= j
  BY <1>1, LeastNatural
<1>3. S = 1 .. k - 1
  <2>1. ASSUME NEW i \in 1 .. k - 1 PROVE i \in S
    BY <1>1, <1>2, <2>1
  <2>2. ASSUME NEW i \in S PROVE i \in 1 .. k - 1
    <3>1. k \in 1 .. n + 1 /\ k \notin S /\ i \in 1 .. n
      BY <1>2
    <3>2. ~(k < i) /\ k # i
      <4>1. k < i => k \in 1 .. n
        BY <3>1
      <4> QED
        BY <3>1, <4>1
    <3> QED
      BY <3>1, <3>2
  <2> QED
    BY <2>1, <2>2
<1>4. k - 1 \in 0 .. n
  BY <1>1, <1>2
<1>5. Cardinality(S) = k - 1
  BY <1>3, <1>4, FS_Interval
<1> QED
  BY <1>3, <1>4, <1>5

\* InsertAt puts the new element at its position and shifts those behind it.
LEMMA InsertAtQueue ==
  ASSUME NEW S, NEW s \in Seq(S), NEW n \in 1 .. Len(s) + 1, NEW e \in S
  PROVE  /\ InsertAt(s, n, e) \in Seq(S)
         /\ Len(InsertAt(s, n, e)) = Len(s) + 1
         /\ \A i \in 1 .. Len(s) + 1 :
              InsertAt(s, n, e)[i] = IF i < n THEN s[i] ELSE IF i = n THEN e ELSE s[i - 1]
<1> DEFINE front == SubSeq(s, 1, n - 1)
           one == <<e>>
           back == SubSeq(s, n, Len(s))
<1>0. Len(s) \in Nat /\ \A i \in 1 .. Len(s) : s[i] \in S
  BY LenProperties, ElementOfSeq
<1>1. /\ front \in Seq(S) /\ Len(front) = n - 1
      /\ \A i \in 1 .. n - 1 : front[i] = s[i]
  <2>1. \A i \in 1 .. n - 1 : s[i] \in S
    BY <1>0
  <2>2. /\ front \in Seq(S)
        /\ Len(front) = IF 1 <= n - 1 THEN (n - 1) - 1 + 1 ELSE 0
        /\ \A i \in 1 .. (n - 1) - 1 + 1 : front[i] = s[1 + i - 1]
    BY <1>0, <2>1, SubSeqProperties
  <2> HIDE DEF front
  <2> QED
    BY <1>0, <2>2
<1>2. /\ back \in Seq(S) /\ Len(back) = Len(s) - n + 1
      /\ \A i \in 1 .. Len(s) - n + 1 : back[i] = s[n + i - 1]
  <2>1. \A i \in n .. Len(s) : s[i] \in S
    BY <1>0
  <2>2. /\ back \in Seq(S)
        /\ Len(back) = IF n <= Len(s) THEN Len(s) - n + 1 ELSE 0
        /\ \A i \in 1 .. Len(s) - n + 1 : back[i] = s[n + i - 1]
    BY <1>0, <2>1, SubSeqProperties
  <2> HIDE DEF back
  <2> QED
    BY <1>0, <2>2
<1>3. one \in Seq(S) /\ Len(one) = 1 /\ one[1] = e
  OBVIOUS
<1>4. InsertAt(s, n, e) = (front \o one) \o back
  BY DEF InsertAt
<1> HIDE DEF front, one, back
<1> DEFINE head == front \o one
<1>5. /\ head \in Seq(S) /\ Len(head) = n
      /\ \A i \in 1 .. n : head[i] = IF i < n THEN s[i] ELSE e
  <2>1. /\ head \in Seq(S)
        /\ Len(head) = Len(front) + Len(one)
        /\ \A i \in 1 .. Len(front) + Len(one) :
             head[i] = IF i <= Len(front) THEN front[i] ELSE one[i - Len(front)]
    BY <1>1, <1>3, ConcatProperties
  <2>2. Len(front) + Len(one) = n
    BY <1>0, <1>1, <1>3
  <2> HIDE DEF head
  <2>3. ASSUME NEW i \in 1 .. n PROVE head[i] = IF i < n THEN s[i] ELSE e
    <3>1. CASE i < n
      BY <1>0, <1>1, <2>1, <2>2, <3>1
    <3>2. CASE i = n
      BY <1>0, <1>1, <1>3, <2>1, <2>2, <3>2
    <3> QED
      BY <1>0, <3>1, <3>2
  <2> QED
    BY <2>1, <2>2, <2>3
<1> HIDE DEF head
<1>6. /\ head \o back \in Seq(S)
      /\ Len(head \o back) = Len(head) + Len(back)
      /\ \A i \in 1 .. Len(head) + Len(back) :
           (head \o back)[i] = IF i <= Len(head) THEN head[i] ELSE back[i - Len(head)]
  BY <1>2, <1>5, ConcatProperties
<1>7. Len(head) + Len(back) = Len(s) + 1
  BY <1>0, <1>2, <1>5
<1>8. ASSUME NEW i \in 1 .. Len(s) + 1
      PROVE  (head \o back)[i] = IF i < n THEN s[i] ELSE IF i = n THEN e ELSE s[i - 1]
  <2>1. CASE i <= n
    BY <1>0, <1>5, <1>6, <1>7, <2>1
  <2>2. CASE ~(i <= n)
    <3>1. (head \o back)[i] = back[i - n]
      BY <1>0, <1>5, <1>6, <1>7, <2>2
    <3>2. i - n \in 1 .. Len(s) - n + 1 /\ n + (i - n) - 1 = i - 1
      BY <1>0, <2>2
    <3> QED
      BY <1>0, <1>2, <2>2, <3>1, <3>2
  <2> QED
    BY <2>1, <2>2
<1> QED
  BY <1>4, <1>6, <1>7, <1>8 DEF head

\* The recursive function by which FlattenSeq appends one sequence after the
\* other.
Flattens(flatten, seqs) ==
  flatten = [i \in 1 .. Len(seqs) |-> IF i = 1 THEN seqs[i] ELSE flatten[i - 1] \o seqs[i]]

LEMMA FlattenSteps ==
  ASSUME NEW seqs, Len(seqs) \in Nat
  PROVE  \E flatten : /\ Flattens(flatten, seqs)
                      /\ Len(seqs) # 0 => FlattenSeq(seqs) = flatten[Len(seqs)]
<1> DEFINE Upto(k, g) ==
             g = [i \in 1 .. k |-> IF i = 1 THEN seqs[i] ELSE g[i - 1] \o seqs[i]]
           T == {k \in Nat : \E g : Upto(k, g)}
<1>1. 0 \in T
  <2>1. Upto(0, [i \in 1 .. 0 |-> 0])
    OBVIOUS
  <2> QED
    BY <2>1
<1>2. ASSUME NEW k \in Nat, k \in T PROVE k + 1 \in T
  <2>1. PICK g : Upto(k, g)
    BY <1>2
  <2> DEFINE h == [i \in 1 .. k + 1 |-> IF i = 1 THEN seqs[i]
                                        ELSE IF i = k + 1 THEN g[i - 1] \o seqs[i]
                                        ELSE g[i]]
             longer == [i \in 1 .. k + 1 |-> IF i = 1 THEN seqs[i] ELSE h[i - 1] \o seqs[i]]
  <2>2. \A i \in 1 .. k : h[i] = g[i]
    BY <2>1
  <2>3. \A i \in 1 .. k + 1 : longer[i] = h[i]
    <3> SUFFICES ASSUME NEW i \in 1 .. k + 1 PROVE longer[i] = h[i]
      OBVIOUS
    <3>1. CASE i = 1
      BY <3>1
    <3>2. CASE i # 1
      <4>1. i - 1 \in 1 .. k /\ h[i - 1] = g[i - 1]
        <5> HIDE DEF h
        <5>1. i - 1 \in 1 .. k
          BY <3>2
        <5> QED
          BY <2>2, <5>1
      <4>2. longer[i] = g[i - 1] \o seqs[i]
        BY <3>2, <4>1
      <4>3. CASE i = k + 1
        BY <3>2, <4>2, <4>3
      <4>4. CASE i # k + 1
        <5>1. i \in 1 .. k
          BY <4>4
        <5>2. h[i] = g[i] /\ g[i] = g[i - 1] \o seqs[i]
          BY <2>1, <2>2, <3>2, <5>1
        <5> QED
          BY <4>2, <5>2
      <4> QED
        BY <4>3, <4>4
    <3> QED
      BY <3>1, <3>2
  <2>4. DOMAIN longer = DOMAIN h
    OBVIOUS
  <2>5. longer = [i \in 1 .. k + 1 |-> longer[i]] /\ h = [i \in 1 .. k + 1 |-> h[i]]
    OBVIOUS
  <2>6. h = longer
    <3> HIDE DEF h, longer
    <3> QED
      BY <2>3, <2>5
  <2>7. Upto(k + 1, h)
    BY <2>6
  <2> HIDE DEF Upto, h
  <2>8. \E e : Upto(k + 1, e)
    BY <2>7
  <2> QED
    BY <2>8
<1>3. \E g : Flattens(g, seqs)
  <2> HIDE DEF T
  <2>1. Nat \subseteq T
    BY <1>1, <1>2, AllNaturals
  <2> QED
    BY <2>1 DEF T, Flattens
<1> DEFINE flatten == CHOOSE g : Flattens(g, seqs)
<1>4. Flattens(flatten, seqs)
  BY <1>3
<1>5. Len(seqs) # 0 => FlattenSeq(seqs) = flatten[Len(seqs)]
  BY DEF FlattenSeq, Flattens
<1> QED
  BY <1>4, <1>5

(***************************************************************************)
(* The book as two priority queues                                         *)
(*                                                                         *)
(* snapshot() of a side is the one sequence that lists its orders in       *)
(* price-time priority.  An operation of the abstract queues is the book's *)
(* when what it makes of that sequence lists the book that is left behind. *)
(***************************************************************************)

Queues == INSTANCE PriorityQueues

\* id rests at a better price than the other, or before it in one queue.
Precedes(b, id, other) ==
  \/ Better(b.locations[id].side, b.locations[id].price, b.locations[other].price)
  \/ b.locations[id] = b.locations[other] /\ Place(b, id) < Place(b, other)

\* q has the orders of this side at the prices P, in price-time priority.
Lists(q, b, side, P) ==
  /\ q \in Seq(Order)
  /\ \A i \in 1 .. Len(q) :
       /\ q[i].id \in DOMAIN b.locations
       /\ find(b, q[i].id) = q[i]
       /\ b.locations[q[i].id].side = side
       /\ b.locations[q[i].id].price \in P
  /\ \A id \in DOMAIN b.locations :
       b.locations[id].side = side /\ b.locations[id].price \in P =>
         \E i \in 1 .. Len(q) : q[i].id = id
  /\ \A i, j \in 1 .. Len(q) : i < j => Precedes(b, q[i].id, q[j].id)

\* What the index and the queues say of one resting order.
LEMMA RestingOrder ==
  ASSUME NEW b, Consistent(b), NEW id \in DOMAIN b.locations
  PROVE  /\ b.locations[id].side \in Sides
         /\ b.locations[id].price \in Prices
         /\ b.locations[id].price \in Int
         /\ b.locations[id].price \in DOMAIN b.levels[b.locations[id].side]
         /\ find(b, id) \in Order
         /\ find(b, id).id = id
         /\ find(b, id).side = b.locations[id].side
         /\ find(b, id).price = b.locations[id].price
         /\ Place(b, id) \in Nat \ {0}
<1>1. /\ b.locations[id] \in Location
      /\ b.locations[id].price \in DOMAIN b.levels[b.locations[id].side]
      /\ find(b, id) \in Order
      /\ find(b, id).id = id
      /\ find(b, id).side = b.locations[id].side
      /\ find(b, id).price = b.locations[id].price
  BY FindResting
<1> DEFINE level == b.levels[b.locations[id].side][b.locations[id].price]
<1>2. level \in Level /\ HasOrder(level, id)
  BY FindResting
<1>3. Place(b, id) \in Positions(level)
  BY <1>2, PositionOfHeld DEF Place
<1>4. Place(b, id) \in Nat \ {0}
  <2> HIDE DEF level
  <2>1. Len(level.queue) \in Nat
    BY <1>2, QueuedSize
  <2> QED
    BY <1>3, <2>1 DEF Positions
<1> QED
  BY <1>1, <1>4, PricesAssumption DEF Location

LEMMA PrecedesAsymmetric ==
  ASSUME NEW b, Consistent(b), NEW id \in DOMAIN b.locations, NEW other \in DOMAIN b.locations,
         b.locations[id].side = b.locations[other].side, Precedes(b, id, other)
  PROVE  ~Precedes(b, other, id)
<1>1. /\ b.locations[id].price \in Int /\ Place(b, id) \in Nat
      /\ b.locations[other].price \in Int /\ Place(b, other) \in Nat
  BY RestingOrder
<1> QED
  BY <1>1 DEF Precedes, Better

\* Only one sequence lists the orders of a side.
LEMMA ListsOnce ==
  ASSUME NEW b, Consistent(b), NEW side, NEW P, NEW q, Lists(q, b, side, P),
         NEW r, Lists(r, b, side, P)
  PROVE  q = r
<1> DEFINE D == {id \in DOMAIN b.locations : b.locations[id].side = side}
           R == {pair \in D \X D : Precedes(b, pair[1], pair[2])}
           qs == [i \in 1 .. Len(q) |-> q[i].id]
           rs == [i \in 1 .. Len(r) |-> r[i].id]
<1>1. Len(q) \in Nat /\ Len(r) \in Nat /\ q \in Seq(Order) /\ r \in Seq(Order)
  BY LenProperties DEF Lists
<1>2. \A x, y : <<x, y>> \in R => <<y, x>> \notin R
  <2> SUFFICES ASSUME NEW x, NEW y, <<x, y>> \in R, <<y, x>> \in R PROVE FALSE
    OBVIOUS
  <2>1. x \in D /\ y \in D /\ Precedes(b, x, y) /\ Precedes(b, y, x)
    OBVIOUS
  <2> QED
    BY <2>1, PrecedesAsymmetric
<1>3. \A x, y : <<x, y>> \in R <=> x \in D /\ y \in D /\ Precedes(b, x, y)
  OBVIOUS
<1>4. /\ \A i \in 1 .. Len(q) : qs[i] \in D
      /\ \A i \in 1 .. Len(r) : rs[i] \in D
  BY DEF Lists
<1>5. /\ \A i, j \in 1 .. Len(q) : i < j => Precedes(b, qs[i], qs[j])
      /\ \A i, j \in 1 .. Len(r) : i < j => Precedes(b, rs[i], rs[j])
  BY DEF Lists
<1>6. /\ \A i \in 1 .. Len(q) : \E j \in 1 .. Len(r) : rs[j] = qs[i]
      /\ \A j \in 1 .. Len(r) : \E i \in 1 .. Len(q) : qs[i] = rs[j]
  BY DEF Lists
<1>7. /\ \A i \in 1 .. Len(q) : find(b, qs[i]) = q[i]
      /\ \A i \in 1 .. Len(r) : find(b, rs[i]) = r[i]
  BY DEF Lists
<1> HIDE DEF D, R, qs, rs
<1>8. /\ \A i, j \in 1 .. Len(q) : i < j => <<qs[i], qs[j]>> \in R
      /\ \A i, j \in 1 .. Len(r) : i < j => <<rs[i], rs[j]>> \in R
  BY <1>3, <1>4, <1>5
<1> DEFINE m == Len(q)
           n == Len(r)
<1>9. m = n /\ \A i \in 1 .. m : qs[i] = rs[i]
  <2>1. m \in Nat /\ n \in Nat
    BY <1>1
  <2>2. Asymmetric(R) /\ InOrder(qs, m, R) /\ InOrder(rs, n, R)
    BY <1>2, <1>8 DEF Asymmetric, InOrder
  <2>3. Within(qs, m, rs, n) /\ Within(rs, n, qs, m)
    BY <1>6 DEF Within
  <2> HIDE DEF m, n
  <2> QED
    BY <2>1, <2>2, <2>3, SortedUnique
<1>10. \A i \in 1 .. Len(q) : q[i] = r[i]
  BY <1>7, <1>9
<1> QED
  BY <1>1, <1>9, <1>10, SeqEqual

\* The queue of the next price goes behind what is listed already.
LEMMA ListsNext ==
  ASSUME NEW b, Consistent(b), NEW side \in Sides, NEW P, NEW q, Lists(q, b, side, P),
         NEW p \in DOMAIN b.levels[side], \A better \in P : Better(side, better, p)
  PROVE  Lists(q \o b.levels[side][p].queue, b, side, P \cup {p})
<1> DEFINE queue == b.levels[side][p].queue
           both == q \o queue
           m == Len(q)
           n == Len(queue)
<1>1. /\ q \in Seq(Order) /\ m \in Nat
      /\ \A i \in 1 .. m : /\ q[i].id \in DOMAIN b.locations
                           /\ find(b, q[i].id) = q[i]
                           /\ b.locations[q[i].id].side = side
                           /\ b.locations[q[i].id].price \in P
      /\ \A i, j \in 1 .. m : i < j => Precedes(b, q[i].id, q[j].id)
  BY LenProperties DEF Lists
<1>2. queue \in Seq(Order) /\ n \in Nat
  <2>1. b.levels[side][p] \in Level
    BY DEF Consistent, WellTyped
  <2> QED
    BY <2>1, LenProperties DEF Level
<1>3. \A i \in 1 .. n : StandsAt(b, side, p, queue[i], i)
  BY DEF StandsAt, Positions
<1> HIDE DEF queue, both, m, n
<1>4. \A i \in 1 .. n : /\ queue[i].id \in DOMAIN b.locations
                        /\ find(b, queue[i].id) = queue[i]
                        /\ b.locations[queue[i].id] = [side |-> side, price |-> p]
                        /\ Place(b, queue[i].id) = i
  <2> SUFFICES ASSUME NEW i \in 1 .. n
               PROVE  /\ queue[i].id \in DOMAIN b.locations
                      /\ find(b, queue[i].id) = queue[i]
                      /\ b.locations[queue[i].id] = [side |-> side, price |-> p]
                      /\ Place(b, queue[i].id) = i
    OBVIOUS
  <2> QED
    BY <1>3, FoundAt
<1>5. /\ both \in Seq(Order) /\ Len(both) = m + n
      /\ \A i \in 1 .. m + n : both[i] = IF i <= m THEN q[i] ELSE queue[i - m]
  BY <1>1, <1>2, ConcatProperties DEF both, m, n
<1>6. \A i \in 1 .. m + n : i <= m \/ i - m \in 1 .. n
  BY <1>1, <1>2
<1>7. ASSUME NEW i \in 1 .. m + n
      PROVE  /\ both[i].id \in DOMAIN b.locations
             /\ find(b, both[i].id) = both[i]
             /\ b.locations[both[i].id].side = side
             /\ b.locations[both[i].id].price \in P \cup {p}
  <2>1. CASE i <= m
    <3>1. i \in 1 .. m /\ both[i] = q[i]
      BY <1>1, <1>2, <1>5, <2>1
    <3> QED
      BY <1>1, <3>1
  <2>2. CASE ~(i <= m)
    <3>1. i - m \in 1 .. n /\ both[i] = queue[i - m]
      BY <1>1, <1>2, <1>5, <1>6, <2>2
    <3> QED
      BY <1>4, <3>1
  <2> QED
    BY <2>1, <2>2
<1>8. ASSUME NEW id \in DOMAIN b.locations, b.locations[id].side = side,
             b.locations[id].price \in P \cup {p}
      PROVE  \E i \in 1 .. m + n : both[i].id = id
  <2>1. CASE b.locations[id].price \in P
    <3>1. PICK i \in 1 .. Len(q) : q[i].id = id
      BY <1>8, <2>1 DEF Lists
    <3>2. i \in 1 .. m + n /\ both[i].id = id
      BY <1>1, <1>2, <1>5, <3>1 DEF m
    <3> QED
      BY <3>2
  <2>2. CASE b.locations[id].price = p
    <3>1. PICK i : i \in 1 .. n /\ queue[i].id = id
      <4>1. StandsAt(b, side, p, find(b, id), Place(b, id)) /\ find(b, id).id = id
        BY <1>8, <2>2, Standing
      <4> QED
        BY <4>1 DEF StandsAt, Positions, queue, n
    <3>2. m + i \in 1 .. m + n /\ (m + i) - m = i /\ ~(m + i <= m)
      BY <1>1, <1>2, <3>1
    <3>3. both[m + i].id = id
      BY <1>5, <3>1, <3>2
    <3> QED
      BY <3>2, <3>3
  <2> QED
    BY <1>8, <2>1, <2>2
<1>9. ASSUME NEW i \in 1 .. m + n, NEW j \in 1 .. m + n, i < j
      PROVE  Precedes(b, both[i].id, both[j].id)
  <2>1. CASE j <= m
    <3>1. i \in 1 .. m /\ j \in 1 .. m /\ both[i] = q[i] /\ both[j] = q[j]
      BY <1>1, <1>2, <1>5, <1>9, <2>1
    <3> QED
      BY <1>1, <1>9, <3>1
  <2>2. CASE i <= m /\ ~(j <= m)
    <3>1. /\ i \in 1 .. m /\ both[i] = q[i]
          /\ j - m \in 1 .. n /\ both[j] = queue[j - m]
      BY <1>1, <1>2, <1>5, <1>6, <2>2
    <3>2. /\ b.locations[q[i].id].side = side
          /\ Better(side, b.locations[q[i].id].price, p)
      BY <1>1, <3>1
    <3>3. b.locations[queue[j - m].id].price = p
      BY <1>4, <3>1
    <3> QED
      BY <3>1, <3>2, <3>3 DEF Precedes
  <2>3. CASE ~(i <= m)
    <3>1. /\ i - m \in 1 .. n /\ both[i] = queue[i - m]
          /\ j - m \in 1 .. n /\ both[j] = queue[j - m]
          /\ i - m < j - m
      BY <1>1, <1>2, <1>5, <1>6, <1>9, <2>3
    <3>2. /\ b.locations[queue[i - m].id] = b.locations[queue[j - m].id]
          /\ Place(b, queue[i - m].id) < Place(b, queue[j - m].id)
      BY <1>4, <3>1
    <3> QED
      BY <3>1, <3>2 DEF Precedes
  <2> QED
    BY <1>1, <1>2, <1>9, <2>1, <2>2, <2>3
<1>10. Lists(both, b, side, P \cup {p})
  BY <1>5, <1>7, <1>8, <1>9 DEF Lists
<1> QED
  BY <1>10 DEF both, queue

\* The prices of a side's levels are all prices it has orders at.
LEMMA ListsAll ==
  ASSUME NEW b, Consistent(b), NEW side \in Sides, NEW S, S = DOMAIN b.levels[side],
         NEW q, Lists(q, b, side, S)
  PROVE  Lists(q, b, side, Prices)
<1>1. S \subseteq Prices
  BY DEF Consistent, WellTyped
<1>2. \A id \in DOMAIN b.locations : b.locations[id].side = side => b.locations[id].price \in S
  BY RestingOrder
<1> QED
  BY <1>1, <1>2 DEF Lists

\* snapshot() lists the orders of its side.
LEMMA SnapshotLists ==
  ASSUME NEW b, Consistent(b), NEW side \in Sides, IsFiniteSet(DOMAIN b.levels[side])
  PROVE  Lists(PriorityQueue(b, side), b, side, Prices)
<1> DEFINE S == DOMAIN b.levels[side]
           n == Cardinality(S)
           ladder == PriceLadder(b, side)
           seqs == [k \in DOMAIN ladder |-> b.levels[side][ladder[k]].queue]
           Top(k) == {ladder[j] : j \in 1 .. k}
<1>1. S \subseteq Prices /\ S \subseteq Int
  BY PricesAssumption DEF Consistent, WellTyped
<1>2. /\ n \in Nat /\ DOMAIN ladder = 1 .. n
      /\ \A k \in 1 .. n : ladder[k] \in S
      /\ \A j, k \in 1 .. n : j < k => Better(side, ladder[j], ladder[k])
      /\ \A p \in S : \E k \in 1 .. n : ladder[k] = p
  <2>1. Ladder(ladder, side, S)
    BY <1>1, LadderSorts
  <2> QED
    BY <2>1 DEF Ladder
<1>3. PriorityQueue(b, side) = FlattenSeq(seqs)
  BY DEF PriorityQueue
<1> HIDE DEF ladder
<1>4. Len(seqs) = n /\ \A k \in 1 .. n : seqs[k] = b.levels[side][ladder[k]].queue
  BY <1>2
<1> HIDE DEF n, seqs
<1>5. Lists(<<>>, b, side, {})
  BY EmptySeq DEF Lists
<1>6. CASE n = 0
  <2>1. S = {}
    BY <1>2, <1>6
  <2>2. seqs = <<>>
    BY <1>2, <1>6 DEF seqs
  <2>3. FlattenSeq(seqs) = <<>>
    BY <1>4, <1>6, <2>2 DEF FlattenSeq
  <2>4. Lists(PriorityQueue(b, side), b, side, S)
    BY <1>3, <1>5, <2>1, <2>3
  <2> QED
    BY <1>1, <2>4, ListsAll
<1>7. CASE n # 0
  <2>1. PICK flatten : /\ Flattens(flatten, seqs)
                       /\ Len(seqs) # 0 => FlattenSeq(seqs) = flatten[Len(seqs)]
    BY <1>2, <1>4, FlattenSteps
  <2>2. \A k \in 1 .. n :
          flatten[k] = IF k = 1 THEN b.levels[side][ladder[k]].queue
                       ELSE flatten[k - 1] \o b.levels[side][ladder[k]].queue
    BY <1>4, <2>1 DEF Flattens
  <2> DEFINE Done(k) == Lists(flatten[k], b, side, Top(k))
             T == {k \in Nat : k \in 1 .. n => Done(k)}
  <2>3. 0 \in T
    OBVIOUS
  <2>4. ASSUME NEW k \in Nat, k \in T PROVE k + 1 \in T
    <3> SUFFICES ASSUME k + 1 \in 1 .. n PROVE Done(k + 1)
      OBVIOUS
    <3> DEFINE p == ladder[k + 1]
    <3>1. p \in S /\ \A j \in 1 .. k : Better(side, ladder[j], p)
      BY <1>2
    <3>2. Top(k + 1) = Top(k) \cup {p}
      <4>1. \A j : j \in 1 .. k + 1 <=> j \in 1 .. k \/ j = k + 1
        OBVIOUS
      <4> QED
        BY <4>1
    <3>3. \A better \in Top(k) : Better(side, better, p)
      BY <3>1
    <3>4. CASE k = 0
      <4>1. Top(k) = {}
        BY <3>4
      <4>2. flatten[k + 1] = b.levels[side][p].queue
        BY <2>2, <3>4
      <4>3. b.levels[side][p].queue \in Seq(Order)
        BY <3>1 DEF Consistent, WellTyped, Level
      <4> DEFINE queue == b.levels[side][p].queue
      <4> HIDE DEF p, Top
      <4>4. Lists(<<>> \o queue, b, side, {} \cup {p})
        BY <1>5, <3>1, ListsNext
      <4>5. <<>> \o queue = queue
        BY <4>3, ConcatEmptySeq
      <4>6. {} \cup {p} = Top(k + 1)
        BY <3>2, <4>1
      <4> QED
        BY <4>2, <4>4, <4>5, <4>6
    <3>5. CASE k # 0
      <4>1. k \in 1 .. n /\ k + 1 # 1 /\ (k + 1) - 1 = k
        BY <1>2, <3>5
      <4>2. flatten[k + 1] = flatten[k] \o b.levels[side][p].queue
        BY <2>2, <4>1
      <4>3. Done(k)
        BY <2>4, <4>1
      <4> DEFINE q == flatten[k]
                 P == Top(k)
      <4>4. Lists(q, b, side, P) /\ \A better \in P : Better(side, better, p)
        BY <3>3, <4>3
      <4> HIDE DEF p, P, q
      <4>5. Lists(q \o b.levels[side][p].queue, b, side, P \cup {p})
        BY <3>1, <4>4, ListsNext
      <4> QED
        BY <3>2, <4>2, <4>5 DEF P, q
    <3> QED
      BY <3>4, <3>5
  <2>5. Done(n)
    <3> HIDE DEF Done, T
    <3>1. Nat \subseteq T
      BY <2>3, <2>4, AllNaturals
    <3> QED
      BY <1>2, <1>7, <3>1 DEF T
  <2>6. Top(n) = S
    BY <1>2
  <2>7. PriorityQueue(b, side) = flatten[n]
    BY <1>3, <1>4, <1>7, <2>1
  <2>8. Lists(PriorityQueue(b, side), b, side, S)
    BY <2>5, <2>6, <2>7
  <2> QED
    BY <1>1, <2>8, ListsAll
<1> QED
  BY <1>6, <1>7

\* Two orders stay as they are to each other when their places and the
\* index's entries for them do.
LEMMA PrecedesKept ==
  ASSUME NEW b, NEW after, NEW id, NEW other, Precedes(b, id, other),
         after.locations[id] = b.locations[id], Place(after, id) = Place(b, id),
         after.locations[other] = b.locations[other], Place(after, other) = Place(b, other)
  PROVE  Precedes(after, id, other)
BY DEF Precedes

\* What a sequence that lists a side says of its elements.
LEMMA Listed ==
  ASSUME NEW b, Consistent(b), NEW side, NEW P, NEW q, Lists(q, b, side, P)
  PROVE  /\ q \in Seq(Order) /\ Len(q) \in Nat /\ DOMAIN q = 1 .. Len(q)
         /\ \A i \in 1 .. Len(q) :
              /\ q[i].id \in DOMAIN b.locations
              /\ q[i] = find(b, q[i].id)
              /\ q[i].price = b.locations[q[i].id].price
              /\ q[i].price \in Int
              /\ b.locations[q[i].id].side = side
         /\ \A i, j \in 1 .. Len(q) : q[i].id = q[j].id => i = j
<1>1. q \in Seq(Order) /\ Len(q) \in Nat /\ DOMAIN q = 1 .. Len(q)
  BY LenProperties DEF Lists
<1>2. ASSUME NEW i \in 1 .. Len(q)
      PROVE  /\ q[i].id \in DOMAIN b.locations
             /\ q[i] = find(b, q[i].id)
             /\ q[i].price = b.locations[q[i].id].price
             /\ q[i].price \in Int
             /\ b.locations[q[i].id].side = side
  <2> DEFINE id == q[i].id
  <2>1. id \in DOMAIN b.locations /\ q[i] = find(b, id) /\ b.locations[id].side = side
    BY DEF Lists
  <2> HIDE DEF id
  <2>2. find(b, id).price = b.locations[id].price /\ b.locations[id].price \in Int
    BY <2>1, RestingOrder
  <2> QED
    BY <2>1, <2>2 DEF id
<1>3. \A i, j \in 1 .. Len(q) : i < j => q[i].id # q[j].id
  <2> SUFFICES ASSUME NEW i \in 1 .. Len(q), NEW j \in 1 .. Len(q), i < j, q[i].id = q[j].id
               PROVE  FALSE
    OBVIOUS
  <2>1. Precedes(b, q[i].id, q[i].id)
    BY DEF Lists
  <2> QED
    BY <1>2, <2>1, PrecedesAsymmetric
<1>4. \A i, j \in 1 .. Len(q) : i < j \/ j < i \/ i = j
  BY <1>1
<1> QED
  BY <1>1, <1>2, <1>3, <1>4

\* A side that an operation does not touch is listed as before.
LEMMA ListsKept ==
  ASSUME NEW b, NEW side, NEW q, Lists(q, b, side, Prices), NEW after,
         \A id \in DOMAIN b.locations : b.locations[id].side = side =>
           /\ id \in DOMAIN after.locations
           /\ after.locations[id] = b.locations[id]
           /\ find(after, id) = find(b, id)
           /\ Place(after, id) = Place(b, id),
         \A id \in DOMAIN after.locations : after.locations[id].side = side =>
           id \in DOMAIN b.locations /\ b.locations[id] = after.locations[id]
  PROVE  Lists(q, after, side, Prices)
<1>1. \A i \in 1 .. Len(q) :
        /\ q[i].id \in DOMAIN b.locations
        /\ find(b, q[i].id) = q[i]
        /\ b.locations[q[i].id].side = side
        /\ b.locations[q[i].id].price \in Prices
  BY DEF Lists
<1>2. ASSUME NEW i \in 1 .. Len(q), NEW j \in 1 .. Len(q), i < j
      PROVE  Precedes(after, q[i].id, q[j].id)
  <2>1. Precedes(b, q[i].id, q[j].id)
    BY <1>2 DEF Lists
  <2> QED
    BY <1>1, <2>1, PrecedesKept
<1>3. \A i \in 1 .. Len(q) :
        /\ q[i].id \in DOMAIN after.locations
        /\ find(after, q[i].id) = q[i]
        /\ after.locations[q[i].id].side = side
        /\ after.locations[q[i].id].price \in Prices
  BY <1>1
<1>4. ASSUME NEW id \in DOMAIN after.locations,
             after.locations[id].side = side, after.locations[id].price \in Prices
      PROVE  \E i \in 1 .. Len(q) : q[i].id = id
  BY <1>4 DEF Lists
<1>5. q \in Seq(Order)
  BY DEF Lists
<1> QED
  BY <1>2, <1>3, <1>4, <1>5 DEF Lists

\* The index after insert_order.
LEMMA InsertLocations ==
  ASSUME NEW b, NEW order, ~contains(b, order.id), NEW after, after = insert_order(b, order)
  PROVE  /\ DOMAIN after.locations = DOMAIN b.locations \cup {order.id}
         /\ after.locations[order.id] = [side |-> order.side, price |-> order.price]
         /\ \A id \in DOMAIN b.locations :
              id # order.id /\ after.locations[id] = b.locations[id]
BY DEF insert_order, contains, Emplace, Put

\* The abstract queue takes a new order in where the book queues it: behind
\* the orders at its price and at better ones.
LEMMA InsertLists ==
  ASSUME NEW b, Consistent(b), NEW order \in Order, ~contains(b, order.id),
         NEW q, Lists(q, b, order.side, Prices),
         NEW ahead, ahead = {i \in DOMAIN q : ~Better(order.side, order.price, q[i].price)}
  PROVE  Lists(InsertAt(q, Cardinality(ahead) + 1, order),
               insert_order(b, order), order.side, Prices)
<1> DEFINE after == insert_order(b, order)
           side == order.side
           c == Cardinality(ahead)
           n == Len(q)
           w == InsertAt(q, c + 1, order)
           From(i) == IF i <= c THEN i ELSE i - 1
<1>1. /\ q \in Seq(Order) /\ n \in Nat /\ DOMAIN q = 1 .. n
      /\ \A i \in 1 .. n :
           /\ q[i].id \in DOMAIN b.locations
           /\ q[i] = find(b, q[i].id)
           /\ q[i].price = b.locations[q[i].id].price
           /\ q[i].price \in Int
           /\ b.locations[q[i].id].side = side
  BY Listed
<1>2. order.price \in Int /\ order.price \in Prices /\ side \in Sides /\ order.id \in OrderIds
  BY PricesAssumption DEF Order
<1>3. /\ DOMAIN after.locations = DOMAIN b.locations \cup {order.id}
      /\ after.locations[order.id] = [side |-> side, price |-> order.price]
      /\ \A id \in DOMAIN b.locations :
           id # order.id /\ after.locations[id] = b.locations[id]
  BY InsertLocations
<1>4. /\ find(after, order.id) = order
      /\ Place(after, order.id) = Len(LevelAt(b, side, order.price).queue) + 1
      /\ \A id \in DOMAIN b.locations :
           find(after, id) = find(b, id) /\ Place(after, id) = Place(b, id)
  BY InsertFinds
<1>5. \A i, j \in 1 .. n : i < j => Precedes(b, q[i].id, q[j].id)
  BY DEF Lists
<1>6. \A id \in DOMAIN b.locations :
        b.locations[id].side = side => \E i \in 1 .. n : q[i].id = id
  <2>1. \A id \in DOMAIN b.locations : b.locations[id].price \in Prices
    BY RestingOrder
  <2> QED
    BY <2>1 DEF Lists
<1>7. ASSUME NEW id \in DOMAIN b.locations,
             b.locations[id] = [side |-> side, price |-> order.price]
      PROVE  Place(b, id) < Place(after, order.id)
  <2> DEFINE level == b.levels[side][order.price]
             place == Place(b, id)
  <2>1. StandsAt(b, side, order.price, find(b, id), place)
    BY <1>7, Standing
  <2> HIDE DEF place
  <2>2. /\ place \in 1 .. Len(level.queue)
        /\ LevelAt(b, side, order.price) = level
        /\ level \in Level
    BY <1>2, <2>1 DEF StandsAt, Positions, LevelAt, Consistent, WellTyped
  <2> HIDE DEF level
  <2>3. Len(level.queue) \in Nat /\ Place(after, order.id) = Len(level.queue) + 1
    BY <1>4, <2>2, QueuedSize
  <2> QED
    BY <2>2, <2>3 DEF place
<1> HIDE DEF after, n
<1>8. \A i \in 1 .. n : i \in ahead <=> ~Better(side, order.price, q[i].price)
  BY <1>1
<1>9. c \in 0 .. n /\ \A i \in 1 .. n : i \in ahead <=> i <= c
  <2>1. ahead \in SUBSET (1 .. n)
    BY <1>1
  <2>2. \A i \in ahead : \A j \in 1 .. n : j < i => j \in ahead
    <3> SUFFICES ASSUME NEW i \in ahead, NEW j \in 1 .. n, j < i PROVE j \in ahead
      OBVIOUS
    <3>1. i \in 1 .. n /\ ~Better(side, order.price, q[i].price)
      BY <1>8, <2>1
    <3>2. Precedes(b, q[j].id, q[i].id)
      BY <1>5, <3>1
    <3>3. Better(side, q[j].price, q[i].price) \/ q[j].price = q[i].price
      BY <1>1, <3>1, <3>2 DEF Precedes
    <3>4. q[i].price \in Int /\ q[j].price \in Int
      BY <1>1, <3>1
    <3>5. ~Better(side, order.price, q[j].price)
      BY <1>2, <3>1, <3>3, <3>4 DEF Better
    <3> QED
      BY <1>8, <3>5
  <2> QED
    BY <1>1, <2>1, <2>2, InitialSegment
<1> HIDE DEF c
<1>10. /\ w \in Seq(Order) /\ Len(w) = n + 1
       /\ \A i \in 1 .. n + 1 :
            w[i] = IF i < c + 1 THEN q[i] ELSE IF i = c + 1 THEN order ELSE q[i - 1]
  <2> DEFINE at == c + 1
  <2>1. at \in 1 .. Len(q) + 1
    BY <1>1, <1>9 DEF n
  <2> HIDE DEF at
  <2>2. /\ InsertAt(q, at, order) \in Seq(Order)
        /\ Len(InsertAt(q, at, order)) = Len(q) + 1
        /\ \A i \in 1 .. Len(q) + 1 :
             InsertAt(q, at, order)[i] =
               IF i < at THEN q[i] ELSE IF i = at THEN order ELSE q[i - 1]
    BY <1>1, <2>1, InsertAtQueue
  <2> QED
    BY <2>2 DEF n, at
<1> HIDE DEF w
<1>11. c + 1 \in 1 .. n + 1 /\ w[c + 1] = order
  BY <1>1, <1>9, <1>10
<1>12. \A i \in 1 .. n + 1 : i # c + 1 => From(i) \in 1 .. n /\ w[i] = q[From(i)]
  BY <1>1, <1>9, <1>10
<1>13. \A i \in 1 .. n : \E k \in 1 .. n + 1 : k # c + 1 /\ From(k) = i
  <2> SUFFICES ASSUME NEW i \in 1 .. n PROVE \E k \in 1 .. n + 1 : k # c + 1 /\ From(k) = i
    OBVIOUS
  <2>1. CASE i <= c
    <3>1. i \in 1 .. n + 1 /\ i # c + 1 /\ From(i) = i
      BY <1>1, <1>9, <2>1
    <3> QED
      BY <3>1
  <2>2. CASE ~(i <= c)
    <3>1. i + 1 \in 1 .. n + 1 /\ i + 1 # c + 1 /\ From(i + 1) = i
      BY <1>1, <1>9, <2>2
    <3> QED
      BY <3>1
  <2> QED
    BY <2>1, <2>2
<1>14. \A i, j \in 1 .. n + 1 : i < j /\ i # c + 1 /\ j # c + 1 => From(i) < From(j)
  BY <1>1, <1>9
<1>15. /\ \A i \in 1 .. n + 1 : i < c + 1 => From(i) \in ahead
       /\ \A i \in 1 .. n + 1 : c + 1 < i => From(i) \notin ahead
  BY <1>1, <1>9
<1> HIDE DEF From
<1>16. ASSUME NEW i \in 1 .. n + 1
       PROVE  /\ w[i].id \in DOMAIN after.locations
              /\ find(after, w[i].id) = w[i]
              /\ after.locations[w[i].id].side = side
              /\ after.locations[w[i].id].price \in Prices
  <2>1. CASE i = c + 1
    BY <1>2, <1>3, <1>4, <1>11, <2>1
  <2>2. CASE i # c + 1
    <3> DEFINE id == w[i].id
    <3>1. /\ id \in DOMAIN b.locations /\ find(b, id) = w[i]
          /\ b.locations[id].side = side
      BY <1>1, <1>12, <2>2
    <3> HIDE DEF id
    <3>2. b.locations[id].price \in Prices
      BY <3>1, RestingOrder
    <3>3. /\ id \in DOMAIN after.locations /\ find(after, id) = w[i]
          /\ after.locations[id].side = side /\ after.locations[id].price \in Prices
      BY <1>3, <1>4, <3>1, <3>2
    <3> QED
      BY <3>3 DEF id
  <2> QED
    BY <2>1, <2>2
<1>17. ASSUME NEW id \in DOMAIN after.locations, after.locations[id].side = side
       PROVE  \E i \in 1 .. n + 1 : w[i].id = id
  <2>1. CASE id = order.id
    BY <1>11, <2>1
  <2>2. CASE id # order.id
    <3>1. id \in DOMAIN b.locations /\ b.locations[id].side = side
      BY <1>3, <1>17, <2>2
    <3>2. PICK k \in 1 .. n : q[k].id = id
      BY <1>6, <3>1
    <3>3. PICK i \in 1 .. n + 1 : i # c + 1 /\ From(i) = k
      BY <1>13
    <3> QED
      BY <1>12, <3>2, <3>3
  <2> QED
    BY <2>1, <2>2
<1>18. ASSUME NEW i \in 1 .. n + 1, NEW j \in 1 .. n + 1, i < j
       PROVE  Precedes(after, w[i].id, w[j].id)
  <2>1. CASE i # c + 1 /\ j # c + 1
    <3>1. /\ From(i) \in 1 .. n /\ From(j) \in 1 .. n /\ From(i) < From(j)
          /\ w[i] = q[From(i)] /\ w[j] = q[From(j)]
      BY <1>12, <1>14, <1>18, <2>1
    <3> DEFINE x == w[i].id
               y == w[j].id
    <3>2. Precedes(b, x, y) /\ x \in DOMAIN b.locations /\ y \in DOMAIN b.locations
      BY <1>1, <1>5, <3>1
    <3> HIDE DEF x, y
    <3>3. Precedes(after, x, y)
      BY <1>3, <1>4, <3>2, PrecedesKept
    <3> QED
      BY <3>3 DEF x, y
  <2>2. CASE j = c + 1
    <3>1. i # c + 1 /\ i < c + 1
      BY <1>18, <2>2
    <3> DEFINE k == From(i)
               id == q[k].id
    <3>2. k \in 1 .. n /\ w[i] = q[k] /\ k \in ahead
      BY <1>12, <1>15, <3>1
    <3> HIDE DEF k
    <3>3. /\ id \in DOMAIN b.locations /\ b.locations[id].side = side
          /\ q[k].price = b.locations[id].price /\ q[k].price \in Int
          /\ ~Better(side, order.price, q[k].price)
      BY <1>1, <1>8, <3>2
    <3>4. after.locations[id] = b.locations[id] /\ Place(after, id) = Place(b, id)
      BY <1>3, <1>4, <3>3
    <3>5. w[j] = order
      BY <1>11, <2>2
    <3> HIDE DEF id
    <3>6. CASE b.locations[id].price = order.price
      <4>1. b.locations[id] = [side |-> side, price |-> order.price]
        <5>1. b.locations[id] \in Location
          BY <3>3, FindResting
        <5> QED
          BY <3>3, <3>6, <5>1 DEF Location
      <4>2. Precedes(after, id, order.id)
        BY <1>3, <1>7, <3>3, <3>4, <4>1 DEF Precedes
      <4> QED
        BY <3>2, <3>5, <4>2 DEF id
    <3>7. CASE b.locations[id].price # order.price
      <4>1. Better(side, b.locations[id].price, order.price)
        BY <1>2, <3>3, <3>7 DEF Better
      <4>2. Precedes(after, id, order.id)
        BY <1>3, <3>3, <3>4, <4>1 DEF Precedes
      <4> QED
        BY <3>2, <3>5, <4>2 DEF id
    <3> QED
      BY <3>6, <3>7
  <2>3. CASE i = c + 1
    <3>1. j # c + 1 /\ c + 1 < j
      BY <1>18, <2>3
    <3> DEFINE k == From(j)
               id == q[k].id
    <3>2. k \in 1 .. n /\ w[j] = q[k] /\ k \notin ahead
      BY <1>12, <1>15, <3>1
    <3> HIDE DEF k
    <3>3. /\ id \in DOMAIN b.locations
          /\ q[k].price = b.locations[id].price
          /\ Better(side, order.price, q[k].price)
      BY <1>1, <1>8, <3>2
    <3>4. after.locations[id] = b.locations[id]
      BY <1>3, <3>3
    <3>5. w[i] = order
      BY <1>11, <2>3
    <3>6. Precedes(after, order.id, id)
      BY <1>3, <3>3, <3>4 DEF Precedes
    <3> QED
      BY <3>2, <3>5, <3>6
  <2> QED
    BY <2>1, <2>2, <2>3
<1>19. Lists(w, after, side, Prices)
  BY <1>10, <1>16, <1>17, <1>18 DEF Lists
<1> QED
  BY <1>19 DEF w, after, c

\* Two orders of one price do not share a place.
LEMMA PlacesDiffer ==
  ASSUME NEW b, Consistent(b), NEW id \in DOMAIN b.locations, NEW other \in DOMAIN b.locations,
         b.locations[id] = b.locations[other], Place(b, id) = Place(b, other)
  PROVE  id = other
<1> DEFINE s == b.locations[id].side
           p == b.locations[id].price
<1>1. find(b, id).id = id /\ StandsAt(b, s, p, find(b, id), Place(b, id))
  BY Standing
<1>2. find(b, other).id = other /\ StandsAt(b, s, p, find(b, other), Place(b, other))
  BY Standing
<1> QED
  BY <1>1, <1>2 DEF StandsAt

\* The index after cancel_order.
LEMMA CancelLocations ==
  ASSUME NEW b, NEW id \in DOMAIN b.locations, NEW after, after = cancel_order(b, id)
  PROVE  /\ DOMAIN after.locations = DOMAIN b.locations \ {id}
         /\ \A other \in DOMAIN b.locations :
              other # id => after.locations[other] = b.locations[other]
BY DEF cancel_order, contains, Without

\* The abstract queue without an order is what the book lists without it.
LEMMA CancelLists ==
  ASSUME NEW b, Consistent(b), NEW id \in DOMAIN b.locations,
         NEW side, side = b.locations[id].side, NEW q, Lists(q, b, side, Prices),
         NEW at \in 1 .. Len(q), q[at].id = id
  PROVE  Lists(RemoveAt(q, at), cancel_order(b, id), side, Prices)
<1> DEFINE after == cancel_order(b, id)
           n == Len(q)
           w == RemoveAt(q, at)
<1>1. /\ q \in Seq(Order) /\ n \in Nat
      /\ \A i \in 1 .. n :
           /\ q[i].id \in DOMAIN b.locations
           /\ q[i] = find(b, q[i].id)
           /\ b.locations[q[i].id].side = side
      /\ \A i, j \in 1 .. n : q[i].id = q[j].id => i = j
  BY Listed
<1>2. /\ DOMAIN after.locations = DOMAIN b.locations \ {id}
      /\ \A other \in DOMAIN b.locations :
           other # id => after.locations[other] = b.locations[other]
  BY CancelLocations
<1>3. \A other \in DOMAIN b.locations : other # id =>
        /\ find(after, other) = find(b, other)
        /\ Place(after, other) =
             ClosedUp(b, id, b.locations[other].side, b.locations[other].price,
                      Place(b, other))
  BY CancelFinds
<1>4. \A i, j \in 1 .. n : i < j => Precedes(b, q[i].id, q[j].id)
  BY DEF Lists
<1>5. \A other \in DOMAIN b.locations :
        b.locations[other].side = side => \E i \in 1 .. n : q[i].id = other
  <2>1. \A other \in DOMAIN b.locations : b.locations[other].price \in Prices
    BY RestingOrder
  <2> QED
    BY <2>1 DEF Lists
<1> HIDE DEF after
<1>6. ASSUME NEW x \in DOMAIN b.locations, NEW y \in DOMAIN b.locations,
             x # id, y # id, Precedes(b, x, y)
      PROVE  Precedes(after, x, y)
  <2>1. after.locations[x] = b.locations[x] /\ after.locations[y] = b.locations[y]
    BY <1>2, <1>6
  <2>2. CASE Better(b.locations[x].side, b.locations[x].price, b.locations[y].price)
    BY <2>1, <2>2 DEF Precedes
  <2>3. CASE b.locations[x] = b.locations[y] /\ Place(b, x) < Place(b, y)
    <3> DEFINE Closed(i) == ClosedUp(b, id, b.locations[x].side, b.locations[x].price, i)
    <3>1. Place(after, x) = Closed(Place(b, x)) /\ Place(after, y) = Closed(Place(b, y))
      BY <1>3, <1>6, <2>3
    <3>2. /\ Place(b, x) \in Nat /\ Place(b, y) \in Nat /\ Place(b, id) \in Nat
          /\ b.locations[x] \in Location
      BY RestingOrder, FindResting
    <3>3. b.locations[x] = b.locations[id] => Place(b, x) # Place(b, id)
      BY <1>6, PlacesDiffer
    <3>4. [side |-> b.locations[x].side, price |-> b.locations[x].price] = b.locations[x]
      BY <3>2 DEF Location
    <3>5. Closed(Place(b, x)) < Closed(Place(b, y))
      BY <2>3, <3>2, <3>3, <3>4 DEF ClosedUp
    <3> QED
      BY <2>1, <2>3, <3>1, <3>5 DEF Precedes
  <2> QED
    BY <1>6, <2>2, <2>3 DEF Precedes
<1>7. /\ w \in Seq(Order) /\ Len(w) = n - 1
      /\ \A i \in 1 .. n - 1 : w[i] = q[Before(at, i)]
  BY <1>1, RemoveAtQueue DEF Before
<1> HIDE DEF n, w
<1>8. at \in 1 .. n
  BY DEF n
<1>9. /\ \A i \in 1 .. n - 1 : Before(at, i) \in 1 .. n /\ Before(at, i) # at
      /\ \A i, j \in 1 .. n - 1 : i < j => Before(at, i) < Before(at, j)
  BY <1>1, <1>8 DEF Before
<1>10. \A k \in 1 .. n : k # at => \E i \in 1 .. n - 1 : Before(at, i) = k
  <2> SUFFICES ASSUME NEW k \in 1 .. n, k # at
               PROVE  \E i \in 1 .. n - 1 : Before(at, i) = k
    OBVIOUS
  <2>1. CASE k < at
    <3>1. k \in 1 .. n - 1 /\ Before(at, k) = k
      BY <1>1, <1>8, <2>1 DEF Before
    <3> QED
      BY <3>1
  <2>2. CASE ~(k < at)
    <3>1. k - 1 \in 1 .. n - 1 /\ Before(at, k - 1) = k
      BY <1>1, <1>8, <2>2 DEF Before
    <3> QED
      BY <3>1
  <2> QED
    BY <2>1, <2>2
<1>11. \A i \in 1 .. n - 1 :
         /\ w[i].id \in DOMAIN b.locations /\ w[i].id # id
         /\ find(b, w[i].id) = w[i]
         /\ b.locations[w[i].id].side = side
  <2> SUFFICES ASSUME NEW i \in 1 .. n - 1
               PROVE  /\ w[i].id \in DOMAIN b.locations /\ w[i].id # id
                      /\ find(b, w[i].id) = w[i]
                      /\ b.locations[w[i].id].side = side
    OBVIOUS
  <2> DEFINE k == Before(at, i)
  <2>1. k \in 1 .. n /\ k # at /\ w[i] = q[k]
    BY <1>7, <1>9
  <2> HIDE DEF k
  <2>2. q[k].id # id
    BY <1>1, <1>8, <2>1
  <2> QED
    BY <1>1, <2>1, <2>2
<1>12. ASSUME NEW i \in 1 .. n - 1
       PROVE  /\ w[i].id \in DOMAIN after.locations
              /\ find(after, w[i].id) = w[i]
              /\ after.locations[w[i].id].side = side
              /\ after.locations[w[i].id].price \in Prices
  <2> DEFINE x == w[i].id
  <2>1. /\ x \in DOMAIN b.locations /\ x # id /\ find(b, x) = w[i]
        /\ b.locations[x].side = side
    BY <1>11
  <2> HIDE DEF x
  <2>2. b.locations[x].price \in Prices
    BY <2>1, RestingOrder
  <2>3. /\ x \in DOMAIN after.locations /\ find(after, x) = w[i]
        /\ after.locations[x].side = side /\ after.locations[x].price \in Prices
    BY <1>2, <1>3, <2>1, <2>2
  <2> QED
    BY <2>3 DEF x
<1>13. ASSUME NEW x \in DOMAIN after.locations, after.locations[x].side = side
       PROVE  \E i \in 1 .. n - 1 : w[i].id = x
  <2>1. x \in DOMAIN b.locations /\ x # id /\ b.locations[x].side = side
    BY <1>2, <1>13
  <2>2. PICK k \in 1 .. n : q[k].id = x
    BY <1>5, <2>1
  <2>3. k # at
    BY <2>1, <2>2
  <2>4. PICK i \in 1 .. n - 1 : Before(at, i) = k
    BY <1>10, <2>3
  <2> QED
    BY <1>7, <2>2, <2>4
<1>14. ASSUME NEW i \in 1 .. n - 1, NEW j \in 1 .. n - 1, i < j
       PROVE  Precedes(after, w[i].id, w[j].id)
  <2>1. Precedes(b, w[i].id, w[j].id)
    BY <1>4, <1>7, <1>9, <1>14
  <2> QED
    BY <1>6, <1>11, <2>1
<1>15. Lists(w, after, side, Prices)
  BY <1>7, <1>12, <1>13, <1>14 DEF Lists
<1> QED
  BY <1>15 DEF w, after

\* The abstract queue with an order's size changed in place lists the book
\* after a reduction.
LEMMA ReducedLists ==
  ASSUME NEW b, Consistent(b), NEW id \in DOMAIN b.locations,
         NEW new_quantity \in Nat \ {0}, new_quantity <= find(b, id).quantity,
         NEW side, side = b.locations[id].side, NEW q, Lists(q, b, side, Prices),
         NEW at \in 1 .. Len(q), q[at].id = id
  PROVE  Lists([q EXCEPT ![at].quantity = new_quantity], Reduced(b, id, new_quantity),
               side, Prices)
<1> DEFINE after == Reduced(b, id, new_quantity)
           n == Len(q)
           w == [q EXCEPT ![at].quantity = new_quantity]
<1>1. /\ q \in Seq(Order) /\ n \in Nat /\ DOMAIN q = 1 .. n
      /\ \A i \in 1 .. n :
           /\ q[i].id \in DOMAIN b.locations
           /\ q[i] = find(b, q[i].id)
           /\ b.locations[q[i].id].side = side
      /\ \A i, j \in 1 .. n : q[i].id = q[j].id => i = j
  BY Listed
<1>2. after.locations = b.locations
  BY DEF Reduced
<1>3. \A other \in DOMAIN b.locations :
        /\ find(after, other) = Shrunk(find(b, other), id, new_quantity)
        /\ Place(after, other) = Place(b, other)
  BY ReducedFinds
<1>4. \A i, j \in 1 .. n : i < j => Precedes(b, q[i].id, q[j].id)
  BY DEF Lists
<1>5. \A other \in DOMAIN b.locations :
        /\ b.locations[other].side = side => \E i \in 1 .. n : q[i].id = other
        /\ b.locations[other].price \in Prices
  <2>1. \A other \in DOMAIN b.locations : b.locations[other].price \in Prices
    BY RestingOrder
  <2> QED
    BY <2>1 DEF Lists
<1> HIDE DEF after
<1>6. /\ w \in Seq(Order) /\ Len(w) = n
      /\ \A i \in 1 .. n : w[i] = Shrunk(q[i], id, new_quantity) /\ w[i].id = q[i].id
  <2> DEFINE shrunk == [q[at] EXCEPT !.quantity = new_quantity]
  <2>1. q[at] \in Order
    BY <1>1, ElementOfSeq
  <2>2. shrunk \in Order /\ shrunk.id = id
    BY <2>1 DEF Order
  <2>3. w = [q EXCEPT ![at] = shrunk]
    OBVIOUS
  <2>4. shrunk = Shrunk(q[at], id, new_quantity)
    BY DEF Shrunk
  <2> HIDE DEF shrunk
  <2>5. /\ [q EXCEPT ![at] = shrunk] \in Seq(Order)
        /\ Len([q EXCEPT ![at] = shrunk]) = Len(q)
        /\ \A i \in 1 .. Len(q) :
             [q EXCEPT ![at] = shrunk][i] = IF i = at THEN shrunk ELSE q[i]
    BY <1>1, <2>2, ExceptSeq
  <2>6. \A i \in 1 .. n : i # at => Shrunk(q[i], id, new_quantity) = q[i]
    BY <1>1 DEF Shrunk
  <2> HIDE DEF w
  <2> QED
    BY <2>2, <2>3, <2>4, <2>5, <2>6
<1> HIDE DEF w, n
<1>7. ASSUME NEW i \in 1 .. n
      PROVE  /\ w[i].id \in DOMAIN after.locations
             /\ find(after, w[i].id) = w[i]
             /\ after.locations[w[i].id].side = side
             /\ after.locations[w[i].id].price \in Prices
  <2>1. q[i].id \in DOMAIN b.locations /\ b.locations[q[i].id].side = side
    BY <1>1
  <2>2. find(after, q[i].id) = Shrunk(q[i], id, new_quantity)
    BY <1>1, <1>3
  <2> QED
    BY <1>2, <1>5, <1>6, <2>1, <2>2
<1>8. ASSUME NEW i \in 1 .. n, NEW j \in 1 .. n, i < j
      PROVE  Precedes(after, w[i].id, w[j].id)
  <2>1. Precedes(b, q[i].id, q[j].id)
    BY <1>4, <1>8
  <2>2. Precedes(after, q[i].id, q[j].id)
    BY <1>1, <1>2, <1>3, <2>1, PrecedesKept
  <2> QED
    BY <1>6, <2>2
<1>9. ASSUME NEW other \in DOMAIN after.locations, after.locations[other].side = side
      PROVE  \E i \in 1 .. n : w[i].id = other
  BY <1>2, <1>5, <1>6, <1>9
<1>10. Lists(w, after, side, Prices)
  BY <1>6, <1>7, <1>8, <1>9 DEF Lists
<1> QED
  BY <1>10 DEF w, after

\* Both sides of the abstract book list the orders of the book.
ListsBook(resting, b) ==
  /\ resting = [side \in Sides |-> resting[side]]
  /\ \A side \in Sides : Lists(resting[side], b, side, Prices)

Snapshots(b) == [side \in Sides |-> PriorityQueue(b, side)]

LEMMA SnapshotsList ==
  ASSUME NEW b, Consistent(b), Counts(b)
  PROVE  ListsBook(Snapshots(b), b)
<1>1. ASSUME NEW side \in Sides PROVE Lists(PriorityQueue(b, side), b, side, Prices)
  BY SnapshotLists DEF Counts
<1> QED
  BY <1>1 DEF ListsBook, Snapshots

LEMMA ListsBookOnce ==
  ASSUME NEW b, Consistent(b), NEW resting, ListsBook(resting, b),
         NEW others, ListsBook(others, b)
  PROVE  resting = others
<1>1. ASSUME NEW side \in Sides PROVE resting[side] = others[side]
  <2>1. Lists(resting[side], b, side, Prices) /\ Lists(others[side], b, side, Prices)
    BY DEF ListsBook
  <2> QED
    BY <2>1, ListsOnce
<1> QED
  BY <1>1 DEF ListsBook

\* The abstract module's own copies of the common operators.
LEMMA SameOperators ==
  /\ Queues!Sides = Sides
  /\ \A side, p, r : Queues!Better(side, p, r) = Better(side, p, r)
  /\ \A s, n, e : Queues!InsertAt(s, n, e) = InsertAt(s, n, e)
  /\ \A s, n : Queues!RemoveAt(s, n) = RemoveAt(s, n)
  /\ \A S : Queues!Cardinality(S) = Cardinality(S)
<1>1. Queues!Sides = Sides
  BY DEF Queues!Sides, Sides
<1>2. \A side, p, r : Queues!Better(side, p, r) = Better(side, p, r)
  BY DEF Queues!Better, Better
<1>3. \A s, n, e : Queues!InsertAt(s, n, e) = InsertAt(s, n, e)
  BY DEF Queues!InsertAt, InsertAt
<1>4. \A s, n : Queues!RemoveAt(s, n) = RemoveAt(s, n)
  BY DEF Queues!RemoveAt, RemoveAt
<1>5. \A S : Queues!Cardinality(S) = Cardinality(S)
  BY DEF Queues!Cardinality, Cardinality
<1> QED
  BY <1>1, <1>2, <1>3, <1>4, <1>5

LEMMA NoOrdersListed == ListsBook(Queues!NoOrders, EmptyBook)
<1>1. Queues!NoOrders = [side \in Sides |-> <<>>]
  BY SameOperators DEF Queues!NoOrders
<1>2. DOMAIN EmptyBook.locations = {}
  BY DEF EmptyBook
<1>3. \A side \in Sides : Lists(<<>>, EmptyBook, side, Prices)
  BY <1>2, EmptySeq DEF Lists
<1> HIDE DEF Queues!NoOrders
<1> QED
  BY <1>1, <1>3 DEF ListsBook

\* Where the abstract book has an order is where the book's index has it.
LEMMA RestingFinds ==
  ASSUME NEW b, Consistent(b), NEW resting, ListsBook(resting, b)
  PROVE  /\ Queues!RestingIds(resting) = DOMAIN b.locations
         /\ \A id \in DOMAIN b.locations :
              /\ Queues!SideOf(resting, id) = b.locations[id].side
              /\ Queues!IndexOf(resting[b.locations[id].side], id)
                   \in 1 .. Len(resting[b.locations[id].side])
              /\ resting[b.locations[id].side]
                   [Queues!IndexOf(resting[b.locations[id].side], id)].id = id
              /\ Queues!OrderOf(resting, id) = find(b, id)
<1>1. \A side \in Sides :
        /\ DOMAIN resting[side] = 1 .. Len(resting[side])
        /\ \A i \in DOMAIN resting[side] :
             /\ resting[side][i].id \in DOMAIN b.locations
             /\ b.locations[resting[side][i].id].side = side
             /\ find(b, resting[side][i].id) = resting[side][i]
  <2> SUFFICES ASSUME NEW side \in Sides
               PROVE  /\ DOMAIN resting[side] = 1 .. Len(resting[side])
                      /\ \A i \in DOMAIN resting[side] :
                           /\ resting[side][i].id \in DOMAIN b.locations
                           /\ b.locations[resting[side][i].id].side = side
                           /\ find(b, resting[side][i].id) = resting[side][i]
    OBVIOUS
  <2> DEFINE q == resting[side]
  <2>1. Lists(q, b, side, Prices)
    BY DEF ListsBook
  <2> HIDE DEF q
  <2>2. DOMAIN q = 1 .. Len(q)
    BY <2>1, LenProperties DEF Lists
  <2>3. \A i \in DOMAIN q : /\ q[i].id \in DOMAIN b.locations
                            /\ b.locations[q[i].id].side = side
                            /\ find(b, q[i].id) = q[i]
    BY <2>1, <2>2 DEF Lists
  <2> QED
    BY <2>2, <2>3 DEF q
<1>2. ASSUME NEW id \in DOMAIN b.locations
      PROVE  /\ b.locations[id].side \in Sides
             /\ \E i \in DOMAIN resting[b.locations[id].side] :
                  resting[b.locations[id].side][i].id = id
  <2> DEFINE side == b.locations[id].side
             q == resting[side]
  <2>1. side \in Sides /\ b.locations[id].price \in Prices
    BY RestingOrder
  <2>2. Lists(q, b, side, Prices) /\ DOMAIN q = 1 .. Len(q)
    BY <1>1, <2>1 DEF ListsBook
  <2>3. \E i \in 1 .. Len(q) : q[i].id = id
    BY <2>1, <2>2 DEF Lists
  <2> QED
    BY <2>1, <2>2, <2>3
<1>3. Queues!RestingIds(resting) = DOMAIN b.locations
  <2>1. \A id \in Queues!RestingIds(resting) : id \in DOMAIN b.locations
    BY <1>1 DEF Queues!RestingIds, Sides
  <2>2. \A id \in DOMAIN b.locations : id \in Queues!RestingIds(resting)
    <3> SUFFICES ASSUME NEW id \in DOMAIN b.locations
                 PROVE  id \in Queues!RestingIds(resting)
      OBVIOUS
    <3>1. PICK side \in Sides : \E i \in DOMAIN resting[side] : resting[side][i].id = id
      BY <1>2
    <3> QED
      BY <3>1 DEF Queues!RestingIds, Sides
  <2> QED
    BY <2>1, <2>2
<1>4. ASSUME NEW id \in DOMAIN b.locations
      PROVE  /\ Queues!SideOf(resting, id) = b.locations[id].side
             /\ Queues!IndexOf(resting[b.locations[id].side], id)
                  \in 1 .. Len(resting[b.locations[id].side])
             /\ resting[b.locations[id].side]
                  [Queues!IndexOf(resting[b.locations[id].side], id)].id = id
             /\ Queues!OrderOf(resting, id) = find(b, id)
  <2> DEFINE side == b.locations[id].side
             q == resting[side]
             at == Queues!IndexOf(q, id)
  <2>1. side \in Sides /\ \E i \in DOMAIN q : q[i].id = id
    BY <1>2
  <2>2. Queues!SideOf(resting, id) = side
    <3>1. \A other \in Sides :
            (\E i \in DOMAIN resting[other] : resting[other][i].id = id) => other = side
      BY <1>1
    <3> HIDE DEF side
    <3> QED
      BY <2>1, <3>1, SameOperators DEF Queues!SideOf
  <2>3. at \in DOMAIN q /\ q[at].id = id
    BY <2>1 DEF Queues!IndexOf
  <2>4. Queues!OrderOf(resting, id) = q[at]
    BY <2>2 DEF Queues!OrderOf
  <2>5. DOMAIN q = 1 .. Len(q) /\ q[at] = find(b, id)
    <3> HIDE DEF side, at
    <3> QED
      BY <1>1, <2>1, <2>3
  <2> QED
    BY <2>2, <2>3, <2>4, <2>5
<1> QED
  BY <1>3, <1>4

\* The operations of the abstract book are those of the book.
LEMMA QueuedLists ==
  ASSUME NEW b, Consistent(b), NEW order \in Order, ~contains(b, order.id),
         NEW resting, ListsBook(resting, b)
  PROVE  ListsBook(Queues!Queued(resting, order), insert_order(b, order))
<1> DEFINE after == insert_order(b, order)
           queued == Queues!Queued(resting, order)
           s == order.side
           q == resting[s]
           ahead == {i \in DOMAIN q : ~Better(s, order.price, q[i].price)}
           w == InsertAt(q, Cardinality(ahead) + 1, order)
<1>1. s \in Sides
  BY DEF Order
<1>2. queued = [resting EXCEPT ![s] = w]
  <2> DEFINE theirs == {i \in DOMAIN q : ~Queues!Better(s, order.price, q[i].price)}
  <2>1. queued = [resting EXCEPT ![s] =
                    Queues!InsertAt(q, Queues!Cardinality(theirs) + 1, order)]
    BY DEF Queues!Queued
  <2>2. theirs = ahead
    BY SameOperators
  <2> HIDE DEF theirs, ahead, q, s
  <2>3. Queues!InsertAt(q, Queues!Cardinality(theirs) + 1, order) = w
    BY <2>2, SameOperators
  <2> QED
    BY <2>1, <2>3
<1>3. Lists(w, after, s, Prices)
  <2>1. Lists(q, b, s, Prices)
    BY <1>1 DEF ListsBook
  <2> HIDE DEF q
  <2> QED
    BY <2>1, InsertLists
<1>4. ASSUME NEW side \in Sides, side # s
      PROVE  Lists(resting[side], after, side, Prices)
  <2>1. Lists(resting[side], b, side, Prices)
    BY DEF ListsBook
  <2> DEFINE where == [side |-> s, price |-> order.price]
  <2>2. /\ DOMAIN after.locations = DOMAIN b.locations \cup {order.id}
        /\ after.locations[order.id] = where
        /\ \A id \in DOMAIN b.locations :
             id # order.id /\ after.locations[id] = b.locations[id]
    BY InsertLocations
  <2>9. where.side = s
    OBVIOUS
  <2>3. \A id \in DOMAIN b.locations :
          find(after, id) = find(b, id) /\ Place(after, id) = Place(b, id)
    BY InsertFinds
  <2> HIDE DEF after, s, where
  <2>4. after.locations[order.id].side = s
    BY <2>2, <2>9
  <2> QED
    BY <1>4, <2>1, <2>2, <2>3, <2>4, ListsKept
<1> HIDE DEF after, queued, s, q, w
<1>5. ListsBook(queued, after)
  <2>1. DOMAIN resting = Sides
    BY DEF ListsBook
  <2>2. queued = [side \in Sides |-> queued[side]]
    BY <1>2, <2>1
  <2>3. \A side \in Sides : queued[side] = IF side = s THEN w ELSE resting[side]
    BY <1>2, <2>1
  <2> QED
    BY <1>3, <1>4, <2>2, <2>3 DEF ListsBook
<1> QED
  BY <1>5 DEF queued, after

LEMMA RemovedLists ==
  ASSUME NEW b, Consistent(b), NEW id, NEW resting, ListsBook(resting, b)
  PROVE  ListsBook(Queues!Removed(resting, id), cancel_order(b, id))
<1>1. Queues!RestingIds(resting) = DOMAIN b.locations
  BY RestingFinds
<1>2. CASE id \notin DOMAIN b.locations
  BY <1>1, <1>2 DEF Queues!Removed, cancel_order, contains
<1>3. CASE id \in DOMAIN b.locations
  <2> DEFINE after == cancel_order(b, id)
             removed == Queues!Removed(resting, id)
             s == b.locations[id].side
             q == resting[s]
             at == Queues!IndexOf(q, id)
             w == RemoveAt(q, at)
  <2>1. /\ Queues!SideOf(resting, id) = s
        /\ at \in 1 .. Len(q) /\ q[at].id = id
    BY <1>3, RestingFinds
  <2>2. s \in Sides
    BY <1>3, RestingOrder
  <2>3. removed = [resting EXCEPT ![s] = w]
    BY <1>1, <1>3, <2>1, SameOperators DEF Queues!Removed
  <2>4. Lists(q, b, s, Prices)
    BY <2>2 DEF ListsBook
  <2> HIDE DEF q, at
  <2>5. Lists(w, after, s, Prices)
    BY <1>3, <2>1, <2>4, CancelLists
  <2>6. ASSUME NEW side \in Sides, side # s
        PROVE  Lists(resting[side], after, side, Prices)
    <3>1. Lists(resting[side], b, side, Prices)
      BY DEF ListsBook
    <3>2. /\ DOMAIN after.locations = DOMAIN b.locations \ {id}
          /\ \A other \in DOMAIN b.locations :
               other # id => after.locations[other] = b.locations[other]
      BY <1>3, CancelLocations
    <3>3. ASSUME NEW other \in DOMAIN b.locations, b.locations[other].side = side
          PROVE  /\ other # id
                 /\ find(after, other) = find(b, other)
                 /\ Place(after, other) = Place(b, other)
      <4>1. other # id /\ b.locations[other] # b.locations[id]
        BY <2>6, <3>3
      <4>2. b.locations[other] \in Location
        BY FindResting
      <4>3. [side |-> b.locations[other].side, price |-> b.locations[other].price]
              = b.locations[other]
        BY <4>2 DEF Location
      <4>4. /\ find(after, other) = find(b, other)
            /\ Place(after, other) =
                 ClosedUp(b, id, b.locations[other].side, b.locations[other].price,
                          Place(b, other))
        BY <1>3, <4>1, CancelFinds
      <4> HIDE DEF after
      <4> QED
        BY <4>1, <4>3, <4>4 DEF ClosedUp
    <3> HIDE DEF after, s
    <3> QED
      BY <3>1, <3>2, <3>3, ListsKept
  <2> HIDE DEF after, removed, s, w
  <2>7. DOMAIN resting = Sides
    BY DEF ListsBook
  <2>8. /\ removed = [side \in Sides |-> removed[side]]
        /\ \A side \in Sides : removed[side] = IF side = s THEN w ELSE resting[side]
    BY <2>3, <2>7 DEF q
  <2>9. ListsBook(removed, after)
    BY <2>5, <2>6, <2>8 DEF ListsBook
  <2> QED
    BY <2>9 DEF removed, after
<1> QED
  BY <1>2, <1>3

LEMMA ResizedLists ==
  ASSUME NEW b, Consistent(b), NEW id \in DOMAIN b.locations,
         NEW quantity \in Nat \ {0}, quantity <= find(b, id).quantity,
         NEW resting, ListsBook(resting, b)
  PROVE  ListsBook(Queues!Resized(resting, id, quantity), Reduced(b, id, quantity))
<1> DEFINE after == Reduced(b, id, quantity)
           resized == Queues!Resized(resting, id, quantity)
           s == b.locations[id].side
           q == resting[s]
           at == Queues!IndexOf(q, id)
           w == [q EXCEPT ![at].quantity = quantity]
<1>1. /\ Queues!SideOf(resting, id) = s
      /\ at \in 1 .. Len(q) /\ q[at].id = id
  BY RestingFinds
<1>2. s \in Sides
  BY RestingOrder
<1>3. resized = [resting EXCEPT ![s] = w]
  BY <1>1 DEF Queues!Resized
<1>4. Lists(q, b, s, Prices)
  BY <1>2 DEF ListsBook
<1> HIDE DEF q, at
<1>5. Lists(w, after, s, Prices)
  BY <1>1, <1>4, ReducedLists
<1>6. ASSUME NEW side \in Sides, side # s
      PROVE  Lists(resting[side], after, side, Prices)
  <2>1. Lists(resting[side], b, side, Prices)
    BY DEF ListsBook
  <2>2. after.locations = b.locations
    BY DEF Reduced
  <2>3. ASSUME NEW other \in DOMAIN b.locations, b.locations[other].side = side
        PROVE  /\ find(after, other) = find(b, other)
               /\ Place(after, other) = Place(b, other)
    <3>1. other # id
      BY <1>6, <2>3
    <3>2. /\ find(after, other) = Shrunk(find(b, other), id, quantity)
          /\ find(b, other).id = other
          /\ Place(after, other) = Place(b, other)
      BY ReducedFinds
    <3> QED
      BY <3>1, <3>2 DEF Shrunk
  <2> HIDE DEF after, s
  <2> QED
    BY <2>1, <2>2, <2>3, ListsKept
<1> HIDE DEF after, resized, s, w
<1>7. DOMAIN resting = Sides
  BY DEF ListsBook
<1>8. /\ resized = [side \in Sides |-> resized[side]]
      /\ \A side \in Sides : resized[side] = IF side = s THEN w ELSE resting[side]
  BY <1>3, <1>7
<1>9. ListsBook(resized, after)
  BY <1>5, <1>6, <1>8 DEF ListsBook
<1> QED
  BY <1>9 DEF resized, after
=============================================================================
