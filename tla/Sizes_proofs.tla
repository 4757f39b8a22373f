----------------------------- MODULE Sizes_proofs -----------------------------
(***************************************************************************)
(* The sum of the sizes of a finite set of traces, as TracedIsSum of       *)
(* Tracemalloc and Total of Snapshot write it: what an entry that is added *)
(* or removed changes, and how two sums compare.                           *)
(*                                                                         *)
(* MapThenSumSet() is a recursive function over the subsets of its         *)
(* argument.  That it has a solution, and one only, is proved by induction *)
(* on the number of elements, from the least-element principle of Nat.     *)
(***************************************************************************)
EXTENDS Integers, FiniteSets, FiniteSetsExt, FiniteSetTheorems,
        WellFoundedInduction, TLAPS

\* The sum of the sizes of the records f[s], s in T.
SizeSum(f, T) == MapThenSumSet(LAMBDA s : f[s].size, T)

\* The element MapThenSumSet() takes first, and the equation of the function
\* it iterates over the subsets of S.
Pick(s) == CHOOSE x \in s : TRUE

Equation(f, g, s) ==
  g[s] = IF s = {} THEN 0 ELSE f[Pick(s)].size + g[s \ {Pick(s)}]

Satisfies(f, g, T) == \A s \in SUBSET T : Equation(f, g, s)

Solves(f, S, g) ==
  g = [s \in SUBSET S |->
         IF s = {} THEN 0 ELSE f[Pick(s)].size + g[s \ {Pick(s)}]]

Iter(f, S) == CHOOSE g : Solves(f, S, g)

\* The elements of T have the same sizes in f and in h.
SameSizes(f, h, T) == \A s \in T : f[s].size = h[s].size

\* Weighs(f, T): the sum over T makes sense.
Weighs(f, T) == IsFiniteSet(T) /\ \A s \in T : f[s].size \in Int

-----------------------------------------------------------------------------
(* Induction.                                                              *)

\* A set of naturals that is not empty has a least element.
LEMMA Least ==
  ASSUME NEW T \in SUBSET Nat, T # {}
  PROVE  \E n \in T : \A m \in T : n <= m
<1> DEFINE R == {ss \in Nat \X Nat : ss[1] < ss[2]}
<1>1. IsWellFoundedOn(R, Nat)
  BY NatLessThanWellFounded, Zenon DEF OpToRel
<1>2. \E n \in T : \A m \in T : ~ (<<m, n>> \in R)
  <2> HIDE DEF R
  <2> QED
    BY <1>1, WFMin, Zenon
<1>3. PICK n \in T : \A m \in T : ~ (<<m, n>> \in R)
  BY <1>2
<1>4. ASSUME NEW m \in T
      PROVE  n <= m
  <2>1. m \in Nat /\ n \in Nat /\ <<m, n>> \in Nat \X Nat /\ ~(<<m, n>> \in R)
    BY <1>3
  <2>2. ~(<<m, n>>[1] < <<m, n>>[2])
    BY <2>1
  <2>3. QED
    BY <2>1, <2>2
<1>5. QED
  BY <1>4

\* Induction on the numbers up to n.
LEMMA UpToAll ==
  ASSUME NEW n \in Nat, NEW T, 0 \in T,
         \A k \in 1 .. n : k - 1 \in T => k \in T
  PROVE  \A k \in 0 .. n : k \in T
<1> DEFINE C == {k \in 0 .. n : k \notin T}
<1>1. SUFFICES ASSUME C # {} PROVE FALSE
  OBVIOUS
<1>2. PICK k \in C : \A m \in C : k <= m
  <2>1. C \in SUBSET Nat
    OBVIOUS
  <2> HIDE DEF C
  <2> QED
    BY <1>1, <2>1, Least
<1>3. k \in 1 .. n /\ k - 1 \in 0 .. n /\ ~(k <= k - 1)
  BY <1>2
<1>4. k - 1 \in T
  BY <1>2, <1>3
<1> QED
  BY <1>2, <1>3, <1>4

\* The element picked is one of the set, and the rest is smaller.
LEMMA PickSmaller ==
  ASSUME NEW s, IsFiniteSet(s), s # {}
  PROVE  /\ Pick(s) \in s
         /\ IsFiniteSet(s \ {Pick(s)})
         /\ Cardinality(s) \in Nat
         /\ Cardinality(s \ {Pick(s)}) \in Nat
         /\ Cardinality(s \ {Pick(s)}) = Cardinality(s) - 1
<1>1. Pick(s) \in s
  BY DEF Pick
<1>2. QED
  BY <1>1, FS_RemoveElement, FS_CardinalityType

\* A set without one of its elements has fewer.
LEMMA FewerWithout ==
  ASSUME NEW s, IsFiniteSet(s), NEW x \in s
  PROVE  ~(Cardinality(s) <= Cardinality(s \ {x}))
<1>1. Cardinality(s) \in Nat /\ Cardinality(s \ {x}) = Cardinality(s) - 1
  BY FS_RemoveElement, FS_CardinalityType
<1>2. QED
  BY <1>1

\* A set of subsets of a finite set has a smallest member.
LEMMA Smallest ==
  ASSUME NEW S, IsFiniteSet(S), NEW C \in SUBSET (SUBSET S), C # {}
  PROVE  \E s \in C : \A r \in C : Cardinality(s) <= Cardinality(r)
<1> DEFINE T == {Cardinality(s) : s \in C}
<1>1. \A s \in C : Cardinality(s) \in Nat
  BY FS_Subset, FS_CardinalityType
<1>2. T \in SUBSET Nat /\ T # {}
  BY <1>1
<1>3. PICK n \in T : \A m \in T : n <= m
  <2> HIDE DEF T
  <2> QED
    BY <1>2, Least
<1>4. QED
  BY <1>3

-----------------------------------------------------------------------------
(* The function iterated exists, and is the only one.                      *)

\* There is a function that satisfies the equation on the sets of n elements
\* at most.
LEMMA SolvedTo ==
  ASSUME NEW f, NEW S, Weighs(f, S)
  PROVE  \A n \in Nat : \E g \in [SUBSET S -> Int] : \A s \in SUBSET S :
           Cardinality(s) <= n => Equation(f, g, s)
<1> DEFINE P(n) == \E g \in [SUBSET S -> Int] : \A s \in SUBSET S :
                     Cardinality(s) <= n => Equation(f, g, s)
           T == {n \in Nat : ~P(n)}
<1>1. SUFFICES ASSUME T # {} PROVE FALSE
  OBVIOUS
<1>2. PICK n \in T : \A m \in T : n <= m
  <2>1. T \in SUBSET Nat
    OBVIOUS
  <2> HIDE DEF T
  <2>2. QED
    BY <1>1, <2>1, Least
<1>3. \A s \in SUBSET S : IsFiniteSet(s) /\ Cardinality(s) \in Nat
  BY FS_Subset, FS_CardinalityType DEF Weighs
<1>4. n # 0
  <2> DEFINE g == [s \in SUBSET S |-> 0]
  <2>1. \A s \in SUBSET S : Cardinality(s) <= 0 => s = {}
    BY <1>3, FS_EmptySet
  <2>2. g \in [SUBSET S -> Int] /\ {} \in SUBSET S /\ g[{}] = 0
    OBVIOUS
  <2>3. \A s \in SUBSET S : Cardinality(s) <= 0 => Equation(f, g, s)
    BY <2>1, <2>2 DEF Equation
  <2>4. P(0)
    <3> HIDE DEF g
    <3> QED
      BY <2>2, <2>3
  <2>5. QED
    BY <2>4
<1>5. n \in Nat /\ n - 1 \in Nat /\ n - 1 < n
  BY <1>4
<1>6. P(n - 1)
  <2>1. n - 1 \notin T
    <3> HIDE DEF T
    <3> QED
      BY <1>2, <1>5
  <2>2. n - 1 \in Nat
    BY <1>5
  <2> HIDE DEF P
  <2>3. QED
    BY <2>1, <2>2
<1>7. PICK g \in [SUBSET S -> Int] :
        \A s \in SUBSET S : Cardinality(s) <= n - 1 => Equation(f, g, s)
  BY <1>6
<1> DEFINE h == [s \in SUBSET S |->
                   IF s = {} THEN 0 ELSE f[Pick(s)].size + g[s \ {Pick(s)}]]
<1>8. h \in [SUBSET S -> Int]
  <2>1. ASSUME NEW s \in SUBSET S, s # {}
        PROVE  f[Pick(s)].size + g[s \ {Pick(s)}] \in Int
    <3>1. Pick(s) \in S /\ s \ {Pick(s)} \in SUBSET S
      BY <2>1, <1>3, PickSmaller
    <3>2. QED
      BY <3>1 DEF Weighs
  <2>2. QED
    BY <2>1
<1>9. ASSUME NEW s \in SUBSET S, Cardinality(s) <= n
      PROVE  Equation(f, h, s)
  <2>1. CASE s = {}
    BY <2>1 DEF Equation
  <2>2. CASE s # {}
    <3> DEFINE r == s \ {Pick(s)}
    <3>1. r \in SUBSET S /\ Cardinality(r) <= n - 1
      BY <1>3, <1>5, <1>9, <2>2, PickSmaller
    <3>2. h[r] = g[r]
      BY <1>7, <3>1 DEF Equation
    <3>3. h[s] = f[Pick(s)].size + g[r]
      BY <2>2
    <3>4. QED
      BY <2>2, <3>2, <3>3 DEF Equation
  <2>3. QED
    BY <2>1, <2>2
<1>10. P(n)
  <2> HIDE DEF h
  <2> QED
    BY <1>8, <1>9
<1>11. QED
  BY <1>2, <1>10

\* The function iterated satisfies its equation.
LEMMA IterSolves ==
  ASSUME NEW f, NEW S, Weighs(f, S)
  PROVE  Satisfies(f, Iter(f, S), S)
<1>1. IsFiniteSet(S) /\ Cardinality(S) \in Nat
  BY FS_CardinalityType DEF Weighs
<1>2. PICK g \in [SUBSET S -> Int] : \A s \in SUBSET S :
        Cardinality(s) <= Cardinality(S) => Equation(f, g, s)
  BY <1>1, SolvedTo
<1>3. \A s \in SUBSET S : Cardinality(s) <= Cardinality(S)
  BY <1>1, FS_Subset
<1>4. Solves(f, S, g)
  BY <1>2, <1>3 DEF Solves, Equation
<1>5. Solves(f, S, Iter(f, S))
  BY <1>4 DEF Iter
<1>6. ASSUME NEW s \in SUBSET S, NEW h, Solves(f, S, h)
      PROVE  Equation(f, h, s)
  BY <1>6 DEF Solves, Equation
<1>7. QED
  BY <1>5, <1>6 DEF Satisfies

\* Two functions that satisfy it agree where the sizes do.
LEMMA SolutionsAgree ==
  ASSUME NEW f, NEW h, NEW g, NEW k, NEW T, IsFiniteSet(T),
         Satisfies(f, g, T), Satisfies(h, k, T), SameSizes(f, h, T)
  PROVE  g[T] = k[T]
<1> DEFINE C == {s \in SUBSET T : g[s] # k[s]}
<1>1. SUFFICES ASSUME C # {} PROVE FALSE
  OBVIOUS
<1>2. PICK s \in C : \A r \in C : Cardinality(s) <= Cardinality(r)
  <2>1. C \in SUBSET (SUBSET T)
    OBVIOUS
  <2> HIDE DEF C
  <2>2. QED
    BY <1>1, <2>1, Smallest
<1>3. s \in SUBSET T /\ IsFiniteSet(s)
  BY FS_Subset
<1>4. CASE s = {}
  BY <1>3, <1>4 DEF Satisfies, Equation
<1>5. CASE s # {}
  <2>1. Pick(s) \in s
    BY <1>5 DEF Pick
  <2>2. Pick(s) \in T /\ s \ {Pick(s)} \in SUBSET T
    BY <1>3, <2>1
  <2>3. ~(Cardinality(s) <= Cardinality(s \ {Pick(s)}))
    BY <1>3, <2>1, FewerWithout
  <2>4. g[s \ {Pick(s)}] = k[s \ {Pick(s)}]
    BY <1>2, <2>2, <2>3
  <2>5. QED
    BY <1>3, <1>5, <2>2, <2>4 DEF Satisfies, Equation, SameSizes
<1>6. QED
  BY <1>4, <1>5

-----------------------------------------------------------------------------
(* Sums.                                                                   *)

\* The sum, as the function iterated gives it.
LEMMA SumIter ==
  ASSUME NEW f, NEW T
  PROVE  SizeSum(f, T) = Iter(f, T)[T]
  BY DEF SizeSum, MapThenSumSet, MapThenFoldSet, Iter, Solves, Pick

\* Only the sizes of the entries of T matter.
LEMMA SumSame ==
  ASSUME NEW f, NEW h, NEW T, Weighs(f, T),
         SameSizes(f, h, T)
  PROVE  SizeSum(f, T) = SizeSum(h, T)
<1>1. Weighs(h, T)
  BY DEF Weighs, SameSizes
<1>2. Satisfies(f, Iter(f, T), T) /\ Satisfies(h, Iter(h, T), T)
  BY <1>1, IterSolves
<1>3. IsFiniteSet(T)
  BY DEF Weighs
<1>4. Iter(f, T)[T] = Iter(h, T)[T]
  BY <1>2, <1>3, SolutionsAgree
<1>5. QED
  BY <1>4, SumIter

\* Nothing weighs nothing.
LEMMA SumEmpty ==
  ASSUME NEW f
  PROVE  SizeSum(f, {}) = 0
<1>1. Weighs(f, {})
  BY FS_EmptySet DEF Weighs
<1>2. QED
  BY <1>1, IterSolves, SumIter DEF Satisfies, Equation

\* The sum, one element less.
LEMMA SumPick ==
  ASSUME NEW f, NEW T, Weighs(f, T), T # {}
  PROVE  /\ Pick(T) \in T
         /\ Weighs(f, T \ {Pick(T)})
         /\ SizeSum(f, T) = f[Pick(T)].size + SizeSum(f, T \ {Pick(T)})
<1> DEFINE R == T \ {Pick(T)}
<1>1. Pick(T) \in T /\ Weighs(f, R)
  BY PickSmaller DEF Weighs
<1>2. Iter(f, T)[T] = f[Pick(T)].size + Iter(f, T)[R]
  BY IterSolves DEF Satisfies, Equation
<1>3. Iter(f, T)[R] = Iter(f, R)[R]
  <2>1. Satisfies(f, Iter(f, T), R) /\ Satisfies(f, Iter(f, R), R)
    BY <1>1, IterSolves DEF Satisfies
  <2>2. IsFiniteSet(R) /\ SameSizes(f, f, R)
    BY <1>1 DEF Weighs, SameSizes
  <2> HIDE DEF R
  <2>3. QED
    BY <2>1, <2>2, SolutionsAgree
<1>4. QED
  BY <1>1, <1>2, <1>3, SumIter

\* A sum of naturals is a natural.
LEMMA SumNat ==
  ASSUME NEW f, NEW T, IsFiniteSet(T), \A s \in T : f[s].size \in Nat
  PROVE  SizeSum(f, T) \in Nat
<1> DEFINE C == {s \in SUBSET T : SizeSum(f, s) \notin Nat}
<1>1. SUFFICES ASSUME C # {} PROVE FALSE
  OBVIOUS
<1>2. PICK s \in C : \A r \in C : Cardinality(s) <= Cardinality(r)
  <2>1. C \in SUBSET (SUBSET T)
    OBVIOUS
  <2> HIDE DEF C
  <2>2. QED
    BY <1>1, <2>1, Smallest
<1>3. s \in SUBSET T /\ IsFiniteSet(s) /\ Weighs(f, s)
  BY FS_Subset DEF Weighs
<1>4. s # {}
  BY <1>2, SumEmpty
<1>5. ~(Cardinality(s) <= Cardinality(s \ {Pick(s)}))
  <2>1. Pick(s) \in s
    BY <1>4 DEF Pick
  <2>2. QED
    BY <1>3, <2>1, FewerWithout
<1>6. SizeSum(f, s \ {Pick(s)}) \in Nat
  BY <1>2, <1>3, <1>5
<1>7. QED
  BY <1>2, <1>3, <1>4, <1>6, SumPick

\* An element more adds its size.
LEMMA SumAdd ==
  ASSUME NEW f, NEW T, IsFiniteSet(T), \A s \in T : f[s].size \in Nat,
         NEW x, x \notin T, f[x].size \in Nat
  PROVE  SizeSum(f, T \cup {x}) = SizeSum(f, T) + f[x].size
<1> DEFINE U == T \cup {x}
           Fails(s) == \E y \in U \ s :
                         SizeSum(f, s \cup {y}) # SizeSum(f, s) + f[y].size
           C == {s \in SUBSET U : Fails(s)}
<1>1. IsFiniteSet(U) /\ \A s \in U : f[s].size \in Nat
  BY FS_AddElement
<1>2. SUFFICES ASSUME C # {} PROVE FALSE
  OBVIOUS
<1>3. PICK s \in C : \A r \in C : Cardinality(s) <= Cardinality(r)
  <2>1. C \in SUBSET (SUBSET U)
    OBVIOUS
  <2> HIDE DEF C, U
  <2>2. QED
    BY <1>1, <1>2, <2>1, Smallest
<1>4. PICK y \in U \ s : SizeSum(f, s \cup {y}) # SizeSum(f, s) + f[y].size
  BY <1>3
<1> DEFINE V == s \cup {y}
           z == Pick(V)
<1> HIDE DEF U
<1>5. s \in SUBSET U /\ y \in U /\ y \notin s /\ V \in SUBSET U /\ V # {}
  BY <1>3, <1>4
<1>6. /\ IsFiniteSet(s) /\ Weighs(f, s) /\ Weighs(f, V)
      /\ \A r \in SUBSET U : SizeSum(f, r) \in Nat
  BY <1>1, <1>5, FS_Subset, SumNat DEF Weighs
<1>7. z \in V /\ SizeSum(f, V) = f[z].size + SizeSum(f, V \ {z})
  BY <1>5, <1>6, SumPick
<1>8. CASE z = y
  <2>1. V \ {z} = s
    BY <1>5, <1>8
  <2>2. SizeSum(f, s) \in Nat /\ f[y].size \in Nat
    BY <1>1, <1>5, <1>6
  <2>3. SizeSum(f, V) = f[y].size + SizeSum(f, s)
    BY <1>7, <1>8, <2>1
  <2> HIDE DEF z
  <2>4. QED
    BY <1>4, <2>2, <2>3
<1>9. CASE z # y
  <2> DEFINE r == s \ {z}
  <2> HIDE DEF z
  <2>1. z \in s /\ r \in SUBSET U /\ z \in U \ r /\ y \in U \ r
    BY <1>5, <1>7, <1>9
  <2>2. r \notin C
    <3>1. ~(Cardinality(s) <= Cardinality(r))
      BY <1>6, <2>1, FewerWithout
    <3>2. QED
      BY <1>3, <3>1
  <2>3. /\ SizeSum(f, r \cup {y}) = SizeSum(f, r) + f[y].size
        /\ SizeSum(f, r \cup {z}) = SizeSum(f, r) + f[z].size
    BY <2>1, <2>2
  <2>4. r \cup {z} = s /\ r \cup {y} = V \ {z}
    BY <1>9, <2>1
  <2>5. /\ SizeSum(f, s) \in Nat /\ SizeSum(f, r) \in Nat
        /\ f[y].size \in Nat /\ f[z].size \in Nat
    BY <1>1, <1>5, <1>6, <2>1
  <2>6. /\ SizeSum(f, V \ {z}) = SizeSum(f, r) + f[y].size
        /\ SizeSum(f, s) = SizeSum(f, r) + f[z].size
    BY <2>3, <2>4
  <2>7. SizeSum(f, V) = SizeSum(f, s) + f[y].size
    <3> HIDE DEF V, r
    <3> QED
      BY <1>7, <2>5, <2>6
  <2>8. QED
    BY <1>4, <2>7
<1>10. QED
  BY <1>8, <1>9

\* The sum over a set is that over a part of it and that over the rest.
LEMMA SumSplit ==
  ASSUME NEW f, NEW T, IsFiniteSet(T), \A s \in T : f[s].size \in Nat,
         NEW R \in SUBSET T
  PROVE  SizeSum(f, T) = SizeSum(f, R) + SizeSum(f, T \ R)
<1> DEFINE C == {s \in SUBSET T : SizeSum(f, T) # SizeSum(f, s) + SizeSum(f, T \ s)}
<1>1. SUFFICES ASSUME C # {} PROVE FALSE
  OBVIOUS
<1>2. PICK s \in C : \A r \in C : Cardinality(s) <= Cardinality(r)
  <2>1. C \in SUBSET (SUBSET T)
    OBVIOUS
  <2> HIDE DEF C
  <2> QED
    BY <1>1, <2>1, Smallest
<1>3. /\ s \in SUBSET T /\ IsFiniteSet(s)
      /\ \A r \in SUBSET T : IsFiniteSet(r) /\ SizeSum(f, r) \in Nat
  BY <1>2, FS_Subset, SumNat
<1>4. CASE s = {}
  <2>1. T \ s = T /\ SizeSum(f, s) = 0 /\ SizeSum(f, T) \in Nat
    BY <1>3, <1>4, SumEmpty
  <2>2. SizeSum(f, T) # SizeSum(f, s) + SizeSum(f, T \ s)
    BY <1>2
  <2> QED
    BY <2>1, <2>2
<1>5. CASE s # {}
  <2>1. PICK x \in s : TRUE
    BY <1>5
  <2> DEFINE r == s \ {x}
             q == T \ s
  <2>2. /\ r \in SUBSET T /\ q \in SUBSET T /\ x \in T /\ x \notin r /\ x \notin q
        /\ r \cup {x} = s /\ q \cup {x} = T \ r
    BY <1>3, <2>1
  <2>3. r \notin C
    <3>1. ~(Cardinality(s) <= Cardinality(r))
      BY <1>3, <2>1, FewerWithout
    <3> HIDE DEF C, r
    <3> QED
      BY <1>2, <3>1
  <2>4. SizeSum(f, T) = SizeSum(f, r) + SizeSum(f, T \ r)
    BY <2>2, <2>3
  <2> HIDE DEF r, q
  <2>5. /\ SizeSum(f, s) = SizeSum(f, r) + f[x].size
        /\ SizeSum(f, T \ r) = SizeSum(f, q) + f[x].size
    <3>1. /\ IsFiniteSet(r) /\ IsFiniteSet(q) /\ f[x].size \in Nat
          /\ \A y \in r : f[y].size \in Nat
          /\ \A y \in q : f[y].size \in Nat
      BY <1>3, <2>2
    <3>2. SizeSum(f, r \cup {x}) = SizeSum(f, r) + f[x].size
      BY <2>2, <3>1, SumAdd
    <3>3. SizeSum(f, q \cup {x}) = SizeSum(f, q) + f[x].size
      BY <2>2, <3>1, SumAdd
    <3> QED
      BY <2>2, <3>2, <3>3
  <2>6. /\ SizeSum(f, r) \in Nat /\ SizeSum(f, q) \in Nat /\ f[x].size \in Nat
    BY <1>3, <2>2
  <2>7. SizeSum(f, T) # SizeSum(f, s) + SizeSum(f, q)
    BY <1>2 DEF q
  <2> QED
    BY <2>4, <2>5, <2>6, <2>7
<1> QED
  BY <1>4, <1>5

\* An element is added, or has more size.
LEMMA SumRaised ==
  ASSUME NEW f, NEW h, NEW D, IsFiniteSet(D), \A s \in D : f[s].size \in Nat,
         NEW x, NEW z \in Nat,
         \A s \in D \ {x} : h[s].size = f[s].size,
         h[x].size = IF x \in D THEN f[x].size + z ELSE z
  PROVE  SizeSum(h, D \cup {x}) = SizeSum(f, D) + z
<1> DEFINE R == D \ {x}
<1>1. /\ IsFiniteSet(R) /\ IsFiniteSet(D)
      /\ \A s \in R : f[s].size \in Nat
      /\ \A s \in R : h[s].size \in Nat
      /\ x \notin R /\ R \cup {x} = D \cup {x}
      /\ x \in D => R \cup {x} = D
      /\ h[x].size \in Nat /\ SameSizes(f, h, R) /\ Weighs(f, R)
  BY FS_Subset DEF SameSizes, Weighs
<1> HIDE DEF R
<1>2. SizeSum(f, R) = SizeSum(h, R) /\ SizeSum(f, R) \in Nat
  BY <1>1, SumSame, SumNat
<1>3. SizeSum(h, D \cup {x}) = SizeSum(h, R) + h[x].size
  <2>1. SizeSum(h, R \cup {x}) = SizeSum(h, R) + h[x].size
    BY <1>1, SumAdd, Zenon
  <2> QED
    BY <1>1, <2>1
<1>4. CASE x \in D
  <2>1. f[x].size \in Nat
    BY <1>4
  <2>2. SizeSum(f, R \cup {x}) = SizeSum(f, R) + f[x].size
    BY <1>1, <2>1, SumAdd, Zenon
  <2>3. SizeSum(f, D) = SizeSum(f, R) + f[x].size
    BY <1>1, <1>4, <2>2
  <2>4. h[x].size = f[x].size + z
    BY <1>4
  <2> QED
    BY <1>2, <1>3, <2>1, <2>3, <2>4
<1>5. CASE x \notin D
  <2>1. R = D /\ h[x].size = z
    BY <1>5 DEF R
  <2> QED
    BY <1>2, <1>3, <2>1
<1> QED
  BY <1>4, <1>5

\* A sum over the first m places.
LEMMA SumTo ==
  ASSUME NEW f, NEW n \in Nat, \A i \in 1 .. n : f[i].size \in Nat
  PROVE  /\ SizeSum(f, 1 .. 0) = 0
         /\ \A m \in 1 .. n : SizeSum(f, 1 .. m) = SizeSum(f, 1 .. (m - 1)) + f[m].size
         /\ \A m \in 0 .. n : SizeSum(f, 1 .. m) \in Nat
<1>1. 1 .. 0 = {}
  OBVIOUS
<1>2. ASSUME NEW m \in 0 .. n
      PROVE  SizeSum(f, 1 .. m) \in Nat
  <2>1. IsFiniteSet(1 .. m)
    <3>1. m \in Int /\ 1 \in Int
      OBVIOUS
    <3> QED
      BY ONLY <3>1, FS_Interval
  <2>2. \A i \in 1 .. m : f[i].size \in Nat
    OBVIOUS
  <2> QED
    BY <2>1, <2>2, SumNat
<1>3. ASSUME NEW m \in 1 .. n
      PROVE  SizeSum(f, 1 .. m) = SizeSum(f, 1 .. (m - 1)) + f[m].size
  <2> DEFINE S == 1 .. (m - 1)
  <2>1. /\ m \notin S /\ S \cup {m} = 1 .. m /\ f[m].size \in Nat
        /\ \A i \in S : f[i].size \in Nat
    OBVIOUS
  <2>2. IsFiniteSet(S)
    BY FS_Interval
  <2> HIDE DEF S
  <2>3. SizeSum(f, S \cup {m}) = SizeSum(f, S) + f[m].size
    BY <2>1, <2>2, SumAdd
  <2> QED
    BY <2>1, <2>3 DEF S
<1> QED
  BY <1>1, <1>2, <1>3, SumEmpty

\* A sum of differences, and one of no less.
LEMMA SumCompared ==
  ASSUME NEW T, IsFiniteSet(T), NEW f, NEW g, NEW h,
         \A s \in T : f[s].size \in Nat, \A s \in T : g[s].size \in Nat,
         \A s \in T : h[s].size = f[s].size - g[s].size
  PROVE  /\ SizeSum(h, T) = SizeSum(f, T) - SizeSum(g, T)
         /\ (\A s \in T : g[s].size <= f[s].size) => SizeSum(g, T) <= SizeSum(f, T)
<1> DEFINE less(R) == \A s \in R : g[s].size <= f[s].size
           Q(R) == /\ SizeSum(h, R) = SizeSum(f, R) - SizeSum(g, R)
                   /\ less(T) => SizeSum(g, R) <= SizeSum(f, R)
           C == {R \in SUBSET T : ~Q(R)}
<1>1. SUFFICES ASSUME C # {} PROVE FALSE
  BY Zenon
<1>2. PICK R \in C : \A S \in C : Cardinality(R) <= Cardinality(S)
  <2>1. C \in SUBSET (SUBSET T)
    OBVIOUS
  <2> HIDE DEF C
  <2> QED
    BY <1>1, <2>1, Smallest
<1>3. /\ R \in SUBSET T /\ IsFiniteSet(R)
      /\ Weighs(f, R) /\ Weighs(g, R) /\ Weighs(h, R)
      /\ \A S \in SUBSET R : SizeSum(f, S) \in Nat /\ SizeSum(g, S) \in Nat
  <2>1. R \in SUBSET T /\ IsFiniteSet(R)
    BY FS_Subset
  <2>2. \A S \in SUBSET R : IsFiniteSet(S)
    BY <2>1, FS_Subset
  <2>3. \A S \in SUBSET R : SizeSum(f, S) \in Nat
    BY <2>1, <2>2, SumNat
  <2>4. \A S \in SUBSET R : SizeSum(g, S) \in Nat
    BY <2>1, <2>2, SumNat
  <2>5. \A s \in R : h[s].size \in Int
    BY <2>1
  <2> HIDE DEF C
  <2> QED
    BY <2>1, <2>3, <2>4, <2>5 DEF Weighs
<1>4. CASE R = {}
  <2>1. SizeSum(f, R) = 0 /\ SizeSum(g, R) = 0 /\ SizeSum(h, R) = 0
    BY <1>4, SumEmpty
  <2>2. Q(R)
    BY <2>1
  <2> QED
    BY <1>2, <2>2
<1>5. CASE R # {}
  <2> DEFINE x == Pick(R)
             S == R \ {x}
  <2>1. /\ x \in R
        /\ SizeSum(f, R) = f[x].size + SizeSum(f, S)
        /\ SizeSum(g, R) = g[x].size + SizeSum(g, S)
        /\ SizeSum(h, R) = h[x].size + SizeSum(h, S)
    BY <1>3, <1>5, SumPick
  <2> HIDE DEF x
  <2>2. S \in SUBSET T /\ S \in SUBSET R /\ ~(Cardinality(R) <= Cardinality(S))
    BY <1>3, <2>1, FewerWithout
  <2>3. Q(S)
    <3>1. S \notin C
      BY <1>2, <2>2
    <3> HIDE DEF Q
    <3> QED
      BY <2>2, <3>1
  <2>4. /\ f[x].size \in Nat /\ g[x].size \in Nat /\ h[x].size = f[x].size - g[x].size
        /\ less(T) => g[x].size <= f[x].size
    BY <1>3, <2>1
  <2>5. SizeSum(f, S) \in Nat /\ SizeSum(g, S) \in Nat
    BY <1>3, <2>2
  <2> HIDE DEF S, less, C
  <2>6. Q(R)
    BY <2>1, <2>3, <2>4, <2>5
  <2> HIDE DEF Q
  <2> QED
    BY <1>2, <2>6 DEF C
<1> QED
  BY <1>4, <1>5

\* What weighs nothing does not count.
LEMMA SumExtended ==
  ASSUME NEW U, IsFiniteSet(U), NEW D \in SUBSET U, NEW f,
         \A s \in U : f[s].size \in Nat, \A s \in U \ D : f[s].size = 0
  PROVE  SizeSum(f, U) = SizeSum(f, D)
<1> DEFINE R == U \ D
<1>1. IsFiniteSet(R) /\ IsFiniteSet(D)
  BY FS_Subset
<1>2. /\ \A s \in R : f[s].size \in Nat
      /\ \A s \in D : f[s].size \in Nat
      /\ \A s \in R : f[s].size = f[s].size - f[s].size
  OBVIOUS
<1>3. SizeSum(f, U) = SizeSum(f, D) + SizeSum(f, R)
  BY SumSplit
<1> HIDE DEF R
<1>4. SizeSum(f, R) \in Nat /\ SizeSum(f, D) \in Nat
  BY <1>1, <1>2, SumNat
<1>5. SizeSum(f, R) = SizeSum(f, R) - SizeSum(f, R)
  BY <1>1, <1>2, SumCompared
<1> QED
  BY <1>3, <1>4, <1>5

=============================================================================
