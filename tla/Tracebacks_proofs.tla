-------------------------- MODULE Tracebacks_proofs --------------------------
(***************************************************************************)
(* Proofs about Tracebacks and Snapshot: for any number of strings,        *)
(* blocks, tracebacks and tuples and stacks of any depth, whatever         *)
(* allocation fails.                                                       *)
(*                                                                         *)
(* FilterTraces, TallyAll and GroupBy are folds: recursive functions over  *)
(* the sets of places of a sequence.  FoldExists says that they have a     *)
(* solution; the lemmas FilterSteps, TallySteps and GroupSteps draw from   *)
(* it what each does, element by element.                                  *)
(***************************************************************************)
EXTENDS Snapshot, Sizes_proofs

Frame == [filename : Strings \cup {Unknown}, lineno : Nat]

\* Types of what TypeOK leaves open.
TypeInv ==
  /\ text \in [Strings -> Texts \cup {"freed"}]
  /\ refs \in [Strings \cup {Unknown} -> Nat]
  /\ held \subseteq Strings /\ filenames \subseteq Strings
  /\ tracing \in BOOLEAN
  /\ maxNframe \in Nat \ {0} /\ room \in Nat
  /\ limit \in Nat /\ restarted \in BOOLEAN
  /\ DOMAIN interned \subseteq TbPtrs
  /\ \A b \in DOMAIN interned : interned[b] \in Seq(Frame)

TracesInv ==
  /\ IsFiniteSet(DOMAIN traces)
  /\ \A p \in DOMAIN traces :
       /\ traces[p].size \in Sizes
       /\ traces[p].traceback \in DOMAIN interned \cup {EmptyTb}

TuplesInv ==
  /\ IsFiniteSet(DOMAIN tuples) /\ DOMAIN tuples \subseteq Tuples
  /\ \A u \in DOMAIN tuples : tuples[u] \in [frames : Seq(Frame), refs : Nat \ {0}]
  /\ list \in Seq([size : Sizes, traceback : Tuples])
  /\ \A i \in DOMAIN list : list[i].traceback \in DOMAIN tuples

\* A conversion reads the tables while they do not change; its tuples are
\* those of the tracebacks it has met, one each.
ReadingInv ==
  /\ reading \in [left : SUBSET DOMAIN traces, made : {reading.made},
                  err : BOOLEAN, on : BOOLEAN]
  /\ ~reading.on => reading = NotReading
  /\ reading.on => tracing
  /\ IsFiniteSet(DOMAIN reading.made)
  /\ DOMAIN reading.made \subseteq DOMAIN interned \cup {EmptyTb}
  /\ \A b \in DOMAIN reading.made :
       /\ reading.made[b] \in DOMAIN tuples
       /\ tuples[reading.made[b]].frames = FramesOf(b)
  /\ \A b, c \in DOMAIN reading.made : reading.made[b] = reading.made[c] => b = c

\* Strings that are alive say something.
TextInv == \A s \in Strings : refs[s] > 0 => text[s] \in Texts

\* Nothing is stored while nothing is traced; the buffer has room for the limit.
TracingInv ==
  /\ tracing => room = maxNframe
  /\ ~tracing => DOMAIN interned = {} /\ DOMAIN traces = {} /\ filenames = {} /\ room = 0
  /\ \A b \in DOMAIN interned : Len(interned[b]) \in 1 .. room

\* Filenames that tracebacks borrow are interned, and interned ones differ.
BorrowInv ==
  /\ \A b \in DOMAIN interned : \A i \in DOMAIN interned[b] :
       interned[b][i].filename \in filenames \cup {Unknown}
  /\ \A s, t \in filenames : text[s] = text[t] => s = t
  /\ \A b, c \in DOMAIN interned : interned[b] = interned[c] => b = c

\* RefsBalance, with names for what it counts.
Owned(t, D, s) == MapThenSumSet(LAMBDA u : Count(Names(t[u].frames), s), D)
Tracks(l) == [i \in DOMAIN l |-> l[i].traceback]
Makers(m, u) == {b \in DOMAIN m : m[b] = u}

RefsInv ==
  /\ \A s \in Strings \cup {Unknown} :
       refs[s] = (IF s \in held \cup {Unknown} THEN 1 ELSE 0)
         + (IF s \in filenames THEN 1 ELSE 0) + Owned(tuples, DOMAIN tuples, s)
  /\ \A u \in DOMAIN tuples :
       tuples[u].refs = Count(Tracks(list), u) + Cardinality(Makers(reading.made, u))

\* The limit of a list is asked for once it is made.  Until then its tuples fit
\* the one in force, from then on the one that was told, unless start() came
\* in between.
FitInv ==
  /\ reading.on \/ list = <<>> => limit = 0 /\ ~restarted
  /\ \A u \in DOMAIN tuples :
       /\ Len(tuples[u].frames) >= 1
       /\ ~restarted =>
            Len(tuples[u].frames) <= (IF limit = 0 THEN maxNframe ELSE limit)

\* A trace says where its block was allocated.
SaysTrue(p) ==
  LET frames == FramesOf(traces[p].traceback)
  IN IF origin[p] = <<>> THEN traces[p].traceback = EmptyTb
     ELSE /\ traces[p].traceback \in DOMAIN interned
          /\ DOMAIN frames = DOMAIN origin[p]
          /\ \A i \in DOMAIN frames :
               /\ frames[i].lineno = origin[p][i].lineno
               /\ \/ TextOf(frames[i].filename) = origin[p][i].file
                  \/ MayFail /\ frames[i].filename = Unknown

OriginInv == \A p \in DOMAIN traces : SaysTrue(p)
OriginDomain == DOMAIN origin = DOMAIN traces

\* What a conversion that has not failed has put into the list: as many
\* entries of each size and traceback as there are traces it has read.
Listed(z, frames) ==
  {i \in DOMAIN list : list[i].size = z /\ tuples[list[i].traceback].frames = frames}
Read(z, frames) ==
  {p \in DOMAIN traces \ reading.left :
     traces[p].size = z /\ FramesOf(traces[p].traceback) = frames}

ListInv ==
  reading.on /\ ~reading.err =>
    /\ Len(list) = Cardinality(DOMAIN traces \ reading.left)
    /\ \A z \in Sizes, b \in DOMAIN interned \cup {EmptyTb} :
         Cardinality(Listed(z, FramesOf(b))) = Cardinality(Read(z, FramesOf(b)))

IInv ==
  /\ TypeInv
  /\ TracesInv
  /\ TuplesInv
  /\ ReadingInv
  /\ TextInv
  /\ TracingInv
  /\ BorrowInv
  /\ RefsInv
  /\ FitInv
  /\ OriginInv
  /\ OriginDomain
  /\ ListInv

-----------------------------------------------------------------------------
(* Counting.                                                               *)

\* How often x is in a sequence, and in one that is longer.
LEMMA CountEmpty == ASSUME NEW x PROVE Count(<<>>, x) = 0
<1>1. {i \in DOMAIN <<>> : <<>>[i] = x} = {}
  OBVIOUS
<1> QED
  BY <1>1, FS_EmptySet DEF Count

LEMMA PlacesFinite ==
  ASSUME NEW S, NEW seq \in Seq(S), NEW P \in SUBSET DOMAIN seq
  PROVE  IsFiniteSet(P) /\ Cardinality(P) \in Nat
<1>1. Len(seq) \in Nat /\ DOMAIN seq = 1 .. Len(seq)
  OBVIOUS
<1>2. IsFiniteSet(DOMAIN seq)
  BY <1>1, FS_Interval
<1> QED
  BY <1>2, FS_Subset, FS_CardinalityType

LEMMA CountNat ==
  ASSUME NEW S, NEW seq \in Seq(S), NEW x
  PROVE  Count(seq, x) \in Nat
<1>1. {i \in DOMAIN seq : seq[i] = x} \in SUBSET DOMAIN seq
  OBVIOUS
<1> QED
  BY <1>1, PlacesFinite DEF Count

LEMMA AppendIs ==
  ASSUME NEW S, NEW seq \in Seq(S), NEW y \in S
  PROVE  /\ Append(seq, y) \in Seq(S)
         /\ Len(seq) \in Nat /\ Len(Append(seq, y)) = Len(seq) + 1
         /\ DOMAIN seq = 1 .. Len(seq)
         /\ DOMAIN Append(seq, y) = DOMAIN seq \cup {Len(seq) + 1}
         /\ Len(seq) + 1 \notin DOMAIN seq
         /\ \A i \in DOMAIN seq : Append(seq, y)[i] = seq[i]
         /\ Append(seq, y)[Len(seq) + 1] = y
<1>1. /\ Append(seq, y) \in Seq(S)
      /\ Len(seq) \in Nat /\ Len(Append(seq, y)) = Len(seq) + 1
      /\ DOMAIN seq = 1 .. Len(seq)
      /\ DOMAIN Append(seq, y) = 1 .. (Len(seq) + 1)
      /\ \A i \in 1 .. Len(seq) : Append(seq, y)[i] = seq[i]
      /\ Append(seq, y)[Len(seq) + 1] = y
  OBVIOUS
<1>2. \A n \in Nat : 1 .. (n + 1) = (1 .. n) \cup {n + 1} /\ n + 1 \notin 1 .. n
  OBVIOUS
<1> QED
  BY <1>1, <1>2

\* One entry more, and the places of a kind with it or without it.
LEMMA PlacesAppend ==
  ASSUME NEW S, NEW seq \in Seq(S), NEW y \in S,
         NEW P \in SUBSET DOMAIN seq, NEW Q \in SUBSET DOMAIN Append(seq, y),
         Q = P \/ Q = P \cup {Len(seq) + 1}
  PROVE  Cardinality(Q) = Cardinality(P) + (IF Q = P THEN 0 ELSE 1)
<1>1. IsFiniteSet(P) /\ Cardinality(P) \in Nat
  BY PlacesFinite
<1>2. Len(seq) + 1 \notin P
  BY AppendIs
<1> QED
  BY <1>1, <1>2, FS_AddElement

LEMMA CountAppend ==
  ASSUME NEW S, NEW seq \in Seq(S), NEW y \in S, NEW x
  PROVE  Count(Append(seq, y), x) = Count(seq, x) + (IF x = y THEN 1 ELSE 0)
<1> DEFINE P == {i \in DOMAIN seq : seq[i] = x}
           Q == {i \in DOMAIN Append(seq, y) : Append(seq, y)[i] = x}
<1>1. P \in SUBSET DOMAIN seq /\ Q \in SUBSET DOMAIN Append(seq, y)
  OBVIOUS
<1>2. Q = IF x = y THEN P \cup {Len(seq) + 1} ELSE P
  BY AppendIs
<1>3. Len(seq) + 1 \notin P
  BY AppendIs
<1>4. Cardinality(Q) = Cardinality(P) + (IF Q = P THEN 0 ELSE 1)
  <2>1. Q = P \/ Q = P \cup {Len(seq) + 1}
    BY <1>2
  <2> HIDE DEF P, Q
  <2> QED
    BY <1>1, <2>1, PlacesAppend
<1>5. Q = P <=> x # y
  BY <1>2, <1>3
<1>6. Cardinality(P) \in Nat
  BY <1>1, PlacesFinite
<1> HIDE DEF P, Q
<1>7. Cardinality(Q) = Cardinality(P) + (IF x = y THEN 1 ELSE 0)
  BY <1>4, <1>5, <1>6
<1> QED
  BY <1>7 DEF Count, P, Q

\* What is in a sequence is in it once at least.
LEMMA CountPositive ==
  ASSUME NEW S, NEW seq \in Seq(S), NEW i \in DOMAIN seq
  PROVE  Count(seq, seq[i]) > 0
<1> DEFINE P == {j \in DOMAIN seq : seq[j] = seq[i]}
<1>1. IsFiniteSet(P) /\ Cardinality(P) \in Nat
  <2>1. P \in SUBSET DOMAIN seq
    OBVIOUS
  <2> HIDE DEF P
  <2> QED
    BY <2>1, PlacesFinite
<1>2. P # {}
  OBVIOUS
<1>3. Cardinality(P) # 0
  <2> HIDE DEF P
  <2> QED
    BY <1>1, <1>2, FS_EmptySet
<1> QED
  BY <1>1, <1>3 DEF Count

-----------------------------------------------------------------------------
(* References that tuples hold to filenames.                               *)

Weight(t, D, s) == [u \in D |-> [size |-> Count(Names(t[u].frames), s)]]

\* Tuples of D that are sequences of frames.
AreTuples(t, D) == IsFiniteSet(D) /\ \A u \in D : t[u].frames \in Seq(Frame)

LEMMA NamesIs ==
  ASSUME NEW f \in Seq(Frame)
  PROVE  /\ Names(f) \in Seq(Strings \cup {Unknown})
         /\ Len(Names(f)) = Len(f) /\ DOMAIN Names(f) = DOMAIN f
         /\ \A i \in DOMAIN f : Names(f)[i] = f[i].filename
<1>1. Len(f) \in Nat /\ DOMAIN f = 1 .. Len(f) /\ \A i \in DOMAIN f : f[i] \in Frame
  OBVIOUS
<1>2. /\ Names(f) = [i \in 1 .. Len(f) |-> f[i].filename]
      /\ \A i \in 1 .. Len(f) : f[i].filename \in Strings \cup {Unknown}
  BY <1>1 DEF Names, Frame
<1> QED
  BY <1>1, <1>2

LEMMA WeightNat ==
  ASSUME NEW t, NEW D, AreTuples(t, D), NEW s
  PROVE  \A u \in D : /\ Weight(t, D, s)[u].size = Count(Names(t[u].frames), s)
                      /\ Count(Names(t[u].frames), s) \in Nat
<1>1. ASSUME NEW u \in D
      PROVE  Count(Names(t[u].frames), s) \in Nat
  BY NamesIs, CountNat DEF AreTuples
<1> QED
  BY <1>1 DEF Weight

\* It is a sum of sizes, to which the lemmas about sums apply.
LEMMA OwnedIsSum ==
  ASSUME NEW t, NEW D, AreTuples(t, D), NEW s
  PROVE  Owned(t, D, s) = SizeSum(Weight(t, D, s), D)
<1> DEFINE f == Weight(t, D, s)
           Sol(g) == g = [r \in SUBSET D |->
                            IF r = {} THEN 0
                            ELSE Count(Names(t[Pick(r)].frames), s) + g[r \ {Pick(r)}]]
           J == CHOOSE g : Sol(g)
<1>1. Owned(t, D, s) = J[D]
  BY DEF Owned, MapThenSumSet, MapThenFoldSet, Pick
<1>2. Weighs(f, D)
  BY WeightNat DEF Weighs, AreTuples
<1>3. \A r \in SUBSET D : r # {} => /\ Pick(r) \in D
                                    /\ f[Pick(r)].size = Count(Names(t[Pick(r)].frames), s)
  <2>1. \A r \in SUBSET D : r # {} => Pick(r) \in r
    BY DEF Pick
  <2> HIDE DEF f
  <2> QED
    BY <2>1, WeightNat DEF f
<1> HIDE DEF f
<1>4. \A g : Solves(f, D, g) => Sol(g)
  BY <1>3 DEF Solves
<1>5. Satisfies(f, Iter(f, D), D)
  BY <1>2, IterSolves
<1>6. PICK h : Solves(f, D, h)
  <2>1. IsFiniteSet(D) /\ Cardinality(D) \in Nat
    BY <1>2, FS_CardinalityType DEF Weighs
  <2>2. PICK g \in [SUBSET D -> Int] : \A r \in SUBSET D :
          Cardinality(r) <= Cardinality(D) => Equation(f, g, r)
    BY <1>2, <2>1, SolvedTo
  <2>3. \A r \in SUBSET D : Cardinality(r) <= Cardinality(D)
    BY <2>1, FS_Subset
  <2> QED
    BY <2>2, <2>3 DEF Solves, Equation
<1>7. Sol(J)
  <2>1. \E g : Sol(g)
    BY <1>4, <1>6
  <2> HIDE DEF Sol
  <2> QED
    BY <2>1
<1> HIDE DEF J
<1>8. Satisfies(f, J, D)
  BY <1>3, <1>7 DEF Satisfies, Equation
<1>9. SameSizes(f, f, D) /\ IsFiniteSet(D)
  BY DEF SameSizes, AreTuples
<1>10. J[D] = Iter(f, D)[D]
  BY <1>5, <1>8, <1>9, SolutionsAgree
<1> QED
  BY <1>1, <1>10, SumIter DEF f

LEMMA OwnedNat ==
  ASSUME NEW t, NEW D, AreTuples(t, D), NEW s
  PROVE  Owned(t, D, s) \in Nat
BY OwnedIsSum, WeightNat, SumNat DEF AreTuples

LEMMA OwnedEmpty == ASSUME NEW t, NEW s PROVE Owned(t, {}, s) = 0
<1>1. AreTuples(t, {})
  BY FS_EmptySet DEF AreTuples
<1> QED
  BY <1>1, OwnedIsSum, SumEmpty

\* Only the frames matter.
LEMMA OwnedSame ==
  ASSUME NEW t, NEW r, NEW D, AreTuples(t, D), NEW s,
         \A u \in D : t[u].frames = r[u].frames
  PROVE  AreTuples(r, D) /\ Owned(t, D, s) = Owned(r, D, s)
<1>1. AreTuples(r, D)
  BY DEF AreTuples
<1>2. /\ Weighs(Weight(t, D, s), D)
      /\ SameSizes(Weight(t, D, s), Weight(r, D, s), D)
  BY <1>1, WeightNat DEF Weighs, SameSizes, AreTuples
<1> QED
  BY <1>1, <1>2, SumSame, OwnedIsSum

LEMMA OwnedAdd ==
  ASSUME NEW t, NEW D, NEW u, u \notin D, AreTuples(t, D \cup {u}), NEW s
  PROVE  Owned(t, D \cup {u}, s) = Owned(t, D, s) + Count(Names(t[u].frames), s)
<1> DEFINE E == D \cup {u}
           f == Weight(t, E, s)
           g == Weight(t, D, s)
<1>1. IsFiniteSet(E) /\ IsFiniteSet(D) /\ AreTuples(t, D)
  BY FS_Subset DEF AreTuples
<1>2. /\ \A v \in E : f[v].size \in Nat /\ f[v].size = Count(Names(t[v].frames), s)
      /\ \A v \in D : g[v].size \in Nat /\ g[v].size = Count(Names(t[v].frames), s)
  BY <1>1, WeightNat
<1>3. Owned(t, E, s) = SizeSum(f, E) /\ Owned(t, D, s) = SizeSum(g, D)
  BY <1>1, OwnedIsSum
<1> HIDE DEF f, g
<1>4. SizeSum(f, D \cup {u}) = SizeSum(f, D) + f[u].size
  <2>1. \A v \in D : f[v].size \in Nat
    BY <1>2
  <2>2. f[u].size \in Nat
    BY <1>2
  <2> QED
    BY <1>1, <2>1, <2>2, SumAdd
<1>5. SizeSum(f, D) = SizeSum(g, D)
  <2>1. Weighs(f, D) /\ SameSizes(f, g, D)
    BY <1>1, <1>2 DEF Weighs, SameSizes
  <2> QED
    BY <2>1, SumSame
<1> QED
  BY <1>2, <1>3, <1>4, <1>5

LEMMA OwnedSplit ==
  ASSUME NEW t, NEW D, AreTuples(t, D), NEW E \in SUBSET D, NEW s
  PROVE  Owned(t, D, s) = Owned(t, E, s) + Owned(t, D \ E, s)
<1> DEFINE f == Weight(t, D, s)
<1>1. /\ IsFiniteSet(D) /\ IsFiniteSet(E) /\ IsFiniteSet(D \ E)
      /\ AreTuples(t, E) /\ AreTuples(t, D \ E)
  BY FS_Subset DEF AreTuples
<1>2. \A v \in D : f[v].size \in Nat /\ f[v].size = Count(Names(t[v].frames), s)
  BY WeightNat
<1>3. Owned(t, D, s) = SizeSum(f, D)
  BY OwnedIsSum
<1> HIDE DEF f
<1>4. SizeSum(f, D) = SizeSum(f, E) + SizeSum(f, D \ E)
  BY <1>1, <1>2, SumSplit
<1>5. ASSUME NEW R \in {E, D \ E}
      PROVE  Owned(t, R, s) = SizeSum(f, R)
  <2>1. AreTuples(t, R) /\ R \subseteq D /\ IsFiniteSet(R)
    BY <1>1
  <2>2. \A v \in R : Weight(t, R, s)[v].size = Count(Names(t[v].frames), s)
    BY <2>1, WeightNat
  <2>3. Weighs(f, R) /\ SameSizes(f, Weight(t, R, s), R)
    BY <1>2, <2>1, <2>2 DEF Weighs, SameSizes
  <2> QED
    BY <2>1, <2>3, SumSame, OwnedIsSum
<1> QED
  BY <1>3, <1>4, <1>5

-----------------------------------------------------------------------------
(* traceback_get_frames().                                                 *)

Base == [filenames |-> filenames, owned |-> {}, frames |-> <<>>]

Walk(c, fails) == FoldLeft(LAMBDA got, frame : GetFrame(got, frame, fails), Base, c)

\* The equation of the function that FoldLeft iterates over sets of places.
Walks(c, fails, g, s) ==
  g[s] = IF s = {} THEN Base ELSE GetFrame(g[s \ {Max(s)}], c[Max(s)], fails)

\* Numbers up to n have a greatest.
LEMMA MaxIs ==
  ASSUME NEW n \in Nat, NEW s \in SUBSET (1 .. n), s # {}
  PROVE  Max(s) \in s /\ \A i \in s : i <= Max(s)
<1> DEFINE T == {n - i : i \in s}
<1>1. T \in SUBSET Nat /\ T # {}
  <2>1. \A i \in s : n - i \in Nat
    OBVIOUS
  <2> QED
    BY <2>1
<1>2. PICK m \in T : \A k \in T : m <= k
  <2> HIDE DEF T
  <2> QED
    BY <1>1, Least
<1>3. PICK j \in s : m = n - j
  BY <1>2
<1>4. \A i \in s : i <= j
  BY <1>2, <1>3
<1>5. \E x \in s : \A y \in s : x >= y
  BY <1>3, <1>4
<1>6. Max(s) \in s /\ \A y \in s : Max(s) >= y
  BY <1>5 DEF Max
<1> QED
  BY <1>6

\* FoldLeft has a solution.
LEMMA WalkedTo ==
  ASSUME NEW c, NEW n \in Nat, NEW fails
  PROVE  \A m \in Nat : \E g : \A s \in SUBSET (1 .. n) :
           Cardinality(s) <= m => Walks(c, fails, g, s)
<1> DEFINE D == 1 .. n
           P(m) == \E g : \A s \in SUBSET D : Cardinality(s) <= m => Walks(c, fails, g, s)
           T == {m \in Nat : ~P(m)}
<1>1. SUFFICES ASSUME T # {} PROVE FALSE
  OBVIOUS
<1>2. PICK m \in T : \A k \in T : m <= k
  <2>1. T \in SUBSET Nat
    OBVIOUS
  <2> HIDE DEF T
  <2> QED
    BY <1>1, <2>1, Least
<1>3. \A s \in SUBSET D : IsFiniteSet(s) /\ Cardinality(s) \in Nat
  <2>1. IsFiniteSet(D)
    BY FS_Interval
  <2> HIDE DEF D
  <2> QED
    BY <2>1, FS_Subset, FS_CardinalityType
<1>4. m # 0
  <2> DEFINE g == [s \in SUBSET D |-> Base]
  <2>1. \A s \in SUBSET D : Cardinality(s) <= 0 => s = {}
    BY <1>3, FS_EmptySet
  <2>2. \A s \in SUBSET D : Cardinality(s) <= 0 => Walks(c, fails, g, s)
    BY <2>1 DEF Walks
  <2>3. P(0)
    <3> HIDE DEF g
    <3> QED
      BY <2>2
  <2> QED
    BY <2>3
<1>5. m \in Nat /\ m - 1 \in Nat /\ m - 1 < m
  BY <1>4
<1>6. P(m - 1)
  <2>1. m - 1 \notin T
    <3> HIDE DEF T
    <3> QED
      BY <1>2, <1>5
  <2> HIDE DEF P
  <2> QED
    BY <1>5, <2>1
<1>7. PICK g : \A s \in SUBSET D : Cardinality(s) <= m - 1 => Walks(c, fails, g, s)
  BY <1>6
<1> DEFINE h == [s \in SUBSET D |->
                   IF s = {} THEN Base
                   ELSE GetFrame(g[s \ {Max(s)}], c[Max(s)], fails)]
<1>8. ASSUME NEW s \in SUBSET D, Cardinality(s) <= m
      PROVE  Walks(c, fails, h, s)
  <2>1. CASE s = {}
    BY <2>1 DEF Walks
  <2>2. CASE s # {}
    <3> DEFINE r == s \ {Max(s)}
    <3>1. Max(s) \in s
      BY <2>2, MaxIs
    <3>2. r \in SUBSET D /\ Cardinality(r) = Cardinality(s) - 1
      BY <1>3, <3>1, FS_RemoveElement
    <3>3. Cardinality(r) <= m - 1
      BY <1>3, <1>5, <1>8, <3>2
    <3>4. Walks(c, fails, g, r)
      BY <1>7, <3>2, <3>3
    <3>5. h[r] = g[r]
      BY <3>2, <3>4 DEF Walks
    <3>6. h[s] = GetFrame(g[r], c[Max(s)], fails)
      BY <2>2
    <3> HIDE DEF h
    <3>7. h[s] = GetFrame(h[r], c[Max(s)], fails)
      BY <3>5, <3>6
    <3> QED
      BY <2>2, <3>7 DEF Walks
  <2> QED
    BY <2>1, <2>2
<1>9. P(m)
  <2> HIDE DEF h
  <2> QED
    BY <1>8
<1> QED
  BY <1>2, <1>9

\* The walk, frame by frame.
LEMMA WalkSteps ==
  ASSUME NEW S, NEW c \in Seq(S), NEW fails
  PROVE  \E g : /\ g[0] = Base
                /\ \A k \in 1 .. Len(c) : g[k] = GetFrame(g[k - 1], c[k], fails)
                /\ Walk(c, fails) = g[Len(c)]
<1> DEFINE n == Len(c)
           Sol(g) == g = [s \in SUBSET (1 .. n) |->
                            IF s = {} THEN Base
                            ELSE GetFrame(g[s \ {Max(s)}], c[Max(s)], fails)]
           J == CHOOSE g : Sol(g)
<1>1. n \in Nat /\ DOMAIN c = 1 .. n
  OBVIOUS
<1> HIDE DEF n
<1>2. Walk(c, fails) = J[1 .. n]
  BY <1>1 DEF Walk, FoldLeft, MapThenFoldSet
<1>3. Sol(J)
  <2>1. IsFiniteSet(1 .. n) /\ Cardinality(1 .. n) \in Nat
    BY <1>1, FS_Interval, FS_CardinalityType
  <2>2. PICK g : \A s \in SUBSET (1 .. n) :
          Cardinality(s) <= Cardinality(1 .. n) => Walks(c, fails, g, s)
    BY <1>1, <2>1, WalkedTo
  <2>3. \A s \in SUBSET (1 .. n) : Cardinality(s) <= Cardinality(1 .. n)
    BY <2>1, FS_Subset
  <2> DEFINE h == [s \in SUBSET (1 .. n) |-> g[s]]
  <2>4. ASSUME NEW s \in SUBSET (1 .. n)
        PROVE  h[s] = IF s = {} THEN Base
                      ELSE GetFrame(h[s \ {Max(s)}], c[Max(s)], fails)
    <3>1. g[s] = IF s = {} THEN Base
                 ELSE GetFrame(g[s \ {Max(s)}], c[Max(s)], fails)
      BY <2>2, <2>3 DEF Walks
    <3>2. h[s] = g[s] /\ h[s \ {Max(s)}] = g[s \ {Max(s)}]
      OBVIOUS
    <3> HIDE DEF h
    <3> QED
      BY <3>1, <3>2
  <2>5. h = [s \in SUBSET (1 .. n) |-> h[s]]
    OBVIOUS
  <2> HIDE DEF h
  <2>6. Sol(h)
    BY <2>4, <2>5
  <2> HIDE DEF Sol
  <2> QED
    BY <2>6
<1> HIDE DEF J
<1> DEFINE g == [k \in 0 .. n |-> J[1 .. k]]
<1>4. J[{}] = Base
  BY <1>3
<1>5. ASSUME NEW k \in 1 .. n
      PROVE  J[1 .. k] = GetFrame(J[1 .. (k - 1)], c[k], fails)
  <2>1. /\ 1 .. k \in SUBSET (1 .. n) /\ 1 .. k # {} /\ k \in 1 .. k
        /\ (1 .. k) \ {k} = 1 .. (k - 1)
    BY <1>1
  <2>2. Max(1 .. k) = k
    <3>1. Max(1 .. k) \in 1 .. k /\ k <= Max(1 .. k)
      BY <1>1, <2>1, MaxIs
    <3> QED
      BY <1>1, <3>1
  <2>3. J[1 .. k] = GetFrame(J[(1 .. k) \ {Max(1 .. k)}], c[Max(1 .. k)], fails)
    BY <1>3, <2>1
  <2> QED
    BY <2>1, <2>2, <2>3
<1>6. /\ g[0] = Base
      /\ \A k \in 1 .. n : g[k] = GetFrame(g[k - 1], c[k], fails)
      /\ Walk(c, fails) = g[n]
  <2>1. 1 .. 0 = {} /\ 0 \in 0 .. n /\ n \in 0 .. n
    BY <1>1
  <2>2. \A k \in 1 .. n : k \in 0 .. n /\ k - 1 \in 0 .. n
    BY <1>1
  <2>3. g[0] = J[1 .. 0] /\ g[n] = J[1 .. n]
    BY <2>1
  <2>4. \A k \in 1 .. n : g[k] = J[1 .. k] /\ g[k - 1] = J[1 .. (k - 1)]
    BY <2>2
  <2> HIDE DEF g
  <2> QED
    BY <1>2, <1>4, <1>5, <2>1, <2>3, <2>4
<1> HIDE DEF g
<1> QED
  BY <1>6 DEF n

\* What traceback_get_frames() has got from the first k frames of c.
IsGot(g) == g = [filenames |-> g.filenames, owned |-> g.owned, frames |-> g.frames]

Got(g, c, fails, k) ==
  /\ IsGot(g)
  /\ g.frames \in Seq(Frame) /\ Len(g.frames) = k
  /\ g.filenames = filenames \cup g.owned /\ g.owned \cap filenames = {}
  /\ g.owned \subseteq held
  /\ \A s, t \in g.filenames : text[s] = text[t] => s = t
  /\ \A i \in 1 .. k :
       /\ g.frames[i].lineno = c[i].lineno
       /\ g.frames[i].filename \in g.filenames \cup {Unknown}
       /\ \/ /\ g.frames[i].filename \in Strings /\ c[i].filename \in Strings
             /\ text[g.frames[i].filename] = text[c[i].filename]
          \/ /\ g.frames[i].filename = Unknown
             /\ fails # {} \/ c[i].filename = Unknown

\* What a frame f adds to g: a filename and a line.
Added(g, f, fails, r) ==
  \E x \in Strings \cup {Unknown} :
       /\ r.frames = Append(g.frames, [filename |-> x, lineno |-> f.lineno])
       /\ \/ /\ x \in Known(g.filenames, f.filename)
             /\ r.filenames = g.filenames /\ r.owned = g.owned
          \/ /\ Known(g.filenames, f.filename) = {}
             /\ x = f.filename /\ x \in Strings \ fails
             /\ r.filenames = g.filenames \cup {x} /\ r.owned = g.owned \cup {x}
          \/ /\ Known(g.filenames, f.filename) = {}
             /\ x = Unknown /\ f.filename \notin Strings \ fails
             /\ r.filenames = g.filenames /\ r.owned = g.owned

LEMMA FrameAdded ==
  ASSUME NEW g, IsGot(g), NEW d
  PROVE  [g EXCEPT !.frames = d]
           = [filenames |-> g.filenames, owned |-> g.owned, frames |-> d]
<1>1. ASSUME NEW a, NEW b, NEW c, g = [filenames |-> a, owned |-> b, frames |-> c]
      PROVE  [g EXCEPT !.frames = d] = [filenames |-> a, owned |-> b, frames |-> d]
  BY <1>1
<1> QED
  BY <1>1, Zenon DEF IsGot

LEMMA NameAdded ==
  ASSUME NEW g, IsGot(g), NEW s, NEW r, r = Intern(g, s)
  PROVE  r = [filenames |-> g.filenames \cup {s}, owned |-> g.owned \cup {s},
              frames |-> Append(g.frames, [filename |-> s, lineno |-> 0])]
<1>1. DOMAIN g = {"filenames", "owned", "frames"}
  BY DEF IsGot
<1>2. PICK d : d = Append(g.frames, [filename |-> s, lineno |-> 0])
  OBVIOUS
<1>3. r = [g EXCEPT !.filenames = g.filenames \cup {s}, !.owned = g.owned \cup {s},
                    !.frames = d]
  BY <1>2, Zenon DEF Intern
<1>4. /\ DOMAIN r = {"filenames", "owned", "frames"}
      /\ r.filenames = g.filenames \cup {s} /\ r.owned = g.owned \cup {s} /\ r.frames = d
  BY <1>1, <1>3
<1>5. r = [x \in {"filenames", "owned", "frames"} |-> r[x]]
  BY <1>1, <1>3
<1> QED
  BY <1>2, <1>4, <1>5

\* tracemalloc_get_frame() adds a frame: the line is that of the frame, the
\* filename one that is interned, is interned now, or is <unknown>.
LEMMA GetFrameEffect ==
  ASSUME NEW g, IsGot(g), g.frames \in Seq(Frame), g.filenames \subseteq Strings,
         NEW f \in Frame, NEW fails, NEW r, r = GetFrame(g, f, fails)
  PROVE  /\ IsGot(r)
         /\ Added(g, f, fails, r)
<1> DEFINE s == f.filename
           known == Known(g.filenames, s)
           New(x) == [filename |-> x, lineno |-> 0]
<1>1. known \subseteq Strings
  BY DEF Known
<1>2. \E x \in Strings \cup {Unknown} : \E o, w :
        /\ r = [[filenames |-> o, owned |-> w, frames |-> Append(g.frames, New(x))]
                  EXCEPT !.frames[Len(Append(g.frames, New(x)))].lineno = f.lineno]
        /\ \/ x \in known /\ o = g.filenames /\ w = g.owned
           \/ /\ known = {} /\ x = s /\ x \in Strings \ fails
              /\ o = g.filenames \cup {x} /\ w = g.owned \cup {x}
           \/ /\ known = {} /\ x = Unknown /\ s \notin Strings \ fails
              /\ o = g.filenames /\ w = g.owned
  <2>1. CASE known # {}
    <3> DEFINE x == CHOOSE t \in known : TRUE
    <3>1. x \in known
      BY <2>1
    <3>2. [g EXCEPT !.frames = Append(@, [filename |-> x, lineno |-> 0])]
            = [filenames |-> g.filenames, owned |-> g.owned,
               frames |-> Append(g.frames, New(x))]
      BY FrameAdded, Zenon
    <3> DEFINE q == [filenames |-> g.filenames, owned |-> g.owned,
                     frames |-> Append(g.frames, New(x))]
    <3>3. r = [q EXCEPT !.frames[Len(q.frames)].lineno = f.lineno]
      BY <2>1, <3>2, Zenon DEF GetFrame
    <3>4. q.frames = Append(g.frames, New(x))
      OBVIOUS
    <3>5. r = [q EXCEPT !.frames[Len(Append(g.frames, New(x)))].lineno = f.lineno]
      BY <3>3, <3>4, Zenon
    <3> HIDE DEF x
    <3> QED
      BY <1>1, <3>1, <3>5
  <2>2. CASE known = {} /\ s \in Strings \ fails
    <3>1. Intern(g, s) = [filenames |-> g.filenames \cup {s}, owned |-> g.owned \cup {s},
                          frames |-> Append(g.frames, New(s))]
      BY NameAdded, Zenon
    <3> DEFINE q == [filenames |-> g.filenames \cup {s}, owned |-> g.owned \cup {s},
                     frames |-> Append(g.frames, New(s))]
    <3>2. r = [q EXCEPT !.frames[Len(q.frames)].lineno = f.lineno]
      BY <2>2, <3>1, Zenon DEF GetFrame
    <3>3. q.frames = Append(g.frames, New(s))
      OBVIOUS
    <3>4. r = [q EXCEPT !.frames[Len(Append(g.frames, New(s)))].lineno = f.lineno]
      BY <3>2, <3>3, Zenon
    <3> QED
      BY <2>2, <3>4
  <2>3. CASE known = {} /\ s \notin Strings \ fails
    <3>1. [g EXCEPT !.frames = Append(@, [filename |-> Unknown, lineno |-> 0])]
            = [filenames |-> g.filenames, owned |-> g.owned,
               frames |-> Append(g.frames, New(Unknown))]
      BY FrameAdded, Zenon
    <3> DEFINE q == [filenames |-> g.filenames, owned |-> g.owned,
                     frames |-> Append(g.frames, New(Unknown))]
    <3>2. r = [q EXCEPT !.frames[Len(q.frames)].lineno = f.lineno]
      BY <2>3, <3>1, Zenon DEF GetFrame
    <3>3. q.frames = Append(g.frames, New(Unknown))
      OBVIOUS
    <3>4. r = [q EXCEPT !.frames[Len(Append(g.frames, New(Unknown)))].lineno = f.lineno]
      BY <3>2, <3>3, Zenon
    <3> QED
      BY <2>3, <3>4
  <2> QED
    BY <2>1, <2>2, <2>3
<1>3. PICK x \in Strings \cup {Unknown} : \E o, w :
        /\ r = [[filenames |-> o, owned |-> w, frames |-> Append(g.frames, New(x))]
                  EXCEPT !.frames[Len(Append(g.frames, New(x)))].lineno = f.lineno]
        /\ \/ x \in known /\ o = g.filenames /\ w = g.owned
           \/ /\ known = {} /\ x = s /\ x \in Strings \ fails
              /\ o = g.filenames \cup {x} /\ w = g.owned \cup {x}
           \/ /\ known = {} /\ x = Unknown /\ s \notin Strings \ fails
              /\ o = g.filenames /\ w = g.owned
  BY <1>2
<1>4. PICK o, w :
        /\ r = [[filenames |-> o, owned |-> w, frames |-> Append(g.frames, New(x))]
                  EXCEPT !.frames[Len(Append(g.frames, New(x)))].lineno = f.lineno]
        /\ \/ x \in known /\ o = g.filenames /\ w = g.owned
           \/ /\ known = {} /\ x = s /\ x \in Strings \ fails
              /\ o = g.filenames \cup {x} /\ w = g.owned \cup {x}
           \/ /\ known = {} /\ x = Unknown /\ s \notin Strings \ fails
              /\ o = g.filenames /\ w = g.owned
  BY <1>3
<1>5. r = [filenames |-> o, owned |-> w,
           frames |-> Append(g.frames, [filename |-> x, lineno |-> f.lineno])]
  <2> DEFINE a == Append(g.frames, New(x))
             n == Len(g.frames)
             b == [a EXCEPT ![Len(a)].lineno = f.lineno]
  <2>1. r = [filenames |-> o, owned |-> w, frames |-> b]
    BY <1>4
  <2>2. /\ a \in Seq(Frame) /\ Len(a) = n + 1 /\ n \in Nat
        /\ DOMAIN a = 1 .. (n + 1)
        /\ \A i \in 1 .. n : a[i] = g.frames[i]
        /\ a[n + 1] = New(x)
    <3>1. New(x) \in Frame
      BY DEF Frame
    <3> HIDE DEF New
    <3> QED
      BY <3>1
  <2>3. b = Append(g.frames, [filename |-> x, lineno |-> f.lineno])
    <3> DEFINE e == Append(g.frames, [filename |-> x, lineno |-> f.lineno])
    <3>1. [filename |-> x, lineno |-> f.lineno] \in Frame
      BY DEF Frame
    <3>2. /\ DOMAIN e = 1 .. (n + 1) /\ e \in Seq(Frame)
          /\ \A i \in 1 .. n : e[i] = g.frames[i]
          /\ e[n + 1] = [filename |-> x, lineno |-> f.lineno]
      BY <3>1
    <3> HIDE DEF a, n
    <3>3. b = [i \in 1 .. (n + 1) |-> IF i = n + 1 THEN [a[i] EXCEPT !.lineno = f.lineno]
                                      ELSE a[i]]
      BY <2>2
    <3>4. [a[n + 1] EXCEPT !.lineno = f.lineno] = [filename |-> x, lineno |-> f.lineno]
      BY <2>2
    <3>5. \A i \in 1 .. (n + 1) : i = n + 1 \/ i \in 1 .. n
      BY <2>2
    <3> HIDE DEF b
    <3>6. DOMAIN b = 1 .. (n + 1) /\ \A i \in 1 .. (n + 1) : b[i] = e[i]
      <4> HIDE DEF e, New
      <4>1. DOMAIN b = 1 .. (n + 1)
        BY <3>3
      <4>2. ASSUME NEW i \in 1 .. (n + 1), i = n + 1
            PROVE  b[i] = e[i]
        <5>1. b[i] = [a[i] EXCEPT !.lineno = f.lineno]
          BY <3>3, <4>2
        <5> QED
          BY <3>2, <3>4, <4>2, <5>1
      <4>3. ASSUME NEW i \in 1 .. (n + 1), i \in 1 .. n
            PROVE  b[i] = e[i]
        <5>1. i # n + 1
          BY <2>2, <4>3
        <5>2. b[i] = a[i]
          BY <3>3, <5>1
        <5> QED
          BY <2>2, <3>2, <4>3, <5>2
      <4> QED
        BY <3>5, <4>1, <4>2, <4>3
    <3>7. b = [i \in 1 .. (n + 1) |-> b[i]]
      BY <3>3, <3>6
    <3>8. e = [i \in 1 .. (n + 1) |-> e[i]]
      <4>1. e \in Seq(Frame)
        BY <3>2
      <4> HIDE DEF e
      <4> QED
        BY <3>2, <4>1
    <3> HIDE DEF e
    <3>9. b = e
      BY <3>6, <3>7, <3>8
    <3> QED
      BY <3>9 DEF e
  <2> QED
    BY <2>1, <2>3
<1> HIDE DEF New
<1> QED
  <2>1. IsGot(r) /\ r.filenames = o /\ r.owned = w
        /\ r.frames = Append(g.frames, [filename |-> x, lineno |-> f.lineno])
    BY <1>5 DEF IsGot
  <2> QED
    BY <1>4, <2>1 DEF Added

\* One frame more.
LEMMA GotNext ==
  ASSUME TypeInv, NEW c \in Seq(Frame), NEW fails, NEW k \in 1 .. Len(c),
         c[k].filename \in held \cup {Unknown},
         NEW g, Got(g, c, fails, k - 1),
         NEW r, r = GetFrame(g, c[k], fails)
  PROVE  Got(r, c, fails, k)
<1>1. Len(c) \in Nat /\ k \in Nat /\ k - 1 \in Nat /\ c[k] \in Frame
  OBVIOUS
<1>2. /\ IsGot(g) /\ g.frames \in Seq(Frame) /\ g.filenames \subseteq Strings
      /\ Len(g.frames) = k - 1 /\ Unknown \notin Strings
  BY TracebacksAssumption DEF TypeInv, Got
<1>3. IsGot(r) /\ Added(g, c[k], fails, r)
  BY <1>1, <1>2, GetFrameEffect
<1>4. PICK x \in Strings \cup {Unknown} :
        /\ r.frames = Append(g.frames, [filename |-> x, lineno |-> c[k].lineno])
        /\ \/ /\ x \in Known(g.filenames, c[k].filename)
              /\ r.filenames = g.filenames /\ r.owned = g.owned
           \/ /\ Known(g.filenames, c[k].filename) = {}
              /\ x = c[k].filename /\ x \in Strings \ fails
              /\ r.filenames = g.filenames \cup {x} /\ r.owned = g.owned \cup {x}
           \/ /\ Known(g.filenames, c[k].filename) = {}
              /\ x = Unknown /\ c[k].filename \notin Strings \ fails
              /\ r.filenames = g.filenames /\ r.owned = g.owned
  BY <1>3 DEF Added
<1> DEFINE y == [filename |-> x, lineno |-> c[k].lineno]
<1>5. y \in Frame /\ y.filename = x /\ y.lineno = c[k].lineno
  BY <1>1 DEF Frame
<1>6. /\ r.frames \in Seq(Frame) /\ Len(r.frames) = k
      /\ \A i \in 1 .. (k - 1) : r.frames[i] = g.frames[i]
      /\ r.frames[k] = y
  <2> HIDE DEF y
  <2>1. r.frames = Append(g.frames, y)
    BY <1>4 DEF y
  <2>2. Len(g.frames) + 1 = k
    BY <1>1, <1>2
  <2> QED
    BY <1>2, <1>5, <2>1, <2>2, AppendIs
<1>7. /\ r.filenames = filenames \cup r.owned /\ r.owned \cap filenames = {}
      /\ r.owned \subseteq held
      /\ \A s, t \in r.filenames : text[s] = text[t] => s = t
      /\ g.filenames \subseteq r.filenames
      /\ x \in r.filenames \cup {Unknown}
      /\ \/ /\ x \in Strings /\ c[k].filename \in Strings
            /\ text[x] = text[c[k].filename]
         \/ x = Unknown /\ (fails # {} \/ c[k].filename = Unknown)
  <2>1. /\ g.filenames = filenames \cup g.owned /\ g.owned \cap filenames = {}
        /\ g.owned \subseteq held
        /\ \A s, t \in g.filenames : text[s] = text[t] => s = t
    BY DEF Got
  <2>2. CASE x \in Known(g.filenames, c[k].filename) /\ r.filenames = g.filenames
             /\ r.owned = g.owned
    BY <1>2, <2>1, <2>2 DEF Known
  <2>3. CASE /\ Known(g.filenames, c[k].filename) = {}
             /\ x = c[k].filename /\ x \in Strings \ fails
             /\ r.filenames = g.filenames \cup {x} /\ r.owned = g.owned \cup {x}
    <3>1. \A t \in g.filenames : text[t] # text[x]
      BY <2>3 DEF Known
    <3>2. x \notin g.filenames /\ x \in held
      BY <1>2, <2>3, <3>1
    <3> QED
      BY <2>1, <2>3, <3>1, <3>2
  <2>4. CASE /\ x = Unknown /\ c[k].filename \notin Strings \ fails
             /\ r.filenames = g.filenames /\ r.owned = g.owned
    BY <1>1, <2>1, <2>4 DEF Frame
  <2> QED
    BY <1>4, <2>2, <2>3, <2>4
<1>8. ASSUME NEW i \in 1 .. k
      PROVE  /\ r.frames[i].lineno = c[i].lineno
             /\ r.frames[i].filename \in r.filenames \cup {Unknown}
             /\ \/ /\ r.frames[i].filename \in Strings /\ c[i].filename \in Strings
                   /\ text[r.frames[i].filename] = text[c[i].filename]
                \/ /\ r.frames[i].filename = Unknown
                   /\ fails # {} \/ c[i].filename = Unknown
  <2>1. CASE i = k
    <3> HIDE DEF y
    <3> QED
      BY <1>5, <1>6, <1>7, <2>1
  <2>2. CASE i # k
    <3>1. i \in 1 .. (k - 1)
      BY <1>1, <2>2
    <3>2. /\ g.frames[i].lineno = c[i].lineno
          /\ g.frames[i].filename \in g.filenames \cup {Unknown}
          /\ \/ /\ g.frames[i].filename \in Strings /\ c[i].filename \in Strings
                /\ text[g.frames[i].filename] = text[c[i].filename]
             \/ /\ g.frames[i].filename = Unknown
                /\ fails # {} \/ c[i].filename = Unknown
      BY <3>1 DEF Got
    <3> QED
      BY <1>6, <1>7, <3>1, <3>2
  <2> QED
    BY <2>1, <2>2
<1> QED
  BY <1>3, <1>6, <1>7, <1>8 DEF Got

\* The whole walk.
LEMMA GotAll ==
  ASSUME TypeInv, BorrowInv, NEW c \in Seq(Frame), NEW fails,
         \A i \in 1 .. Len(c) : c[i].filename \in held \cup {Unknown}
  PROVE  Got(Walk(c, fails), c, fails, Len(c))
<1> DEFINE n == Len(c)
<1>1. n \in Nat
  OBVIOUS
<1>2. PICK g : /\ g[0] = Base
               /\ \A k \in 1 .. n : g[k] = GetFrame(g[k - 1], c[k], fails)
               /\ Walk(c, fails) = g[n]
  BY WalkSteps
<1> HIDE DEF n
<1> DEFINE T == {k \in 0 .. n : ~Got(g[k], c, fails, k)}
<1>3. SUFFICES ASSUME T # {} PROVE FALSE
  BY <1>1, <1>2 DEF n
<1>4. PICK k \in T : \A j \in T : k <= j
  <2>1. T \in SUBSET Nat
    BY <1>1
  <2> HIDE DEF T
  <2> QED
    BY <1>3, <2>1, Least
<1>5. Got(g[0], c, fails, 0)
  <2>1. /\ IsGot(Base) /\ Base.frames = <<>> /\ Base.owned = {}
        /\ Base.filenames = filenames
    BY DEF Base, IsGot
  <2> QED
    BY <1>2, <2>1 DEF Got, BorrowInv
<1>6. k \in 1 .. n /\ k - 1 \in 0 .. n /\ k - 1 < k
  BY <1>1, <1>4, <1>5
<1>7. Got(g[k - 1], c, fails, k - 1)
  <2>1. k - 1 \notin T
    <3> HIDE DEF T
    <3> QED
      BY <1>1, <1>4, <1>6
  <2> QED
    BY <1>6, <2>1
<1>8. Got(g[k], c, fails, k)
  <2>1. g[k] = GetFrame(g[k - 1], c[k], fails)
    BY <1>2, <1>6
  <2>2. k \in 1 .. Len(c) /\ c[k].filename \in held \cup {Unknown}
    BY <1>6 DEF n
  <2> QED
    BY <1>7, <2>1, <2>2, GotNext
<1> QED
  BY <1>4, <1>8

\* What is kept of a stack.
LEMMA CutIs ==
  ASSUME TypeInv, NEW stack \in Stacks
  PROVE  /\ Cut(stack) \in Seq(Frame) /\ stack \in Seq(Frame)
         /\ Len(Cut(stack)) \in Nat /\ Len(Cut(stack)) <= maxNframe
         /\ DOMAIN Cut(stack) = 1 .. Len(Cut(stack))
         /\ DOMAIN Cut(stack) \subseteq DOMAIN stack
         /\ \A i \in DOMAIN Cut(stack) : Cut(stack)[i] = stack[i]
<1>1. stack \in Seq(Frame) /\ Len(stack) \in Nat /\ DOMAIN stack = 1 .. Len(stack)
  <2>1. stack \in Seq(Frame)
    BY TracebacksAssumption DEF Frame
  <2> QED
    BY <2>1
<1>2. maxNframe \in Nat
  BY DEF TypeInv
<1> DEFINE m == Min({Len(stack), maxNframe})
<1>3. m \in Nat /\ m <= Len(stack) /\ m <= maxNframe
  <2>1. \E x \in {Len(stack), maxNframe} : \A y \in {Len(stack), maxNframe} : x <= y
    BY <1>1, <1>2
  <2>2. m \in {Len(stack), maxNframe} /\ \A y \in {Len(stack), maxNframe} : m <= y
    BY <2>1 DEF Min
  <2> HIDE DEF m
  <2> QED
    BY <1>1, <1>2, <2>2
<1>4. Cut(stack) = SubSeq(stack, 1, m)
  BY DEF Cut
<1> HIDE DEF m
<1>5. /\ SubSeq(stack, 1, m) \in Seq(Frame) /\ Len(SubSeq(stack, 1, m)) = m
      /\ \A i \in 1 .. m : SubSeq(stack, 1, m)[i] = stack[i]
  BY <1>1, <1>3
<1>6. 1 .. m \subseteq 1 .. Len(stack)
  BY <1>1, <1>3
<1> QED
  BY <1>1, <1>3, <1>4, <1>5, <1>6

-----------------------------------------------------------------------------
(* What the properties say, from the invariant.                            *)

LEMMA BalanceHolds == IInv => RefsBalance
<1> SUFFICES ASSUME IInv
             PROVE  RefsBalance
  OBVIOUS
<1>1. DOMAIN refs = Strings \cup {Unknown}
  BY DEF IInv, TypeInv
<1>2. ASSUME NEW s \in DOMAIN refs
      PROVE  refs[s] = (IF s \in held \cup {Unknown} THEN 1 ELSE 0)
               + (IF s \in filenames THEN 1 ELSE 0)
               + MapThenSumSet(LAMBDA u : Count(Names(tuples[u].frames), s), DOMAIN tuples)
  BY <1>1 DEF IInv, RefsInv, Owned
<1>3. ASSUME NEW u \in DOMAIN tuples
      PROVE  tuples[u].refs = Count([i \in DOMAIN list |-> list[i].traceback], u)
               + Cardinality({b \in DOMAIN reading.made : reading.made[b] = u})
  BY DEF IInv, RefsInv, Tracks, Makers
<1> QED
  BY <1>2, <1>3 DEF RefsBalance

LEMMA DeallocatedIs ==
  ASSUME NEW D
  PROVE  Deallocated(D) = [s \in DOMAIN refs |-> refs[s] - Owned(tuples, D, s)]
BY DEF Deallocated, Owned

-----------------------------------------------------------------------------
(* What the steps have in common.                                          *)

\* Who is referred to is alive.
LEMMA Alive ==
  ASSUME IInv
  PROVE  /\ AreTuples(tuples, DOMAIN tuples)
         /\ \A s \in held \cup filenames : refs[s] > 0
<1>1. AreTuples(tuples, DOMAIN tuples)
  BY DEF IInv, TuplesInv, AreTuples
<1>2. ASSUME NEW s \in held \cup filenames
      PROVE  refs[s] > 0
  <2>1. s \in Strings \cup {Unknown} /\ Owned(tuples, DOMAIN tuples, s) \in Nat
    BY <1>1, OwnedNat DEF IInv, TypeInv
  <2> QED
    BY <1>2, <2>1 DEF IInv, RefsInv
<1> QED
  BY <1>1, <1>2

LEMMA FramesOfIs ==
  ASSUME TypeInv, TracingInv, tracing, NEW b \in DOMAIN interned \cup {EmptyTb}
  PROVE  /\ FramesOf(b) \in Seq(Frame) /\ Len(FramesOf(b)) \in 1 .. maxNframe
         /\ b \in DOMAIN interned => FramesOf(b) = interned[b]
<1>1. EmptyTb \notin DOMAIN interned
  BY TracebacksAssumption DEF TypeInv
<1>2. CASE b = EmptyTb
  <2>1. [filename |-> Unknown, lineno |-> 0] \in Frame
    BY DEF Frame
  <2>2. FramesOf(b) = <<[filename |-> Unknown, lineno |-> 0]>>
    BY <1>2 DEF FramesOf
  <2>3. FramesOf(b) \in Seq(Frame) /\ Len(FramesOf(b)) = 1
    BY <2>1, <2>2
  <2> QED
    BY <1>1, <1>2, <2>3 DEF TypeInv
<1>3. CASE b # EmptyTb
  BY <1>3 DEF FramesOf, TypeInv, TracingInv
<1> QED
  BY <1>2, <1>3

\* A trace goes on saying what it says while the traceback is interned.
LEMMA SaysKept ==
  ASSUME TypeInv, BorrowInv, NEW p, SaysTrue(p),
         traces'[p] = traces[p], origin'[p] = origin[p],
         traces[p].traceback \in DOMAIN interned =>
           /\ traces[p].traceback \in DOMAIN interned'
           /\ interned'[traces[p].traceback] = interned[traces[p].traceback],
         \A s \in filenames : text'[s] = text[s]
  PROVE  SaysTrue(p)'
<1>1. CASE origin[p] = <<>>
  BY <1>1 DEF SaysTrue
<1>2. CASE origin[p] # <<>>
  <2> DEFINE b == traces[p].traceback
             frames == interned[b]
  <2>1. b \in DOMAIN interned /\ b # EmptyTb
    BY <1>2, TracebacksAssumption DEF SaysTrue, TypeInv
  <2>2. FramesOf(b) = frames /\ b \in DOMAIN interned' /\ FramesOf(b)' = frames
    BY <2>1 DEF FramesOf
  <2>3. /\ DOMAIN frames = DOMAIN origin[p]
        /\ \A i \in DOMAIN frames :
             /\ frames[i].lineno = origin[p][i].lineno
             /\ \/ TextOf(frames[i].filename) = origin[p][i].file
                \/ MayFail /\ frames[i].filename = Unknown
    BY <1>2, <2>2 DEF SaysTrue
  <2>4. \A i \in DOMAIN frames : frames[i].filename \in filenames \cup {Unknown}
    BY <2>1 DEF BorrowInv
  <2>5. \A s \in filenames \cup {Unknown} : TextOf(s)' = TextOf(s)
    BY DEF TextOf
  <2>6. \A i \in DOMAIN frames : TextOf(frames[i].filename)' = TextOf(frames[i].filename)
    <3>1. ASSUME NEW s \in filenames \cup {Unknown}
          PROVE  (IF s = Unknown THEN UnknownText ELSE text'[s]) = TextOf(s)
      BY DEF TextOf
    <3>2. \A i \in DOMAIN frames :
            (IF frames[i].filename = Unknown THEN UnknownText ELSE text'[frames[i].filename])
              = TextOf(frames[i].filename)
      BY <2>4, <3>1
    <3>3. b' = b /\ interned'[b] = interned[b]
      BY <2>1
    <3> QED
      BY <3>2, <3>3 DEF TextOf
  <2> QED
    BY <1>2, <2>2, <2>3, <2>6 DEF SaysTrue
<1> QED
  BY <1>1, <1>2

LEMMA ListKept ==
  ASSUME ListInv, UNCHANGED <<list, tuples, traces, reading, interned>>
  PROVE  ListInv'
<1>1. \A b : FramesOf(b)' = FramesOf(b)
  BY DEF FramesOf
<1>2. ASSUME NEW z, NEW b
      PROVE  /\ Listed(z, FramesOf(b))' = Listed(z, FramesOf(b))
             /\ Read(z, FramesOf(b))' = Read(z, FramesOf(b))
  BY <1>1 DEF Listed, Read
<1> QED
  BY <1>2 DEF ListInv

\* Steps that leave everything but the strings alone.
LEMMA OnlyStrings ==
  ASSUME IInv, UNCHANGED <<config, tables, objects>>,
         text' \in [Strings -> Texts \cup {"freed"}],
         refs' \in [Strings \cup {Unknown} -> Nat], held' \subseteq Strings,
         \A s \in filenames : text'[s] = text[s],
         \A s \in Strings \cup {Unknown} :
           refs'[s] + (IF s \in held \cup {Unknown} THEN 1 ELSE 0)
             = refs[s] + (IF s \in held' \cup {Unknown} THEN 1 ELSE 0),
         TextInv'
  PROVE  IInv'
<1>1. UNCHANGED <<tracing, maxNframe, room, filenames, interned, traces, origin, tuples,
                  list, reading, limit, restarted>>
  BY DEF config, tables, objects
<1>2. TypeInv'
  BY <1>1 DEF IInv, TypeInv
<1>3. TracesInv' /\ TuplesInv' /\ TracingInv' /\ FitInv' /\ OriginDomain'
  BY <1>1 DEF IInv, TracesInv, TuplesInv, TracingInv, FitInv, OriginDomain
<1>4. ReadingInv'
  BY <1>1 DEF IInv, ReadingInv, FramesOf
<1>5. BorrowInv'
  BY <1>1 DEF IInv, BorrowInv, TypeInv
<1>6. RefsInv'
  <2>1. ASSUME NEW s \in Strings \cup {Unknown}
        PROVE  refs'[s] = (IF s \in held' \cup {Unknown} THEN 1 ELSE 0)
                 + (IF s \in filenames THEN 1 ELSE 0) + Owned(tuples, DOMAIN tuples, s)
    <3>1. Owned(tuples, DOMAIN tuples, s) \in Nat
      BY Alive, OwnedNat
    <3>2. refs[s] = (IF s \in held \cup {Unknown} THEN 1 ELSE 0)
            + (IF s \in filenames THEN 1 ELSE 0) + Owned(tuples, DOMAIN tuples, s)
      BY DEF IInv, RefsInv
    <3>3. refs'[s] + (IF s \in held \cup {Unknown} THEN 1 ELSE 0)
            = refs[s] + (IF s \in held' \cup {Unknown} THEN 1 ELSE 0)
      OBVIOUS
    <3>4. refs[s] \in Nat /\ refs'[s] \in Nat
      BY DEF IInv, TypeInv
    <3> QED
      BY <3>1, <3>2, <3>3, <3>4
  <2> QED
    BY <1>1, <2>1 DEF IInv, RefsInv, Tracks, Makers
<1>7. OriginInv'
  BY <1>1, SaysKept DEF IInv, OriginInv
<1>8. ListInv'
  BY <1>1, ListKept DEF IInv
<1> QED
  BY <1>2, <1>3, <1>4, <1>5, <1>6, <1>7, <1>8 DEF IInv

-----------------------------------------------------------------------------
(* The program.                                                            *)

LEMMA NewCodeKeeps ==
  ASSUME IInv, NEW s \in Strings, NEW txt \in Texts, NewCode(s, txt)
  PROVE  IInv'
<1>1. /\ s \notin held /\ (refs[s] = 0 \/ text[s] = txt)
      /\ text' = [text EXCEPT ![s] = txt]
      /\ refs' = [refs EXCEPT ![s] = @ + 1]
      /\ held' = held \cup {s}
      /\ UNCHANGED <<config, tables, objects>>
  BY DEF NewCode
<1>2. Unknown \notin Strings
  BY TracebacksAssumption
<1>3. /\ text \in [Strings -> Texts \cup {"freed"}]
      /\ refs \in [Strings \cup {Unknown} -> Nat] /\ held \subseteq Strings
      /\ filenames \subseteq Strings
  BY DEF IInv, TypeInv
<1>4. \A t \in filenames : text'[t] = text[t]
  <2>1. \A t \in filenames : refs[t] > 0
    BY Alive
  <2> QED
    BY <1>1, <1>3, <2>1
<1>5. \A t \in Strings \cup {Unknown} :
        refs'[t] + (IF t \in held \cup {Unknown} THEN 1 ELSE 0)
          = refs[t] + (IF t \in held' \cup {Unknown} THEN 1 ELSE 0)
  BY <1>1, <1>2, <1>3
<1>6. TextInv'
  BY <1>1, <1>3 DEF IInv, TextInv
<1> QED
  BY <1>1, <1>3, <1>4, <1>5, <1>6, OnlyStrings

LEMMA DropCodeKeeps ==
  ASSUME IInv, NEW s \in Strings, DropCode(s)
  PROVE  IInv'
<1>1. /\ s \in held
      /\ refs' = [refs EXCEPT ![s] = @ - 1]
      /\ held' = held \ {s}
      /\ text' = [t \in Strings |-> IF refs'[t] = 0 THEN "freed" ELSE text[t]]
      /\ UNCHANGED <<config, tables, objects>>
  BY DEF DropCode, Deallocate
<1>2. Unknown \notin Strings
  BY TracebacksAssumption
<1>3. /\ text \in [Strings -> Texts \cup {"freed"}]
      /\ refs \in [Strings \cup {Unknown} -> Nat] /\ held \subseteq Strings
      /\ filenames \subseteq Strings
  BY DEF IInv, TypeInv
<1>4. \A t \in filenames : refs'[t] # 0
  <2> SUFFICES ASSUME NEW t \in filenames
               PROVE  refs'[t] # 0
    OBVIOUS
  <2>1. Owned(tuples, DOMAIN tuples, t) \in Nat
    BY Alive, OwnedNat
  <2>2. refs[t] = (IF t \in held \cup {Unknown} THEN 1 ELSE 0) + 1
                    + Owned(tuples, DOMAIN tuples, t)
    BY <1>3 DEF IInv, RefsInv
  <2> QED
    BY <1>1, <1>3, <2>1, <2>2
<1>5. refs' \in [Strings \cup {Unknown} -> Nat]
  <2>1. refs[s] \in Nat /\ refs[s] > 0
    BY <1>1, <1>3, Alive
  <2> QED
    BY <1>1, <1>3, <2>1
<1>6. \A t \in Strings \cup {Unknown} :
        refs'[t] + (IF t \in held \cup {Unknown} THEN 1 ELSE 0)
          = refs[t] + (IF t \in held' \cup {Unknown} THEN 1 ELSE 0)
  BY <1>1, <1>2, <1>3
<1>7. TextInv'
  <2>1. \A t \in Strings : refs'[t] > 0 => refs[t] > 0 /\ refs'[t] # 0
    BY <1>1, <1>3, <1>5
  <2> QED
    BY <1>1, <2>1 DEF IInv, TextInv
<1> QED
  BY <1>1, <1>3, <1>4, <1>5, <1>6, <1>7, OnlyStrings

-----------------------------------------------------------------------------
(* Blocks freed, tracing turned on and off.                                *)

\* No conversion: what is said of one says nothing.
LEMMA NotReadingHolds ==
  ASSUME reading' = NotReading
  PROVE  /\ ReadingInv' /\ ListInv'
         /\ \A u : Cardinality(Makers(reading'.made, u)) = 0
<1>1. /\ NotReading.left = {} /\ NotReading.made = Empty /\ NotReading.err = FALSE
      /\ NotReading.on = FALSE
      /\ NotReading \in [left : SUBSET DOMAIN traces', made : {Empty},
                         err : BOOLEAN, on : BOOLEAN]
  BY DEF NotReading
<1>2. DOMAIN Empty = {}
  BY DEF Empty
<1>3. IsFiniteSet({}) /\ Cardinality({}) = 0
  BY FS_EmptySet
<1>4. \A u : Makers(reading'.made, u) = {}
  BY <1>1, <1>2 DEF Makers
<1>5. ReadingInv'
  BY <1>1, <1>2, <1>3 DEF ReadingInv
<1> QED
  BY <1>1, <1>3, <1>4, <1>5 DEF ListInv

LEMMA IdleIs ==
  ASSUME IInv, ~reading.on
  PROVE  reading = NotReading /\ \A u : Cardinality(Makers(reading.made, u)) = 0
<1>1. reading = NotReading
  BY DEF IInv, ReadingInv
<1>2. \A u : Makers(reading.made, u) = {}
  BY <1>1 DEF Makers, NotReading, Empty
<1> QED
  BY <1>1, <1>2, FS_EmptySet

LEMMA FreeKeeps ==
  ASSUME IInv, NEW p \in Ptrs, Free(p)
  PROVE  IInv'
<1>1. /\ ~reading.on
      /\ traces' = [y \in DOMAIN traces \cap (Ptrs \ {p}) |-> traces[y]]
      /\ origin' = [y \in DOMAIN origin \cap (Ptrs \ {p}) |-> origin[y]]
      /\ UNCHANGED <<strings, config, filenames, interned, objects>>
  BY DEF Free, Only
<1>2. UNCHANGED <<text, refs, held, tracing, maxNframe, room, filenames, interned, tuples,
                  list, reading, limit, restarted>>
  BY <1>1 DEF strings, config, objects
<1>3. TypeInv' /\ TuplesInv' /\ TextInv' /\ BorrowInv' /\ FitInv'
  BY <1>2 DEF IInv, TypeInv, TuplesInv, TextInv, BorrowInv, FitInv
<1>4. /\ DOMAIN traces' \subseteq DOMAIN traces
      /\ \A q \in DOMAIN traces' : traces'[q] = traces[q] /\ q \in Ptrs \ {p}
  BY <1>1
<1>5. TracesInv'
  BY <1>2, <1>4, FS_Subset DEF IInv, TracesInv
<1>6. TracingInv'
  BY <1>2, <1>4 DEF IInv, TracingInv
<1>7. ReadingInv' /\ ListInv'
  BY <1>1, <1>2, IdleIs, NotReadingHolds
<1>8. RefsInv'
  BY <1>2 DEF IInv, RefsInv, Tracks, Makers
<1>9. OriginInv'
  <2>1. ASSUME NEW q \in DOMAIN traces'
        PROVE  SaysTrue(q)'
    <3>1. SaysTrue(q)
      BY <1>4 DEF IInv, OriginInv
    <3>2. origin'[q] = origin[q] /\ traces'[q] = traces[q]
      BY <1>1, <1>4, <2>1 DEF IInv, OriginDomain
    <3> QED
      BY <1>2, <3>1, <3>2, SaysKept DEF IInv
  <2> QED
    BY <2>1 DEF OriginInv
<1>10. OriginDomain'
  BY <1>1 DEF IInv, OriginDomain
<1> QED
  BY <1>3, <1>5, <1>6, <1>7, <1>8, <1>9, <1>10 DEF IInv

\* A conversion begins when there is no list, and so no tuple.
LEMMA NoTuples ==
  ASSUME IInv, ~reading.on, list = <<>>
  PROVE  DOMAIN tuples = {}
<1> SUFFICES ASSUME NEW u \in DOMAIN tuples PROVE FALSE
  OBVIOUS
<1>1. Tracks(list) = <<>>
  BY DEF Tracks
<1>2. tuples[u].refs = 0 + 0
  BY <1>1, IdleIs, CountEmpty DEF IInv, RefsInv
<1> QED
  BY <1>2 DEF IInv, TuplesInv

LEMMA StartKeeps ==
  ASSUME IInv, NEW n \in Limits, Start(n)
  PROVE  IInv'
<1>1. /\ ~reading.on /\ n >= 1 /\ ~tracing /\ maxNframe' = n
      /\ \/ tracing' = TRUE /\ room' = n
         \/ UNCHANGED <<tracing, room>>
      /\ restarted' = (restarted \/ (list # <<>> /\ limit = 0))
      /\ UNCHANGED <<strings, tables, tuples, list, reading, limit>>
  BY DEF Start, AlreadyTracing
<1>2. UNCHANGED <<text, refs, held, filenames, interned, traces, origin, tuples,
                  list, reading, limit>>
  BY <1>1 DEF strings, tables
<1>3. n \in Nat \ {0}
  BY <1>1, TracebacksAssumption
<1>4. TypeInv'
  BY <1>1, <1>2, <1>3 DEF IInv, TypeInv
<1>5. TracesInv' /\ TuplesInv' /\ TextInv' /\ BorrowInv' /\ FitInv' /\ OriginDomain'
  <2>1. FitInv'
    <3>1. CASE list = <<>>
      <4>1. DOMAIN tuples = {} /\ limit = 0 /\ ~restarted
        BY <1>1, <3>1, NoTuples DEF IInv, FitInv
      <4> QED
        BY <1>1, <1>2, <3>1, <4>1 DEF FitInv
    <3>2. CASE list # <<>> /\ limit = 0
      BY <1>1, <1>2, <3>2 DEF IInv, FitInv
    <3>3. CASE list # <<>> /\ limit # 0
      <4>1. restarted' = restarted
        BY <1>1, <3>3 DEF IInv, TypeInv
      <4> QED
        BY <1>1, <1>2, <3>3, <4>1 DEF IInv, FitInv
    <3> QED
      BY <3>1, <3>2, <3>3
  <2> QED
    BY <1>1, <1>2, <2>1 DEF IInv, TracesInv, TuplesInv, TextInv, BorrowInv, OriginDomain
<1>6. TracingInv'
  BY <1>1, <1>2 DEF IInv, TracingInv
<1>7. ReadingInv' /\ ListInv'
  BY <1>1, <1>2, IdleIs, NotReadingHolds
<1>8. RefsInv'
  BY <1>2 DEF IInv, RefsInv, Tracks, Makers
<1>9. OriginInv'
  BY <1>2, SaysKept DEF IInv, OriginInv
<1> QED
  BY <1>4, <1>5, <1>6, <1>7, <1>8, <1>9 DEF IInv

\* tracemalloc_clear_traces() gives back one reference to each interned name.
LEMMA ClearKeeps ==
  ASSUME IInv, ClearTraces \/ Stop
  PROVE  IInv'
<1>1. /\ ~reading.on /\ DOMAIN traces' = {} /\ DOMAIN origin' = {} /\ DOMAIN interned' = {}
      /\ filenames' = {}
      /\ refs' = [s \in DOMAIN refs |-> IF s \in filenames THEN refs[s] - 1 ELSE refs[s]]
      /\ text' = [s \in Strings |-> IF refs'[s] = 0 THEN "freed" ELSE text[s]]
      /\ UNCHANGED <<held, maxNframe, objects>>
      /\ tracing' \in BOOLEAN
      /\ tracing' => room' = room /\ tracing
      /\ ~tracing' => room' = 0
  BY DEF IInv, TypeInv, ClearTraces, Stop, Clear, Cleared, Deallocate, Empty, config
<1>2. UNCHANGED <<tuples, list, reading, limit, restarted>>
  BY <1>1 DEF objects
<1>3. /\ text \in [Strings -> Texts \cup {"freed"}]
      /\ refs \in [Strings \cup {Unknown} -> Nat]
      /\ \A s \in filenames : refs[s] > 0
  BY Alive DEF IInv, TypeInv
<1>4. refs' \in [Strings \cup {Unknown} -> Nat]
  BY <1>1, <1>3
<1>5. TypeInv'
  <2>1. room' \in Nat
    BY <1>1 DEF IInv, TypeInv
  <2>2. text' \in [Strings -> Texts \cup {"freed"}]
    BY <1>1, <1>3
  <2> QED
    BY <1>1, <1>2, <1>4, <2>1, <2>2 DEF IInv, TypeInv
<1>6. TracesInv' /\ BorrowInv' /\ OriginInv' /\ OriginDomain'
  BY <1>1, FS_EmptySet DEF TracesInv, BorrowInv, OriginInv, OriginDomain
<1>7. TuplesInv' /\ FitInv'
  BY <1>1, <1>2 DEF IInv, TuplesInv, FitInv
<1>8. TextInv'
  <2>1. \A s \in Strings : refs'[s] > 0 => refs[s] > 0 /\ refs'[s] # 0
    BY <1>1, <1>3, <1>4
  <2> QED
    BY <1>1, <2>1 DEF IInv, TextInv
<1>9. TracingInv'
  BY <1>1 DEF IInv, TracingInv
<1>10. ReadingInv' /\ ListInv'
  BY <1>1, <1>2, IdleIs, NotReadingHolds
<1>11. RefsInv'
  <2>1. ASSUME NEW s \in Strings \cup {Unknown}
        PROVE  refs'[s] = (IF s \in held \cup {Unknown} THEN 1 ELSE 0)
                 + Owned(tuples, DOMAIN tuples, s)
    <3>1. Owned(tuples, DOMAIN tuples, s) \in Nat
      BY Alive, OwnedNat
    <3>2. refs[s] = (IF s \in held \cup {Unknown} THEN 1 ELSE 0)
            + (IF s \in filenames THEN 1 ELSE 0) + Owned(tuples, DOMAIN tuples, s)
      BY DEF IInv, RefsInv
    <3>3. refs'[s] = IF s \in filenames THEN refs[s] - 1 ELSE refs[s]
      BY <1>1, <1>3
    <3> QED
      BY <3>1, <3>2, <3>3
  <2>2. ASSUME NEW s \in Strings \cup {Unknown}
        PROVE  refs'[s] = (IF s \in held \cup {Unknown} THEN 1 ELSE 0) + 0
                 + Owned(tuples, DOMAIN tuples, s)
    <3>1. Owned(tuples, DOMAIN tuples, s) \in Nat
      BY Alive, OwnedNat
    <3> QED
      BY <2>1, <3>1
  <2> QED
    BY <1>1, <1>2, <2>2 DEF IInv, RefsInv, Tracks, Makers
<1> QED
  BY <1>5, <1>6, <1>7, <1>8, <1>9, <1>10, <1>11 DEF IInv

-----------------------------------------------------------------------------
(* A conversion begins, and fails.                                         *)

LEMMA GetTracesKeeps ==
  ASSUME IInv, GetTraces
  PROVE  IInv'
<1>1. /\ tracing /\ ~reading.on /\ list = <<>>
      /\ reading' = [left |-> DOMAIN traces, made |-> Empty, err |-> FALSE, on |-> TRUE]
      /\ UNCHANGED <<strings, config, tables, tuples, list, limit, restarted>>
  BY DEF GetTraces
<1>2. UNCHANGED <<text, refs, held, tracing, maxNframe, room, filenames, interned, traces,
                  origin, tuples, list, limit, restarted>>
  BY <1>1 DEF strings, config, tables
<1>3. DOMAIN tuples = {} /\ DOMAIN Empty = {} /\ IsFiniteSet({}) /\ Cardinality({}) = 0
  BY <1>1, NoTuples, FS_EmptySet DEF Empty
<1>4. /\ reading'.left = DOMAIN traces /\ reading'.made = Empty
      /\ reading'.err = FALSE /\ reading'.on = TRUE
      /\ reading' \in [left : SUBSET DOMAIN traces, made : {Empty},
                       err : BOOLEAN, on : BOOLEAN]
  BY <1>1
<1>5. /\ TypeInv' /\ TracesInv' /\ TuplesInv' /\ TextInv' /\ TracingInv' /\ BorrowInv'
      /\ OriginDomain'
  BY <1>2 DEF IInv, TypeInv, TracesInv, TuplesInv, TextInv, TracingInv, BorrowInv,
              OriginDomain
<1>6. ReadingInv'
  BY <1>1, <1>2, <1>3, <1>4 DEF ReadingInv
<1>7. RefsInv'
  BY <1>2, <1>3 DEF IInv, RefsInv
<1>8. FitInv'
  BY <1>1, <1>2, <1>3 DEF IInv, FitInv
<1>9. OriginInv'
  BY <1>2, SaysKept DEF IInv, OriginInv
<1>10. ListInv'
  <2>1. DOMAIN traces' \ reading'.left = {}
    BY <1>2, <1>4
  <2>2. Len(list') = 0 /\ DOMAIN list' = {}
    BY <1>1, <1>2
  <2>3. ASSUME NEW z, NEW f
        PROVE  {i \in DOMAIN list' : /\ list'[i].size = z
                                     /\ tuples'[list'[i].traceback].frames = f} = {}
    BY <2>2
  <2>4. ASSUME NEW z, NEW b
        PROVE  /\ Listed(z, FramesOf(b))' = {}
               /\ Read(z, FramesOf(b))' = {}
    BY <2>1, <2>3 DEF Listed, Read
  <2> QED
    BY <1>3, <2>1, <2>2, <2>4 DEF ListInv
<1> QED
  BY <1>5, <1>6, <1>7, <1>8, <1>9, <1>10 DEF IInv

LEMMA ConversionFailsKeeps ==
  ASSUME IInv, ConversionFails
  PROVE  IInv'
<1>1. /\ reading.on /\ reading' = [reading EXCEPT !.err = TRUE]
      /\ UNCHANGED <<strings, config, tables, tuples, list, limit, restarted>>
  BY DEF ConversionFails, Converting
<1>2. UNCHANGED <<text, refs, held, tracing, maxNframe, room, filenames, interned, traces,
                  origin, tuples, list, limit, restarted>>
  BY <1>1 DEF strings, config, tables
<1>3. /\ reading \in [left : SUBSET DOMAIN traces, made : {reading.made},
                      err : BOOLEAN, on : BOOLEAN]
      /\ reading'.left = reading.left /\ reading'.made = reading.made
      /\ reading'.err = TRUE /\ reading'.on = reading.on
      /\ reading' \in [left : SUBSET DOMAIN traces, made : {reading.made},
                       err : BOOLEAN, on : BOOLEAN]
  <2>1. reading \in [left : SUBSET DOMAIN traces, made : {reading.made},
                     err : BOOLEAN, on : BOOLEAN]
    BY DEF IInv, ReadingInv
  <2> QED
    BY <1>1, <2>1
<1>4. /\ TypeInv' /\ TracesInv' /\ TuplesInv' /\ TextInv' /\ TracingInv' /\ BorrowInv'
      /\ OriginDomain'
  BY <1>2 DEF IInv, TypeInv, TracesInv, TuplesInv, TextInv, TracingInv, BorrowInv,
              OriginDomain
<1>5. ReadingInv'
  <2>1. \A b : FramesOf(b)' = FramesOf(b)
    BY <1>2 DEF FramesOf
  <2> QED
    BY <1>1, <1>2, <1>3, <2>1 DEF IInv, ReadingInv
<1>6. RefsInv'
  BY <1>2, <1>3 DEF IInv, RefsInv, Tracks, Makers
<1>7. FitInv'
  BY <1>1, <1>2, <1>3 DEF IInv, FitInv
<1>8. OriginInv'
  BY <1>2, SaysKept DEF IInv, OriginInv
<1>9. ListInv'
  BY <1>3 DEF ListInv
<1> QED
  BY <1>4, <1>5, <1>6, <1>7, <1>8, <1>9 DEF IInv


LEMMA InitHolds == Init => IInv
<1> SUFFICES ASSUME Init PROVE IInv
  OBVIOUS
<1>1. /\ DOMAIN Empty = {} /\ IsFiniteSet({}) /\ Cardinality({}) = 0
      /\ Unknown \notin Strings
  BY FS_EmptySet, TracebacksAssumption DEF Empty
<1>2. TypeInv
  <2>1. refs \in [Strings \cup {Unknown} -> Nat] /\ text \in [Strings -> Texts \cup {"freed"}]
    BY DEF Init
  <2>2. tracing \in BOOLEAN /\ held \subseteq Strings /\ filenames \subseteq Strings
    BY DEF Init
  <2>3. maxNframe \in Nat \ {0} /\ room \in Nat /\ limit \in Nat
    BY DEF Init
  <2>4. DOMAIN interned = {}
    BY <1>1 DEF Init
  <2>5. restarted \in BOOLEAN
    BY DEF Init
  <2> QED
    BY <2>1, <2>2, <2>3, <2>4, <2>5 DEF TypeInv
<1>8. TracesInv /\ TracingInv /\ BorrowInv /\ OriginInv /\ OriginDomain
  BY <1>1 DEF Init, TracesInv, TracingInv, BorrowInv, OriginInv, OriginDomain
<1>3. TuplesInv /\ FitInv
  BY <1>1 DEF Init, TuplesInv, FitInv
<1>4. TextInv
  BY <1>1 DEF Init, TextInv
<1>5. /\ NotReading.left = {} /\ NotReading.made = Empty /\ NotReading.err = FALSE
      /\ NotReading.on = FALSE
      /\ NotReading \in [left : SUBSET DOMAIN traces, made : {Empty},
                         err : BOOLEAN, on : BOOLEAN]
  BY DEF NotReading
<1>6. ReadingInv /\ ListInv
  BY <1>1, <1>5 DEF Init, ReadingInv, ListInv
<1>7. RefsInv
  <2>1. \A s : Owned(tuples, DOMAIN tuples, s) = 0
    BY <1>1, OwnedEmpty DEF Init
  <2> QED
    BY <1>1, <2>1 DEF Init, RefsInv
<1> QED
  BY <1>2, <1>3, <1>4, <1>6, <1>7, <1>8 DEF IInv

-----------------------------------------------------------------------------
(* A block is traced.                                                      *)

\* The traceback that traceback_new() made of the frames, if it made one.
NewTraceback(frames) ==
  /\ DOMAIN interned \subseteq DOMAIN interned' /\ DOMAIN interned' \subseteq TbPtrs
  /\ \A b \in DOMAIN interned : interned'[b] = interned[b]
  /\ \A b \in DOMAIN interned' \ DOMAIN interned :
       /\ interned'[b] = frames /\ frames # <<>>
       /\ \A c \in DOMAIN interned : interned[c] # frames
       /\ \A c \in DOMAIN interned' \ DOMAIN interned : b = c

\* The trace of the block has the traceback, if there is a trace.
NewTrace(p, size, stack, frames) ==
  \/ NoStore
  \/ \E b : /\ Store(p, size, b, stack)
            /\ \/ b = EmptyTb /\ frames = <<>>
               \/ b \in DOMAIN interned' /\ interned'[b] = frames /\ frames # <<>>

LEMMA AllocEffect ==
  ASSUME IInv, NEW p \in Ptrs, NEW size \in Sizes, NEW stack \in Stacks, NEW fails,
         Alloc(p, size, stack, fails), NEW got, got = Walk(Cut(stack), fails)
  PROVE  /\ tracing /\ ~reading.on /\ p \notin DOMAIN traces
         /\ \A i \in DOMAIN stack : stack[i].filename \in held \cup {Unknown}
         /\ filenames' = got.filenames
         /\ refs' = [s \in DOMAIN refs |->
                       IF s \in got.owned THEN refs[s] + 1 ELSE refs[s]]
         /\ NewTraceback(got.frames)
         /\ NewTrace(p, size, stack, got.frames)
         /\ UNCHANGED <<text, held, config, objects>>
<1>1. got = GetFrames(stack, fails)
  BY DEF GetFrames, Walk, Base
<1> DEFINE found == {b \in DOMAIN interned : Same(b, got.frames)}
<1>2. /\ tracing /\ ~reading.on /\ p \notin DOMAIN traces
      /\ \A i \in DOMAIN stack : stack[i].filename \in held \cup {Unknown}
      /\ filenames' = got.filenames
      /\ refs' = [s \in DOMAIN refs |->
                    IF s \in got.owned THEN refs[s] + 1 ELSE refs[s]]
      /\ UNCHANGED <<text, held, config, objects>>
  BY <1>1 DEF Alloc
<1>3. \/ /\ got.frames = <<>>
         /\ Store(p, size, EmptyTb, stack)
         /\ UNCHANGED interned
      \/ /\ got.frames # <<>> /\ found # {}
         /\ \E b \in found : Store(p, size, b, stack)
         /\ UNCHANGED interned
      \/ /\ got.frames # <<>> /\ found = {}
         /\ \E b \in TbPtrs \ DOMAIN interned :
              /\ interned' = With(interned, b, got.frames)
              /\ Store(p, size, b, stack) \/ (MayFail /\ NoStore)
      \/ MayFail /\ NoStore /\ UNCHANGED interned
  <2>1. /\ Alloc(p, size, stack, fails) /\ got = GetFrames(stack, fails)
    BY <1>1
  <2> HIDE <1>1, <1>2
  <2> QED
    BY <2>1, Zenon DEF Alloc
<1>4. DOMAIN interned \subseteq TbPtrs
  BY DEF IInv, TypeInv
<1>5. CASE got.frames = <<>> /\ Store(p, size, EmptyTb, stack) /\ UNCHANGED interned
  <2>1. NewTraceback(got.frames)
    BY <1>4, <1>5 DEF NewTraceback
  <2> QED
    BY <1>2, <1>5, <2>1 DEF NewTrace
<1>6. ASSUME got.frames # <<>>, NEW b \in found, Store(p, size, b, stack),
             UNCHANGED interned
      PROVE  NewTraceback(got.frames) /\ NewTrace(p, size, stack, got.frames)
  <2>1. NewTraceback(got.frames)
    BY <1>4, <1>6 DEF NewTraceback
  <2>2. b \in DOMAIN interned' /\ interned'[b] = got.frames
    BY <1>6 DEF Same
  <2> QED
    BY <1>6, <2>1, <2>2 DEF NewTrace
<1>7. ASSUME got.frames # <<>>, found = {}, NEW b \in TbPtrs \ DOMAIN interned,
             interned' = With(interned, b, got.frames),
             Store(p, size, b, stack) \/ NoStore
      PROVE  NewTraceback(got.frames) /\ NewTrace(p, size, stack, got.frames)
  <2>1. /\ DOMAIN interned' = DOMAIN interned \cup {b} /\ interned'[b] = got.frames
        /\ \A c \in DOMAIN interned : interned'[c] = interned[c]
    BY <1>7 DEF With
  <2>2. \A c \in DOMAIN interned : interned[c] # got.frames
    BY <1>7 DEF Same
  <2>3. NewTraceback(got.frames)
    BY <1>4, <1>7, <2>1, <2>2 DEF NewTraceback
  <2> QED
    BY <1>7, <2>1, <2>3 DEF NewTrace
<1>8. CASE NoStore /\ UNCHANGED interned
  <2>1. NewTraceback(got.frames)
    BY <1>4, <1>8 DEF NewTraceback
  <2> QED
    BY <1>2, <1>8, <2>1 DEF NewTrace
<1>9. NewTraceback(got.frames) /\ NewTrace(p, size, stack, got.frames)
  <2> HIDE DEF found
  <2> QED
    BY <1>2, <1>3, <1>5, <1>6, <1>7, <1>8
<1> QED
  BY <1>2, <1>9

LEMMA AllocKeeps ==
  ASSUME IInv, NEW p \in Ptrs, NEW size \in Sizes, NEW stack \in Stacks,
         NEW fails \in {{}} \cup (IF MayFail THEN {Strings} ELSE {}),
         Alloc(p, size, stack, fails)
  PROVE  IInv'
<1> DEFINE c == Cut(stack)
           got == Walk(c, fails)
<1>a. PICK frames : frames = got.frames
  OBVIOUS
<1>1. /\ tracing /\ ~reading.on /\ p \notin DOMAIN traces
      /\ \A i \in DOMAIN stack : stack[i].filename \in held \cup {Unknown}
      /\ filenames' = got.filenames
      /\ refs' = [s \in DOMAIN refs |->
                    IF s \in got.owned THEN refs[s] + 1 ELSE refs[s]]
      /\ NewTraceback(frames)
      /\ NewTrace(p, size, stack, frames)
      /\ UNCHANGED <<text, held, config, objects>>
  <2> HIDE DEF got
  <2> QED
    BY AllocEffect, <1>a DEF got
<1>2. UNCHANGED <<text, held, tracing, maxNframe, room, tuples, list, reading, limit, restarted>>
  BY <1>1 DEF config, objects
<1>3. /\ c \in Seq(Frame) /\ Len(c) \in Nat /\ Len(c) <= maxNframe
      /\ DOMAIN c = 1 .. Len(c) /\ DOMAIN c \subseteq DOMAIN stack
      /\ \A i \in DOMAIN c : c[i] = stack[i]
  BY CutIs DEF IInv
<1>4. Got(got, c, fails, Len(c))
  <2>1. \A i \in 1 .. Len(c) : c[i].filename \in held \cup {Unknown}
    <3> HIDE DEF c, got
    <3> QED
      BY <1>1, <1>3
  <2> HIDE DEF c
  <2> QED
    BY <1>3, <2>1, GotAll DEF IInv
<1> HIDE DEF c, got
<1>5. /\ frames \in Seq(Frame) /\ Len(frames) = Len(c)
      /\ DOMAIN frames = 1 .. Len(c)
      /\ filenames' = filenames \cup got.owned /\ got.owned \cap filenames = {}
      /\ got.owned \subseteq held
      /\ \A s, t \in filenames' : text[s] = text[t] => s = t
      /\ \A i \in 1 .. Len(c) :
           /\ frames[i].lineno = c[i].lineno
           /\ frames[i].filename \in filenames' \cup {Unknown}
           /\ \/ /\ frames[i].filename \in Strings /\ c[i].filename \in Strings
                 /\ text[frames[i].filename] = text[c[i].filename]
              \/ /\ frames[i].filename = Unknown
                 /\ fails # {} \/ c[i].filename = Unknown
  BY <1>1, <1>4, <1>a DEF Got
<1>6. /\ text \in [Strings -> Texts \cup {"freed"}]
      /\ refs \in [Strings \cup {Unknown} -> Nat]
      /\ held \subseteq Strings /\ filenames \subseteq Strings
      /\ maxNframe \in Nat \ {0} /\ Unknown \notin Strings
  BY TracebacksAssumption DEF IInv, TypeInv
<1>7. /\ DOMAIN interned \subseteq DOMAIN interned' /\ DOMAIN interned' \subseteq TbPtrs
      /\ \A b \in DOMAIN interned : interned'[b] = interned[b]
      /\ \A b \in DOMAIN interned' \ DOMAIN interned :
           /\ interned'[b] = frames /\ frames # <<>>
           /\ \A d \in DOMAIN interned : interned[d] # frames
           /\ \A d \in DOMAIN interned' \ DOMAIN interned : b = d
  BY <1>1 DEF NewTraceback
<1>8. TypeInv'
  <2>1. refs' \in [Strings \cup {Unknown} -> Nat]
    BY <1>1, <1>6
  <2>2. \A b \in DOMAIN interned' : interned'[b] \in Seq(Frame)
    BY <1>5, <1>7 DEF IInv, TypeInv
  <2> QED
    BY <1>2, <1>5, <1>6, <1>7, <2>1, <2>2 DEF IInv, TypeInv
<1>9. TuplesInv' /\ FitInv'
  BY <1>2 DEF IInv, TuplesInv, FitInv
<1>10. ReadingInv' /\ ListInv'
  BY <1>1, <1>2, IdleIs, NotReadingHolds
<1>11. TextInv'
  <2>1. \A s \in Strings : refs'[s] > 0 => refs[s] > 0
    BY <1>1, <1>5, <1>6, Alive
  <2> QED
    BY <1>2, <2>1 DEF IInv, TextInv
<1>12. TracingInv'
  <2>1. room = maxNframe
    BY <1>1 DEF IInv, TracingInv
  <2>2. frames # <<>> => Len(frames) \in 1 .. room
    BY <1>3, <1>5, <1>6, <2>1
  <2> QED
    BY <1>1, <1>2, <1>7, <2>1, <2>2 DEF IInv, TracingInv
<1>13. BorrowInv'
  <2>1. \A b \in DOMAIN interned' : \A i \in DOMAIN interned'[b] :
          interned'[b][i].filename \in filenames' \cup {Unknown}
    BY <1>5, <1>7 DEF IInv, BorrowInv
  <2>2. \A b, d \in DOMAIN interned' : interned'[b] = interned'[d] => b = d
    BY <1>7 DEF IInv, BorrowInv
  <2> QED
    BY <1>2, <1>5, <2>1, <2>2 DEF BorrowInv
<1>14. RefsInv'
  <2>1. ASSUME NEW s \in Strings \cup {Unknown}
        PROVE  refs'[s] = (IF s \in held \cup {Unknown} THEN 1 ELSE 0)
                 + (IF s \in filenames' THEN 1 ELSE 0) + Owned(tuples, DOMAIN tuples, s)
    <3>1. Owned(tuples, DOMAIN tuples, s) \in Nat
      BY Alive, OwnedNat
    <3>2. refs[s] = (IF s \in held \cup {Unknown} THEN 1 ELSE 0)
            + (IF s \in filenames THEN 1 ELSE 0) + Owned(tuples, DOMAIN tuples, s)
      BY DEF IInv, RefsInv
    <3>3. refs'[s] = IF s \in got.owned THEN refs[s] + 1 ELSE refs[s]
      BY <1>1, <1>6
    <3> QED
      BY <1>5, <3>1, <3>2, <3>3
  <2> QED
    BY <1>2, <2>1 DEF IInv, RefsInv, Tracks, Makers
<1>15. ASSUME NoStore
       PROVE  TracesInv' /\ OriginInv' /\ OriginDomain'
  <2>1. UNCHANGED <<traces, origin>>
    BY <1>15 DEF NoStore
  <2>2. ASSUME NEW q \in DOMAIN traces
        PROVE  SaysTrue(q)'
    BY <1>2, <1>7, <2>1, SaysKept DEF IInv, OriginInv
  <2> QED
    BY <1>7, <2>1, <2>2 DEF IInv, TracesInv, OriginInv, OriginDomain
<1>16. ASSUME NEW b, Store(p, size, b, stack),
              \/ b = EmptyTb /\ frames = <<>>
              \/ b \in DOMAIN interned' /\ interned'[b] = frames /\ frames # <<>>
       PROVE  TracesInv' /\ OriginInv' /\ OriginDomain'
  <2> DEFINE o == [i \in DOMAIN c |->
                     [file |-> IF stack[i].filename = Unknown THEN UnknownText
                               ELSE text[stack[i].filename],
                      lineno |-> stack[i].lineno]]
  <2>1. /\ DOMAIN traces' = DOMAIN traces \cup {p}
        /\ traces'[p] = [size |-> size, traceback |-> b]
        /\ \A q \in DOMAIN traces : traces'[q] = traces[q]
    BY <1>1, <1>16 DEF Store, With
  <2>2. /\ DOMAIN origin' = DOMAIN origin \cup {p} /\ origin'[p] = o
        /\ \A q \in DOMAIN origin : q # p => origin'[q] = origin[q]
    <3>1. origin' = With(origin, p, o)
      BY <1>16 DEF Store, c
    <3> HIDE DEF o
    <3> QED
      BY <3>1 DEF With
  <2>3. TracesInv'
    BY <1>7, <1>16, <2>1, FS_AddElement DEF IInv, TracesInv
  <2>4. OriginDomain'
    BY <2>1, <2>2 DEF IInv, OriginDomain
  <2>5. ASSUME NEW q \in DOMAIN traces
        PROVE  SaysTrue(q)'
    <3>1. SaysTrue(q) /\ traces'[q] = traces[q] /\ origin'[q] = origin[q]
      BY <1>1, <2>1, <2>2 DEF IInv, OriginInv, OriginDomain
    <3> QED
      BY <1>2, <1>7, <3>1, SaysKept DEF IInv
  <2>6. SaysTrue(p)'
    <3>1. DOMAIN o = 1 .. Len(c) /\ (o = <<>> <=> Len(c) = 0)
      <4>1. DOMAIN o = 1 .. Len(c)
        BY <1>3
      <4>2. Len(c) = 0 => o = <<>>
        BY <1>3
      <4>3. Len(c) # 0 => 1 \in DOMAIN o
        BY <1>3, <4>1
      <4>4. DOMAIN <<>> = {}
        OBVIOUS
      <4> HIDE DEF o
      <4> QED
        BY <4>1, <4>2, <4>3, <4>4
    <3>2. frames = <<>> <=> Len(c) = 0
      BY <1>3, <1>5
    <3>3. ASSUME NEW i \in 1 .. Len(c)
          PROVE  /\ frames[i].lineno = o[i].lineno
                 /\ \/ TextOf(frames[i].filename)' = o[i].file
                    \/ MayFail /\ frames[i].filename = Unknown
      <4>1. /\ c[i] = stack[i]
            /\ o[i] = [file |-> IF c[i].filename = Unknown THEN UnknownText
                                ELSE text[c[i].filename],
                       lineno |-> c[i].lineno]
        BY <1>3
      <4>2. fails # {} => MayFail
        OBVIOUS
      <4>3. \/ (IF frames[i].filename = Unknown THEN UnknownText
                  ELSE text[frames[i].filename]) = o[i].file
            \/ MayFail /\ frames[i].filename = Unknown
        <5>1. CASE /\ frames[i].filename \in Strings /\ c[i].filename \in Strings
                   /\ text[frames[i].filename] = text[c[i].filename]
          <6>1. c[i].filename # Unknown /\ frames[i].filename # Unknown
            BY <1>6, <5>1
          <6>2. o[i].file = text[c[i].filename]
            BY <4>1, <6>1
          <6> HIDE DEF o
          <6> QED
            BY <5>1, <6>1, <6>2
        <5>2. CASE frames[i].filename = Unknown /\ (fails # {} \/ c[i].filename = Unknown)
          BY <4>1, <4>2, <5>2
        <5> QED
          BY <1>5, <5>1, <5>2
      <4>4. frames[i].lineno = o[i].lineno
        BY <1>5, <4>1
      <4> QED
        BY <1>2, <4>3, <4>4 DEF TextOf
    <3>4. CASE b = EmptyTb /\ frames = <<>>
      BY <2>1, <2>2, <3>1, <3>2, <3>4 DEF SaysTrue
    <3>5. CASE b \in DOMAIN interned' /\ interned'[b] = frames /\ frames # <<>>
      <4>1. b # EmptyTb
        BY <1>7, <3>5, TracebacksAssumption
      <4>2. traces'[p].traceback = b /\ FramesOf(traces[p].traceback)' = frames
        BY <2>1, <3>5, <4>1 DEF FramesOf
      <4> HIDE DEF o
      <4> QED
        BY <1>5, <2>2, <3>1, <3>2, <3>3, <3>5, <4>2 DEF SaysTrue
    <3> QED
      BY <1>16, <3>4, <3>5
  <2> QED
    BY <2>1, <2>3, <2>4, <2>5, <2>6 DEF OriginInv
<1>17. TracesInv' /\ OriginInv' /\ OriginDomain'
  BY <1>1, <1>15, <1>16 DEF NewTrace
<1> QED
  BY <1>8, <1>9, <1>10, <1>11, <1>12, <1>13, <1>14, <1>17 DEF IInv

-----------------------------------------------------------------------------
(* A trace is converted.                                                   *)

\* What is not in a sequence.
LEMMA CountAbsent ==
  ASSUME NEW seq, NEW x, \A i \in DOMAIN seq : seq[i] # x
  PROVE  Count(seq, x) = 0
<1>1. {i \in DOMAIN seq : seq[i] = x} = {}
  OBVIOUS
<1> QED
  BY <1>1, FS_EmptySet DEF Count

Entry == [size : Sizes, traceback : Tuples]

LEMMA TracksIs ==
  ASSUME NEW l \in Seq(Entry)
  PROVE  /\ Tracks(l) \in Seq(Tuples) /\ Len(Tracks(l)) = Len(l)
         /\ DOMAIN Tracks(l) = DOMAIN l
         /\ \A i \in DOMAIN l : Tracks(l)[i] = l[i].traceback /\ l[i].traceback \in Tuples
<1>1. Len(l) \in Nat /\ DOMAIN l = 1 .. Len(l) /\ \A i \in DOMAIN l : l[i] \in Entry
  OBVIOUS
<1>2. /\ Tracks(l) = [i \in 1 .. Len(l) |-> l[i].traceback]
      /\ \A i \in 1 .. Len(l) : l[i].traceback \in Tuples
  BY <1>1 DEF Tracks, Entry
<1> QED
  BY <1>1, <1>2

LEMMA TracksAppend ==
  ASSUME NEW l \in Seq(Entry), NEW e \in Entry, NEW v
  PROVE  Count(Tracks(Append(l, e)), v)
           = Count(Tracks(l), v) + (IF v = e.traceback THEN 1 ELSE 0)
<1>1. e.traceback \in Tuples
  BY DEF Entry
<1>2. Append(l, e) \in Seq(Entry)
  BY AppendIs
<1> DEFINE a == Append(l, e)
           t == Tracks(a)
           b == Append(Tracks(l), e.traceback)
<1>3. /\ Len(l) \in Nat /\ DOMAIN a = DOMAIN l \cup {Len(l) + 1}
      /\ \A i \in DOMAIN l : a[i] = l[i]
      /\ a[Len(l) + 1] = e /\ Len(a) = Len(l) + 1
      /\ DOMAIN a = 1 .. (Len(l) + 1)
  <2>1. /\ Len(l) \in Nat /\ DOMAIN a = DOMAIN l \cup {Len(l) + 1}
        /\ \A i \in DOMAIN l : a[i] = l[i]
        /\ a[Len(l) + 1] = e /\ Len(a) = Len(l) + 1
    BY AppendIs
  <2> QED
    BY <2>1, <1>2
<1>4. /\ t \in Seq(Tuples) /\ Len(t) = Len(l) + 1 /\ DOMAIN t = DOMAIN a
      /\ \A i \in DOMAIN a : t[i] = a[i].traceback
  <2> HIDE DEF a
  <2> QED
    BY <1>2, <1>3, TracksIs DEF a
<1>5. /\ b \in Seq(Tuples) /\ Len(b) = Len(l) + 1 /\ DOMAIN b = DOMAIN l \cup {Len(l) + 1}
      /\ \A i \in DOMAIN l : b[i] = l[i].traceback
      /\ b[Len(l) + 1] = e.traceback
  <2>1. /\ Tracks(l) \in Seq(Tuples) /\ Len(Tracks(l)) = Len(l)
        /\ DOMAIN Tracks(l) = DOMAIN l
        /\ \A i \in DOMAIN l : Tracks(l)[i] = l[i].traceback
    BY TracksIs
  <2>2. /\ b \in Seq(Tuples) /\ Len(b) = Len(Tracks(l)) + 1
        /\ DOMAIN b = DOMAIN Tracks(l) \cup {Len(Tracks(l)) + 1}
        /\ \A i \in DOMAIN Tracks(l) : b[i] = Tracks(l)[i]
        /\ b[Len(Tracks(l)) + 1] = e.traceback
    BY <1>1, <2>1, AppendIs
  <2> HIDE DEF b
  <2> QED
    BY <2>1, <2>2
<1> HIDE DEF a, t, b
<1>6. t = [i \in DOMAIN t |-> t[i]] /\ b = [i \in DOMAIN b |-> b[i]]
  <2>1. \A q \in Seq(Tuples) : q = [i \in DOMAIN q |-> q[i]]
    OBVIOUS
  <2> QED
    BY <1>4, <1>5, <2>1
<1>7. DOMAIN t = DOMAIN b /\ \A i \in DOMAIN t : t[i] = b[i]
  BY <1>3, <1>4, <1>5
<1>8. t = b
  BY <1>6, <1>7
<1>9. Count(b, v) = Count(Tracks(l), v) + (IF v = e.traceback THEN 1 ELSE 0)
  <2>1. Tracks(l) \in Seq(Tuples)
    BY SMTT(60), TracksIs
  <2> QED
    BY <1>1, <2>1, CountAppend DEF b
<1> QED
  BY <1>8, <1>9 DEF t, a

\* The trace is read and tuple u stands for its traceback: one made before or
\* a new one; and the list has it if it could grow.
Converted(p, append, u) ==
  LET b == traces[p].traceback
  IN /\ list' = IF append THEN Append(list, [size |-> traces[p].size, traceback |-> u])
                ELSE list
     /\ reading' = [left |-> reading.left \ {p}, made |-> reading'.made,
                    err |-> ~append, on |-> TRUE]
     /\ DOMAIN reading'.made = DOMAIN reading.made \cup {b}
     /\ reading'.made[b] = u
     /\ \A c \in DOMAIN reading.made : c # b => reading'.made[c] = reading.made[c]
     /\ u \in Tuples /\ DOMAIN tuples' = DOMAIN tuples \cup {u}
     /\ \A v \in DOMAIN tuples : v # u => tuples'[v] = tuples[v]

\* The tuple was made before.
Shared(p, append, u) ==
  LET b == traces[p].traceback
  IN /\ b \in DOMAIN reading.made /\ u = reading.made[b] /\ u \in DOMAIN tuples
     /\ tuples'[u] = [frames |-> tuples[u].frames,
                      refs |-> tuples[u].refs + (IF append THEN 1 ELSE 0)]
     /\ refs' = refs

\* It is new, and has a reference to each of its filenames.
Made(p, append, u) ==
  LET b == traces[p].traceback
  IN /\ b \notin DOMAIN reading.made /\ u \notin DOMAIN tuples
     /\ tuples'[u] = [frames |-> FramesOf(b), refs |-> IF append THEN 2 ELSE 1]
     /\ refs' = [s \in DOMAIN refs |-> refs[s] + Count(Names(FramesOf(b)), s)]

LEMMA ConvertEffect ==
  ASSUME IInv, NEW p \in Ptrs, NEW append \in BOOLEAN, Convert(p, append)
  PROVE  /\ reading.on /\ ~reading.err /\ p \in reading.left
         /\ UNCHANGED <<text, held, config, tables, limit, restarted>>
         /\ \E u : Converted(p, append, u) /\ (Shared(p, append, u) \/ Made(p, append, u))
<1> DEFINE b == traces[p].traceback
<1>1. /\ reading.on /\ ~reading.err /\ p \in reading.left
      /\ UNCHANGED <<text, held, config, tables, limit, restarted>>
  BY DEF Convert, Converting
<1>2. reading \in [left : SUBSET DOMAIN traces, made : {reading.made},
                   err : BOOLEAN, on : BOOLEAN]
  BY DEF IInv, ReadingInv
<1>3. /\ \A c \in DOMAIN reading.made : reading.made[c] \in DOMAIN tuples
      /\ DOMAIN tuples \subseteq Tuples
      /\ \A v \in DOMAIN tuples : tuples[v] \in [frames : Seq(Frame), refs : Nat \ {0}]
  BY DEF IInv, ReadingInv, TuplesInv
<1>4. ASSUME b \in DOMAIN reading.made,
             tuples' = IF append
               THEN [tuples EXCEPT ![reading.made[b]].refs = Found(@)]
               ELSE tuples,
             list' = IF append
               THEN Append(list, [size |-> traces[p].size, traceback |-> reading.made[b]])
               ELSE list,
             reading' = [reading EXCEPT !.left = @ \ {p}, !.err = Failed(append)],
             UNCHANGED refs
      PROVE  Converted(p, append, reading.made[b]) /\ Shared(p, append, reading.made[b])
  <2> DEFINE u == reading.made[b]
  <2>1. u \in DOMAIN tuples
    BY <1>3, <1>4
  <2>2. /\ reading'.left = reading.left \ {p} /\ reading'.made = reading.made
        /\ reading'.err = ~append /\ reading'.on = TRUE
        /\ DOMAIN reading' = {"left", "made", "err", "on"}
        /\ reading' = [x \in {"left", "made", "err", "on"} |-> reading'[x]]
    BY <1>1, <1>2, <1>4 DEF Failed
  <2>3. reading' = [left |-> reading.left \ {p}, made |-> reading'.made,
                    err |-> ~append, on |-> TRUE]
    BY <2>2
  <2>4. /\ DOMAIN tuples' = DOMAIN tuples
        /\ \A v \in DOMAIN tuples : v # u => tuples'[v] = tuples[v]
        /\ tuples'[u] = [frames |-> tuples[u].frames,
                         refs |-> tuples[u].refs + (IF append THEN 1 ELSE 0)]
    <3>1. CASE append
      BY <1>3, <1>4, <2>1, <3>1 DEF Found
    <3>2. CASE ~append
      BY <1>3, <1>4, <2>1, <3>2
    <3> QED
      BY <3>1, <3>2
  <2>5. Converted(p, append, u)
    <3>1. /\ list' = IF append
                     THEN Append(list, [size |-> traces[p].size, traceback |-> u])
                     ELSE list
          /\ DOMAIN reading'.made = DOMAIN reading.made \cup {b}
          /\ reading'.made[b] = u
          /\ \A c \in DOMAIN reading.made : c # b => reading'.made[c] = reading.made[c]
      BY <1>4, <2>2
    <3>2. u \in Tuples /\ DOMAIN tuples' = DOMAIN tuples \cup {u}
      BY <1>3, <2>1, <2>4
    <3> HIDE DEF u
    <3> QED
      BY <2>3, <2>4, <3>1, <3>2 DEF Converted
  <2> QED
    BY <1>4, <2>1, <2>4, <2>5 DEF Shared
<1>5. ASSUME b \notin DOMAIN reading.made, NEW u \in Tuples \ DOMAIN tuples,
             tuples' = With(tuples, u, [frames |-> FramesOf(b), refs |-> RefsMade(append)]),
             list' = IF append
               THEN Append(list, [size |-> traces[p].size, traceback |-> u])
               ELSE list,
             reading' = [reading EXCEPT !.left = @ \ {p}, !.err = Failed(append),
                                        !.made = With(@, b, u)],
             refs' = [s \in DOMAIN refs |-> refs[s] + Count(Names(FramesOf(b)), s)]
      PROVE  Converted(p, append, u) /\ Made(p, append, u)
  <2>1. /\ reading'.left = reading.left \ {p} /\ reading'.made = With(reading.made, b, u)
        /\ reading'.err = ~append /\ reading'.on = TRUE
        /\ DOMAIN reading' = {"left", "made", "err", "on"}
        /\ reading' = [x \in {"left", "made", "err", "on"} |-> reading'[x]]
    BY <1>1, <1>2, <1>5 DEF Failed
  <2>2. reading' = [left |-> reading.left \ {p}, made |-> reading'.made,
                    err |-> ~append, on |-> TRUE]
    BY <2>1
  <2>3. /\ DOMAIN reading'.made = DOMAIN reading.made \cup {b}
        /\ reading'.made[b] = u
        /\ \A c \in DOMAIN reading.made : c # b => reading'.made[c] = reading.made[c]
    BY <2>1 DEF With
  <2>4. /\ DOMAIN tuples' = DOMAIN tuples \cup {u}
        /\ \A v \in DOMAIN tuples : v # u => tuples'[v] = tuples[v]
        /\ tuples'[u] = [frames |-> FramesOf(b), refs |-> IF append THEN 2 ELSE 1]
    BY <1>5 DEF With, RefsMade
  <2>5. Converted(p, append, u)
    BY <1>5, <2>2, <2>3, <2>4 DEF Converted
  <2> QED
    BY <1>5, <2>4, <2>5 DEF Made
<1> QED
  BY <1>1, <1>4, <1>5 DEF Convert

\* What the tuples are after it, and what they refer to.
LEMMA ConvertTuples ==
  ASSUME IInv, NEW p \in Ptrs, NEW append \in BOOLEAN, NEW u, reading.on,
         ~reading.err, p \in reading.left, Converted(p, append, u),
         Shared(p, append, u) \/ Made(p, append, u), UNCHANGED <<interned, tracing>>
  PROVE  /\ TuplesInv'
         /\ \A v \in DOMAIN tuples : tuples'[v].frames = tuples[v].frames
         /\ tuples'[u].frames = FramesOf(traces[p].traceback)
         /\ FramesOf(traces[p].traceback) \in Seq(Frame)
         /\ Len(FramesOf(traces[p].traceback)) \in 1 .. maxNframe
<1> DEFINE b == traces[p].traceback
<1>1. /\ p \in DOMAIN traces /\ traces[p].size \in Sizes
      /\ b \in DOMAIN interned \cup {EmptyTb} /\ tracing
  BY DEF IInv, TracesInv, ReadingInv
<1>2. FramesOf(b) \in Seq(Frame) /\ Len(FramesOf(b)) \in 1 .. maxNframe
  BY <1>1, FramesOfIs DEF IInv
<1>3. /\ IsFiniteSet(DOMAIN tuples) /\ DOMAIN tuples \subseteq Tuples
      /\ \A v \in DOMAIN tuples : tuples[v] \in [frames : Seq(Frame), refs : Nat \ {0}]
      /\ list \in Seq(Entry)
      /\ \A i \in DOMAIN list : list[i].traceback \in DOMAIN tuples
  BY DEF IInv, TuplesInv, Entry
<1>4. /\ list' = IF append THEN Append(list, [size |-> traces[p].size, traceback |-> u])
                 ELSE list
      /\ u \in Tuples /\ DOMAIN tuples' = DOMAIN tuples \cup {u}
      /\ \A v \in DOMAIN tuples : v # u => tuples'[v] = tuples[v]
  BY DEF Converted
<1>5. /\ tuples'[u] \in [frames : Seq(Frame), refs : Nat \ {0}]
      /\ tuples'[u].frames = FramesOf(b)
      /\ u \in DOMAIN tuples => tuples'[u].frames = tuples[u].frames
  <2>1. CASE Shared(p, append, u)
    <3>1. tuples[u].frames = FramesOf(b)
      BY <2>1 DEF Shared, IInv, ReadingInv
    <3>2. /\ u \in DOMAIN tuples
          /\ tuples'[u] = [frames |-> tuples[u].frames,
                           refs |-> tuples[u].refs + (IF append THEN 1 ELSE 0)]
      BY <2>1 DEF Shared
    <3> QED
      BY <1>3, <3>1, <3>2
  <2>2. CASE Made(p, append, u)
    <3>1. /\ u \notin DOMAIN tuples
          /\ tuples'[u] = [frames |-> FramesOf(b), refs |-> IF append THEN 2 ELSE 1]
      BY <2>2 DEF Made
    <3> QED
      BY <1>2, <3>1
  <2> QED
    BY <2>1, <2>2
<1>6. IsFiniteSet(DOMAIN tuples')
  BY <1>3, <1>4, FS_AddElement
<1>7. list' \in Seq(Entry) /\ \A i \in DOMAIN list' : list'[i].traceback \in DOMAIN tuples'
  <2>1. CASE ~append
    BY <1>3, <1>4, <2>1
  <2>2. CASE append
    <3> DEFINE e == [size |-> traces[p].size, traceback |-> u]
    <3>1. e \in Entry /\ e.traceback = u
      BY <1>1, <1>4 DEF Entry
    <3>2. list' = Append(list, e)
      BY <1>4, <2>2
    <3> HIDE DEF e
    <3>3. /\ list' \in Seq(Entry) /\ DOMAIN list' = DOMAIN list \cup {Len(list) + 1}
          /\ \A i \in DOMAIN list : list'[i] = list[i]
          /\ list'[Len(list) + 1] = e
      BY <1>3, <3>1, <3>2, AppendIs
    <3> QED
      BY <1>3, <1>4, <3>1, <3>3
  <2> QED
    BY <2>1, <2>2
<1>8. TuplesInv'
  BY <1>3, <1>4, <1>5, <1>6, <1>7 DEF TuplesInv, Entry
<1> QED
  BY <1>1, <1>2, <1>4, <1>5, <1>8

\* Each reference has its owner.
LEMMA ConvertBalances ==
  ASSUME IInv, NEW p \in Ptrs, NEW append \in BOOLEAN, NEW u, reading.on,
         ~reading.err, p \in reading.left, Converted(p, append, u),
         Shared(p, append, u) \/ Made(p, append, u),
         UNCHANGED <<held, filenames, interned, tracing>>
  PROVE  RefsInv'
<1> DEFINE b == traces[p].traceback
<1>1. /\ TuplesInv'
      /\ \A v \in DOMAIN tuples : tuples'[v].frames = tuples[v].frames
      /\ tuples'[u].frames = FramesOf(b)
      /\ FramesOf(b) \in Seq(Frame)
  BY ConvertTuples
<1>2. /\ list' = IF append THEN Append(list, [size |-> traces[p].size, traceback |-> u])
                 ELSE list
      /\ DOMAIN reading'.made = DOMAIN reading.made \cup {b} /\ reading'.made[b] = u
      /\ \A c \in DOMAIN reading.made : c # b => reading'.made[c] = reading.made[c]
      /\ u \in Tuples /\ DOMAIN tuples' = DOMAIN tuples \cup {u}
      /\ \A v \in DOMAIN tuples : v # u => tuples'[v] = tuples[v]
  BY DEF Converted
<1>3. /\ AreTuples(tuples, DOMAIN tuples)
      /\ AreTuples(tuples', DOMAIN tuples) /\ AreTuples(tuples', DOMAIN tuples')
      /\ \A s : Owned(tuples', DOMAIN tuples, s) = Owned(tuples, DOMAIN tuples, s)
  <2>1. AreTuples(tuples, DOMAIN tuples)
    BY Alive
  <2>2. ASSUME NEW s
        PROVE  /\ AreTuples(tuples', DOMAIN tuples)
               /\ Owned(tuples', DOMAIN tuples, s) = Owned(tuples, DOMAIN tuples, s)
    <3>1. PICK r : r = tuples'
      OBVIOUS
    <3>2. \A v \in DOMAIN tuples : tuples[v].frames = r[v].frames
      BY <1>1, <3>1
    <3>3. /\ AreTuples(r, DOMAIN tuples)
          /\ Owned(tuples, DOMAIN tuples, s) = Owned(r, DOMAIN tuples, s)
      BY <2>1, <3>2, OwnedSame
    <3> QED
      BY <3>1, <3>3
  <2>3. AreTuples(tuples', DOMAIN tuples')
    BY <1>1 DEF TuplesInv, AreTuples
  <2> QED
    BY <2>1, <2>2, <2>3
<1>4. ASSUME NEW s \in Strings \cup {Unknown}
      PROVE  refs'[s] = (IF s \in held' \cup {Unknown} THEN 1 ELSE 0)
               + (IF s \in filenames' THEN 1 ELSE 0) + Owned(tuples', DOMAIN tuples', s)
  <2>1. refs[s] = (IF s \in held \cup {Unknown} THEN 1 ELSE 0)
          + (IF s \in filenames THEN 1 ELSE 0) + Owned(tuples, DOMAIN tuples, s)
    BY DEF IInv, RefsInv
  <2>2. CASE Shared(p, append, u)
    <3>1. DOMAIN tuples' = DOMAIN tuples /\ refs' = refs
      BY <1>2, <2>2 DEF Shared
    <3> QED
      BY <1>3, <2>1, <3>1
  <2>3. CASE Made(p, append, u)
    <3>1. u \notin DOMAIN tuples /\ refs'[s] = refs[s] + Count(Names(FramesOf(b)), s)
      BY <2>3 DEF Made, IInv, TypeInv
    <3>2. Owned(tuples', DOMAIN tuples', s)
            = Owned(tuples', DOMAIN tuples, s) + Count(Names(tuples'[u].frames), s)
      BY <1>2, <1>3, <3>1, OwnedAdd
    <3>3. /\ Count(Names(FramesOf(b)), s) \in Nat
          /\ Owned(tuples, DOMAIN tuples, s) \in Nat
      BY <1>1, <1>3, NamesIs, CountNat, OwnedNat
    <3> QED
      BY <1>1, <1>3, <2>1, <3>1, <3>2, <3>3
  <2> QED
    BY <2>2, <2>3
<1>5. ASSUME NEW v
      PROVE  /\ Count(Tracks(list), v) \in Nat
             /\ Count(Tracks(list'), v)
                  = Count(Tracks(list), v) + (IF append /\ v = u THEN 1 ELSE 0)
  <2>1. list \in Seq(Entry)
    BY DEF IInv, TuplesInv, Entry
  <2>2. Count(Tracks(list), v) \in Nat
    BY <2>1, TracksIs, CountNat
  <2>3. CASE append
    <3> DEFINE e == [size |-> traces[p].size, traceback |-> u]
    <3>1. e \in Entry /\ e.traceback = u
      BY <1>2 DEF Entry, IInv, TracesInv, ReadingInv
    <3>2. list' = Append(list, e)
      BY <1>2, <2>3
    <3> HIDE DEF e
    <3> QED
      BY <2>1, <2>2, <2>3, <3>1, <3>2, TracksAppend
  <2>4. CASE ~append
    BY <1>2, <2>2, <2>4
  <2> QED
    BY <2>3, <2>4
<1>6. ASSUME NEW v \in DOMAIN tuples'
      PROVE  tuples'[v].refs = Count(Tracks(list'), v) + Cardinality(Makers(reading'.made, v))
  <2>1. CASE v \in DOMAIN tuples /\ (v # u \/ Shared(p, append, u))
    <3>1. tuples[v].refs = Count(Tracks(list), v) + Cardinality(Makers(reading.made, v))
      BY <2>1 DEF IInv, RefsInv
    <3>2. Makers(reading'.made, v) = Makers(reading.made, v)
      BY <1>2, <2>1 DEF Makers, Shared, Made, IInv, ReadingInv
    <3>3. Cardinality(Makers(reading.made, v)) \in Nat
      <4>1. Makers(reading.made, v) \subseteq DOMAIN reading.made
            /\ IsFiniteSet(DOMAIN reading.made)
        BY DEF Makers, IInv, ReadingInv
      <4> QED
        BY <4>1, FS_Subset, FS_CardinalityType
    <3>4. tuples'[v].refs = tuples[v].refs + (IF append /\ v = u THEN 1 ELSE 0)
      <4>1. CASE v # u
        <5>1. tuples[v].refs \in Nat
          BY <2>1 DEF IInv, TuplesInv
        <5> QED
          BY <1>2, <2>1, <4>1, <5>1
      <4>2. CASE v = u
        BY <2>1, <4>2 DEF Shared
      <4> QED
        BY <4>1, <4>2
    <3> QED
      BY <1>5, <3>1, <3>2, <3>3, <3>4
  <2>2. CASE v = u /\ Made(p, append, u)
    <3>1. /\ u \notin DOMAIN tuples /\ b \notin DOMAIN reading.made
          /\ tuples'[u].refs = IF append THEN 2 ELSE 1
      BY <2>2 DEF Made
    <3>2. Makers(reading'.made, u) = {b}
      BY <1>2, <3>1 DEF Makers, IInv, ReadingInv
    <3>3. Cardinality({b}) = 1
      BY FS_Singleton
    <3>4. Count(Tracks(list), u) = 0
      <4>1. \A i \in DOMAIN Tracks(list) : Tracks(list)[i] # u
        BY <3>1 DEF Tracks, IInv, TuplesInv
      <4> QED
        BY <4>1, CountAbsent
    <3> QED
      BY <1>5, <2>2, <3>1, <3>2, <3>3, <3>4
  <2>3. v = u \/ v \in DOMAIN tuples
    BY <1>2
  <2>4. Shared(p, append, u) => u \in DOMAIN tuples
    BY DEF Shared
  <2> QED
    BY <2>1, <2>2, <2>3, <2>4
<1> QED
  BY <1>4, <1>6 DEF RefsInv

\* The list has the traces that were read.
LEMMA ConvertLists ==
  ASSUME IInv, NEW p \in Ptrs, NEW append \in BOOLEAN, NEW u, reading.on,
         ~reading.err, p \in reading.left, Converted(p, append, u),
         Shared(p, append, u) \/ Made(p, append, u), UNCHANGED <<interned, traces, tracing>>
  PROVE  ListInv'
<1> DEFINE b == traces[p].traceback
           e == [size |-> traces[p].size, traceback |-> u]
<1>1. /\ \A v \in DOMAIN tuples : tuples'[v].frames = tuples[v].frames
      /\ tuples'[u].frames = FramesOf(b)
  BY ConvertTuples
<1>2. reading'.left = reading.left \ {p} /\ reading'.err = ~append
  BY DEF Converted
<1>3. SUFFICES ASSUME append = TRUE PROVE ListInv'
  BY <1>2 DEF ListInv
<1>4. list \in Seq(Entry) /\ \A i \in DOMAIN list : list[i].traceback \in DOMAIN tuples
  BY DEF IInv, TuplesInv, Entry
<1>5. e \in Entry /\ list' = Append(list, e) /\ p \in DOMAIN traces
  BY <1>3 DEF Converted, Entry, IInv, TracesInv, ReadingInv
<1>6. /\ Len(list) \in Nat /\ Len(list') = Len(list) + 1
      /\ DOMAIN list' = DOMAIN list \cup {Len(list) + 1}
      /\ Len(list) + 1 \notin DOMAIN list
      /\ \A i \in DOMAIN list : list'[i] = list[i]
      /\ list'[Len(list) + 1] = e
  <2> HIDE DEF e
  <2> QED
    BY <1>4, <1>5, AppendIs
<1>7. /\ Len(list) = Cardinality(DOMAIN traces \ reading.left)
      /\ \A z \in Sizes, c \in DOMAIN interned \cup {EmptyTb} :
           Cardinality(Listed(z, FramesOf(c))) = Cardinality(Read(z, FramesOf(c)))
  BY DEF IInv, ListInv
<1>8. /\ IsFiniteSet(DOMAIN traces)
      /\ DOMAIN traces \ reading'.left = (DOMAIN traces \ reading.left) \cup {p}
      /\ p \notin DOMAIN traces \ reading.left
  BY <1>2, <1>5 DEF IInv, TracesInv
<1>9. Len(list') = Cardinality(DOMAIN traces \ reading'.left)
  <2>1. IsFiniteSet(DOMAIN traces \ reading.left)
    BY <1>8, FS_Subset
  <2>2. Cardinality((DOMAIN traces \ reading.left) \cup {p})
          = Cardinality(DOMAIN traces \ reading.left) + 1
    BY <1>8, <2>1, FS_AddElement
  <2> QED
    BY <1>6, <1>7, <1>8, <2>2
<1>10. \A c : FramesOf(c)' = FramesOf(c)
  BY DEF FramesOf
<1>11. ASSUME NEW z \in Sizes, NEW c \in DOMAIN interned \cup {EmptyTb}
       PROVE  Cardinality(Listed(z, FramesOf(c))') = Cardinality(Read(z, FramesOf(c))')
  <2> DEFINE one == traces[p].size = z /\ FramesOf(b) = FramesOf(c)
             L == Listed(z, FramesOf(c))
             R == Read(z, FramesOf(c))
  <2>1. Listed(z, FramesOf(c))' = IF one THEN L \cup {Len(list) + 1} ELSE L
    <3>1. Listed(z, FramesOf(c))'
            = {i \in DOMAIN list' : /\ list'[i].size = z
                                    /\ tuples'[list'[i].traceback].frames = FramesOf(c)}
      BY <1>10 DEF Listed
    <3>2. \A i \in DOMAIN list : tuples'[list'[i].traceback].frames
                                   = tuples[list[i].traceback].frames
      BY <1>1, <1>4, <1>6
    <3>3. /\ list'[Len(list) + 1].size = traces[p].size
          /\ tuples'[list'[Len(list) + 1].traceback].frames = FramesOf(b)
      BY <1>1, <1>6
    <3> QED
      BY <1>6, <3>1, <3>2, <3>3 DEF Listed
  <2>2. Read(z, FramesOf(c))' = IF one THEN R \cup {p} ELSE R
    BY <1>2, <1>5, <1>8, <1>10 DEF Read
  <2>3. L \subseteq DOMAIN list /\ R \subseteq DOMAIN traces \ reading.left
    BY DEF Listed, Read
  <2>4. Len(list) + 1 \notin L /\ p \notin R
    BY <1>6, <1>8, <2>3
  <2> HIDE DEF L, R
  <2>5. IsFiniteSet(L) /\ IsFiniteSet(R)
    <3>1. IsFiniteSet(L)
      BY <1>4, <2>3, PlacesFinite
    <3>2. IsFiniteSet(R)
      BY <1>8, <2>3, FS_Subset
    <3> QED
      BY <3>1, <3>2
  <2>6. Cardinality(L) = Cardinality(R)
    BY <1>7 DEF L, R
  <2>7. /\ Cardinality(L \cup {Len(list) + 1}) = Cardinality(L) + 1
        /\ Cardinality(R \cup {p}) = Cardinality(R) + 1
    BY <2>4, <2>5, FS_AddElement
  <2> QED
    BY <2>1, <2>2, <2>6, <2>7
<1> QED
  BY <1>9, <1>11 DEF ListInv

LEMMA ConvertKeeps ==
  ASSUME IInv, NEW p \in Ptrs, NEW append \in BOOLEAN, Convert(p, append)
  PROVE  IInv'
<1> DEFINE b == traces[p].traceback
<1>1. /\ reading.on /\ ~reading.err /\ p \in reading.left
      /\ UNCHANGED <<text, held, config, tables, limit, restarted>>
      /\ \E u : Converted(p, append, u) /\ (Shared(p, append, u) \/ Made(p, append, u))
  BY ConvertEffect
<1>2. PICK u : Converted(p, append, u) /\ (Shared(p, append, u) \/ Made(p, append, u))
  BY <1>1
<1>3. UNCHANGED <<text, held, tracing, maxNframe, room, filenames, interned, traces,
                  origin, limit, restarted>>
  BY <1>1 DEF config, tables
<1>4. /\ TuplesInv'
      /\ \A v \in DOMAIN tuples : tuples'[v].frames = tuples[v].frames
      /\ tuples'[u].frames = FramesOf(b) /\ FramesOf(b) \in Seq(Frame)
      /\ Len(FramesOf(b)) \in 1 .. maxNframe
  BY <1>1, <1>2, <1>3, ConvertTuples
<1>5. RefsInv' /\ ListInv'
  BY <1>1, <1>2, <1>3, ConvertBalances, ConvertLists
<1>6. /\ p \in DOMAIN traces /\ b \in DOMAIN interned \cup {EmptyTb}
      /\ refs \in [Strings \cup {Unknown} -> Nat] /\ tracing
  BY <1>1 DEF IInv, TracesInv, TypeInv, ReadingInv
<1>7. /\ refs' \in [Strings \cup {Unknown} -> Nat]
      /\ \A s \in Strings : refs'[s] > 0 => refs[s] > 0
  <2>1. CASE Shared(p, append, u)
    BY <1>6, <2>1 DEF Shared
  <2>2. CASE Made(p, append, u)
    <3>1. refs' = [s \in Strings \cup {Unknown} |-> refs[s] + Count(Names(FramesOf(b)), s)]
      BY <1>6, <2>2 DEF Made
    <3>2. \A s : Count(Names(FramesOf(b)), s) \in Nat
      BY <1>4, NamesIs, CountNat
    <3>3. ASSUME NEW s \in Strings, refs'[s] > 0, refs[s] = 0
          PROVE  FALSE
      <4>1. Count(Names(FramesOf(b)), s) # 0
        BY <1>6, <3>1, <3>3
      <4>2. PICK i \in DOMAIN Names(FramesOf(b)) : Names(FramesOf(b))[i] = s
        BY <4>1, CountAbsent
      <4>3. s = FramesOf(b)[i].filename /\ i \in DOMAIN FramesOf(b)
        BY <1>4, <4>2, NamesIs
      <4>4. s \in filenames \cup {Unknown}
        <5>1. CASE b = EmptyTb
          <6>1. FramesOf(b) = <<[filename |-> Unknown, lineno |-> 0]>>
            BY <5>1 DEF FramesOf
          <6> QED
            BY <4>3, <6>1
        <5>2. CASE b # EmptyTb
          BY <1>6, <4>3, <5>2 DEF FramesOf, IInv, BorrowInv
        <5> QED
          BY <5>1, <5>2
      <4> QED
        BY <3>3, <4>4, Alive, TracebacksAssumption
    <3>4. refs' \in [Strings \cup {Unknown} -> Nat]
      BY <1>6, <3>1, <3>2
    <3> QED
      BY <1>6, <3>3, <3>4
  <2> QED
    BY <1>2, <2>1, <2>2
<1>8. TypeInv'
  BY <1>3, <1>7 DEF IInv, TypeInv
<1>9. TracesInv' /\ TracingInv' /\ BorrowInv' /\ OriginDomain'
  BY <1>3 DEF IInv, TracesInv, TracingInv, BorrowInv, OriginDomain
<1>10. TextInv'
  BY <1>3, <1>7 DEF IInv, TextInv
<1>11. OriginInv'
  BY <1>3, SaysKept DEF IInv, OriginInv
<1>12. /\ reading' = [left |-> reading.left \ {p}, made |-> reading'.made,
                      err |-> ~append, on |-> TRUE]
       /\ DOMAIN reading'.made = DOMAIN reading.made \cup {b} /\ reading'.made[b] = u
       /\ \A c \in DOMAIN reading.made : c # b => reading'.made[c] = reading.made[c]
       /\ DOMAIN tuples' = DOMAIN tuples \cup {u}
  BY <1>2 DEF Converted
<1>13. FitInv'
  <2>1. reading'.on = TRUE
    BY <1>12
  <2>2. /\ limit' = 0 /\ restarted' = FALSE /\ maxNframe' = maxNframe
        /\ \A v \in DOMAIN tuples : /\ Len(tuples[v].frames) >= 1
                                    /\ Len(tuples[v].frames) <= maxNframe
    BY <1>1, <1>3 DEF IInv, FitInv
  <2>3. Len(FramesOf(b)) >= 1 /\ Len(FramesOf(b)) <= maxNframe
    BY <1>4
  <2>4. \A v \in DOMAIN tuples' : /\ Len(tuples'[v].frames) >= 1
                                  /\ Len(tuples'[v].frames) <= maxNframe
    BY <1>3, <1>4, <1>12, <2>2, <2>3
  <2> QED
    BY <2>1, <2>2, <2>4 DEF FitInv
<1>14. ReadingInv'
  <2>1. reading' \in [left : SUBSET DOMAIN traces', made : {reading'.made},
                      err : BOOLEAN, on : BOOLEAN]
    <3>1. reading.left \ {p} \subseteq DOMAIN traces'
      BY <1>3 DEF IInv, ReadingInv
    <3>2. PICK m : m = reading'.made
      OBVIOUS
    <3>3. reading' = [left |-> reading.left \ {p}, made |-> m, err |-> ~append, on |-> TRUE]
      BY <1>12, <3>2
    <3>4. reading' \in [left : SUBSET DOMAIN traces', made : {m}, err : BOOLEAN,
                        on : BOOLEAN]
      BY <3>1, <3>3
    <3> QED
      BY <3>2, <3>4
  <2>2. IsFiniteSet(DOMAIN reading'.made)
    BY <1>12, FS_AddElement DEF IInv, ReadingInv
  <2>3. DOMAIN reading'.made \subseteq DOMAIN interned' \cup {EmptyTb}
    BY <1>3, <1>6, <1>12 DEF IInv, ReadingInv
  <2>4. ASSUME NEW c \in DOMAIN reading'.made
        PROVE  reading'.made[c] \in DOMAIN tuples'
               /\ tuples'[reading'.made[c]].frames = FramesOf(c)
    BY <1>4, <1>12 DEF IInv, ReadingInv
  <2>5. \A c : FramesOf(c)' = FramesOf(c)
    BY <1>3 DEF FramesOf
  <2>6. ASSUME NEW c \in DOMAIN reading'.made, NEW d \in DOMAIN reading'.made,
               reading'.made[c] = reading'.made[d]
        PROVE  c = d
    <3>1. \A x \in DOMAIN reading.made : reading'.made[x] = reading.made[x] \/ x = b
      BY <1>12
    <3>2. \A x \in DOMAIN reading.made : x # b => reading.made[x] # u
      BY <1>2 DEF Shared, Made, IInv, ReadingInv
    <3> QED
      BY <1>12, <2>6, <3>1, <3>2 DEF IInv, ReadingInv
  <2>7. reading'.on = TRUE
    BY <1>12
  <2> QED
    BY <1>3, <1>6, <2>1, <2>2, <2>3, <2>4, <2>5, <2>6, <2>7 DEF ReadingInv
<1> QED
  BY <1>4, <1>5, <1>8, <1>9, <1>10, <1>11, <1>13, <1>14 DEF IInv

-----------------------------------------------------------------------------
(* A conversion ends, and its list is dropped.                             *)

\* References to tuples are released; those that are left are the list's.
LEMMA ReleaseKeeps ==
  ASSUME IInv, NEW fewer, Release(fewer),
         \/ list' = <<>> /\ limit' = 0 /\ restarted' = FALSE
         \/ list' = list /\ reading.on /\ UNCHANGED <<limit, restarted>>,
         reading' = NotReading,
         \A u \in DOMAIN tuples :
           fewer[u] \in Nat /\ tuples[u].refs = fewer[u] + Count(Tracks(list'), u),
         UNCHANGED <<held, config, tables>>
  PROVE  /\ IInv'
         /\ \A u \in DOMAIN tuples' : u \in DOMAIN tuples /\ tuples'[u].frames = tuples[u].frames
<1> DEFINE D == DOMAIN tuples
           dead == {u \in D : tuples[u].refs = fewer[u]}
<1>1. /\ tuples' = [u \in D \ dead |-> [tuples[u] EXCEPT !.refs = @ - fewer[u]]]
      /\ refs' = [s \in DOMAIN refs |-> refs[s] - Owned(tuples, dead, s)]
      /\ text' = [s \in Strings |-> IF refs'[s] = 0 THEN "freed" ELSE text[s]]
  BY DeallocatedIs DEF Release, Deallocate
<1>2. UNCHANGED <<held, tracing, maxNframe, room, filenames, interned, traces, origin>>
  BY DEF config, tables
<1>3. /\ IsFiniteSet(D) /\ D \subseteq Tuples /\ AreTuples(tuples, D)
      /\ \A u \in D : tuples[u] \in [frames : Seq(Frame), refs : Nat \ {0}]
      /\ list \in Seq(Entry)
  BY Alive DEF IInv, TuplesInv, Entry
<1>4. /\ text \in [Strings -> Texts \cup {"freed"}]
      /\ refs \in [Strings \cup {Unknown} -> Nat]
      /\ held \subseteq Strings /\ filenames \subseteq Strings /\ maxNframe \in Nat
  BY DEF IInv, TypeInv
<1>5. list' \in Seq(Entry)
  <2>1. <<>> \in Seq(Entry)
    OBVIOUS
  <2> QED
    BY <1>3, <2>1
<1>6. \A u : Count(Tracks(list'), u) \in Nat
  BY <1>5, TracksIs, CountNat
<1>7. /\ DOMAIN tuples' = D \ dead
      /\ \A u \in D \ dead : /\ tuples'[u].frames = tuples[u].frames
                             /\ tuples'[u].refs = Count(Tracks(list'), u)
                             /\ tuples'[u] \in [frames : Seq(Frame), refs : Nat \ {0}]
  <2>1. DOMAIN tuples' = D \ dead
    BY <1>1
  <2>2. ASSUME NEW u \in D \ dead
        PROVE  /\ tuples'[u].frames = tuples[u].frames
               /\ tuples'[u].refs = Count(Tracks(list'), u)
               /\ tuples'[u] \in [frames : Seq(Frame), refs : Nat \ {0}]
    <3>1. /\ tuples[u] \in [frames : Seq(Frame), refs : Nat \ {0}]
          /\ fewer[u] \in Nat /\ Count(Tracks(list'), u) \in Nat
          /\ tuples[u].refs = fewer[u] + Count(Tracks(list'), u)
          /\ tuples[u].refs # fewer[u]
      BY <1>3, <1>6
    <3>2. tuples'[u] = [tuples[u] EXCEPT !.refs = @ - fewer[u]]
      BY <1>1
    <3>3. PICK n : n = tuples[u].refs - fewer[u]
      OBVIOUS
    <3>4. n \in Nat \ {0} /\ n = Count(Tracks(list'), u)
      BY <3>1, <3>3
    <3>5. tuples'[u] = [tuples[u] EXCEPT !.refs = n]
      BY <3>2, <3>3
    <3>6. tuples'[u] = [frames |-> tuples[u].frames, refs |-> n]
      BY <3>1, <3>5
    <3> QED
      BY <3>1, <3>4, <3>6
  <2> QED
    BY <2>1, <2>2
<1>8. \A u \in D : u \in dead <=> Count(Tracks(list'), u) = 0
  BY <1>3, <1>6
<1>9. dead \in SUBSET D
  OBVIOUS
<1> HIDE DEF dead
<1>10. IsFiniteSet(D \ dead)
  BY <1>3, FS_Subset
<1>11. ASSUME NEW s \in Strings \cup {Unknown}
       PROVE  /\ refs'[s] = (IF s \in held' \cup {Unknown} THEN 1 ELSE 0)
                   + (IF s \in filenames' THEN 1 ELSE 0) + Owned(tuples', DOMAIN tuples', s)
              /\ refs'[s] \in Nat /\ refs'[s] <= refs[s]
              /\ s \in filenames => refs'[s] # 0
  <2>1. refs[s] = (IF s \in held \cup {Unknown} THEN 1 ELSE 0)
          + (IF s \in filenames THEN 1 ELSE 0) + Owned(tuples, D, s)
    BY DEF IInv, RefsInv
  <2>2. Owned(tuples, D, s) = Owned(tuples, dead, s) + Owned(tuples, D \ dead, s)
    BY <1>3, <1>9, OwnedSplit
  <2>3. AreTuples(tuples, dead) /\ AreTuples(tuples, D \ dead)
    BY <1>3, <1>9, FS_Subset DEF AreTuples
  <2>4. Owned(tuples', DOMAIN tuples', s) = Owned(tuples, D \ dead, s)
    <3>1. PICK r, Z : r = tuples' /\ Z = D \ dead
      OBVIOUS
    <3>2. AreTuples(tuples, Z) /\ \A v \in Z : tuples[v].frames = r[v].frames
      BY <1>7, <2>3, <3>1
    <3>3. Owned(tuples, Z, s) = Owned(r, Z, s)
      BY ONLY <3>2, OwnedSame
    <3>4. DOMAIN tuples' = D \ dead
      BY <1>7
    <3> QED
      BY ONLY <3>1, <3>3, <3>4
  <2>5. /\ Owned(tuples, dead, s) \in Nat /\ Owned(tuples, D \ dead, s) \in Nat
    BY <2>3, OwnedNat
  <2>6. refs'[s] = refs[s] - Owned(tuples, dead, s)
    BY <1>1, <1>4
  <2> QED
    BY <1>2, <2>1, <2>2, <2>4, <2>5, <2>6
<1>12. TypeInv'
  <2>1. refs' \in [Strings \cup {Unknown} -> Nat]
    BY <1>1, <1>4, <1>11
  <2>2. text' \in [Strings -> Texts \cup {"freed"}]
    BY <1>1, <1>4
  <2>3. limit' \in Nat
    BY DEF IInv, TypeInv
  <2>4. restarted' \in BOOLEAN
    BY Zenon DEF IInv, TypeInv
  <2> QED
    BY <1>2, <2>1, <2>2, <2>3, <2>4 DEF IInv, TypeInv
<1>13. \A s \in filenames : text'[s] = text[s]
  BY <1>1, <1>4, <1>11
<1>14. TracesInv' /\ TracingInv' /\ BorrowInv' /\ OriginDomain'
  BY <1>2, <1>13 DEF IInv, TracesInv, TracingInv, BorrowInv, OriginDomain
<1>15. TextInv'
  <2>1. ASSUME NEW s \in Strings, refs'[s] > 0
        PROVE  text'[s] \in Texts
    <3>1. refs[s] > 0 /\ refs'[s] # 0
      BY <1>4, <1>11, <2>1
    <3> QED
      BY <1>1, <3>1 DEF IInv, TextInv
  <2> QED
    BY <2>1 DEF TextInv
<1>16. OriginInv'
  BY <1>2, <1>13, SaysKept DEF IInv, OriginInv
<1>17. ReadingInv' /\ ListInv' /\ \A u : Cardinality(Makers(reading'.made, u)) = 0
  BY NotReadingHolds
<1>18. RefsInv'
  <2>1. \A u \in DOMAIN tuples' : tuples'[u].refs = Count(Tracks(list'), u)
                                    + Cardinality(Makers(reading'.made, u))
    BY <1>6, <1>7, <1>17
  <2> QED
    BY <1>11, <2>1 DEF RefsInv
<1>19. TuplesInv'
  <2>1. ASSUME NEW i \in DOMAIN list'
        PROVE  list'[i].traceback \in DOMAIN tuples'
    <3>1. /\ Tracks(list') \in Seq(Tuples) /\ i \in DOMAIN Tracks(list')
          /\ Tracks(list')[i] = list'[i].traceback
      BY <1>5, TracksIs
    <3>2. Count(Tracks(list'), list'[i].traceback) > 0
      BY <3>1, CountPositive
    <3>3. list' = list /\ list'[i].traceback \in D
      BY <2>1 DEF IInv, TuplesInv
    <3> QED
      BY <1>7, <1>8, <3>2, <3>3
  <2> QED
    BY <1>3, <1>5, <1>7, <1>10, <2>1 DEF TuplesInv, Entry
<1>20. FitInv'
  <2>1. reading'.on = FALSE
    BY DEF NotReading
  <2>2. CASE list' = <<>>
    <3>1. \A u : Count(Tracks(list'), u) = 0
      BY <2>2, CountEmpty DEF Tracks
    <3>2. DOMAIN tuples' = {}
      BY <1>7, <1>8, <3>1
    <3>3. limit' = 0 /\ ~restarted'
      BY <2>2 DEF IInv, FitInv
    <3> QED
      BY <3>2, <3>3 DEF FitInv
  <2>3. CASE list' # <<>>
    <3>1. /\ limit' = 0 /\ ~restarted' /\ maxNframe' = maxNframe
          /\ \A u \in D : /\ Len(tuples[u].frames) >= 1
                          /\ Len(tuples[u].frames) <= maxNframe
      BY <1>2, <2>3 DEF IInv, FitInv
    <3> QED
      BY <1>7, <2>1, <2>3, <3>1 DEF FitInv
  <2> QED
    BY <2>2, <2>3
<1> QED
  BY <1>7, <1>12, <1>14, <1>15, <1>16, <1>17, <1>18, <1>19, <1>20 DEF IInv

\* The table of a conversion has each of its tuples once.
LEMMA MakersOne ==
  ASSUME IInv, NEW u
  PROVE  Cardinality(Makers(reading.made, u))
           = IF u \in {reading.made[b] : b \in DOMAIN reading.made} THEN 1 ELSE 0
<1>1. CASE u \in {reading.made[b] : b \in DOMAIN reading.made}
  <2>1. PICK b \in DOMAIN reading.made : reading.made[b] = u
    BY <1>1
  <2>2. Makers(reading.made, u) = {b}
    BY <2>1 DEF Makers, IInv, ReadingInv
  <2> QED
    BY <1>1, <2>2, FS_Singleton
<1>2. CASE u \notin {reading.made[b] : b \in DOMAIN reading.made}
  <2>1. Makers(reading.made, u) = {}
    BY <1>2 DEF Makers
  <2> QED
    BY <1>2, <2>1, FS_EmptySet
<1> QED
  BY <1>1, <1>2

LEMMA ReturnKeeps ==
  ASSUME IInv, GetTracesReturns
  PROVE  /\ IInv'
         /\ \A u \in DOMAIN tuples' : u \in DOMAIN tuples /\ tuples'[u].frames = tuples[u].frames
<1> DEFINE fewer == [u \in DOMAIN tuples |-> Dropped(u)]
<1>1. /\ reading.on
      /\ Release(fewer)
      /\ list' = IF reading.err THEN <<>> ELSE list
      /\ reading' = NotReading
      /\ UNCHANGED <<held, config, tables, limit, restarted>>
  BY DEF GetTracesReturns
<1>2. ASSUME NEW u \in DOMAIN tuples
      PROVE  fewer[u] \in Nat /\ tuples[u].refs = fewer[u] + Count(Tracks(list'), u)
  <2>1. /\ tuples[u].refs = Count(Tracks(list), u) + Cardinality(Makers(reading.made, u))
        /\ Count(Tracks(list), u) \in Nat
    <3>1. list \in Seq(Entry)
      BY DEF IInv, TuplesInv, Entry
    <3> QED
      BY <3>1, TracksIs, CountNat DEF IInv, RefsInv
  <2>2. fewer[u] = (IF reading.err THEN Count(Tracks(list), u) ELSE 0)
                     + Cardinality(Makers(reading.made, u))
    BY MakersOne DEF Dropped, Tracks
  <2>3. Cardinality(Makers(reading.made, u)) \in Nat
    BY MakersOne
  <2>4. reading.err => Count(Tracks(list'), u) = 0
    BY <1>1, CountEmpty DEF Tracks
  <2> HIDE DEF fewer
  <2>5. CASE reading.err
    BY <2>1, <2>2, <2>3, <2>4, <2>5
  <2>6. CASE ~reading.err
    BY <1>1, <2>1, <2>2, <2>3, <2>6
  <2> QED
    BY <2>5, <2>6
<1> HIDE DEF fewer
<1>3. limit = 0 /\ restarted = FALSE
  BY <1>1, Zenon DEF IInv, TypeInv, FitInv
<1>4. \/ list' = <<>> /\ limit' = 0 /\ restarted' = FALSE
      \/ list' = list /\ reading.on /\ UNCHANGED <<limit, restarted>>
  <2>1. UNCHANGED <<limit, restarted>>
    BY <1>1
  <2> QED
    BY <1>1, <1>3, <2>1
<1>5. UNCHANGED <<held, config, tables>>
  BY <1>1
<1> QED
  BY <1>1, <1>2, <1>4, <1>5, ReleaseKeeps

LEMMA DropListKeeps ==
  ASSUME IInv, DropList
  PROVE  IInv'
<1> DEFINE fewer == [u \in DOMAIN tuples |->
                       Count([i \in DOMAIN list |-> list[i].traceback], u)]
<1>1. /\ ~reading.on
      /\ Release(fewer)
      /\ list' = <<>> /\ limit' = 0 /\ restarted' = FALSE
      /\ UNCHANGED <<held, config, tables, reading>>
  BY DEF DropList
<1>2. reading' = NotReading /\ \A u : Cardinality(Makers(reading.made, u)) = 0
  BY <1>1, IdleIs
<1>3. ASSUME NEW u \in DOMAIN tuples
      PROVE  fewer[u] \in Nat /\ tuples[u].refs = fewer[u] + Count(Tracks(list'), u)
  <2>1. /\ tuples[u].refs = Count(Tracks(list), u) + 0
        /\ Count(Tracks(list), u) \in Nat
    <3>1. list \in Seq(Entry)
      BY DEF IInv, TuplesInv, Entry
    <3> QED
      BY <1>2, <3>1, TracksIs, CountNat DEF IInv, RefsInv
  <2>2. fewer[u] = Count(Tracks(list), u)
    BY DEF Tracks
  <2>3. Count(Tracks(list'), u) = 0
    BY <1>1, CountEmpty DEF Tracks
  <2> HIDE DEF fewer
  <2> QED
    BY <2>1, <2>2, <2>3
<1> HIDE DEF fewer
<1> QED
  BY <1>1, <1>2, <1>3, ReleaseKeeps

\* The limit is asked for.
LEMMA GetTracebackLimitKeeps ==
  ASSUME IInv, GetTracebackLimit
  PROVE  IInv'
<1>1. /\ ~reading.on /\ list # <<>> /\ limit = 0 /\ limit' = maxNframe
      /\ UNCHANGED <<text, refs, held, tracing, maxNframe, room, filenames, interned,
                     traces, origin, tuples, list, reading, restarted>>
  BY DEF GetTracebackLimit, strings, config, tables
<1>2. maxNframe \in Nat \ {0}
  BY DEF IInv, TypeInv
<1>3. TypeInv' /\ TextInv'
  <2>1. limit' \in Nat
    BY <1>1, <1>2
  <2> QED
    BY <1>1, <2>1, Zenon DEF IInv, TypeInv, TextInv
<1>4. FitInv'
  BY <1>1, <1>2 DEF IInv, FitInv
<1>5. TracesInv' /\ TuplesInv' /\ TracingInv' /\ BorrowInv' /\ OriginDomain'
  BY <1>1 DEF IInv, TracesInv, TuplesInv, TracingInv, BorrowInv, OriginDomain
<1>6. OriginInv'
  BY <1>1, SaysKept DEF IInv, OriginInv
<1>7. ReadingInv' /\ RefsInv' /\ ListInv'
  <2>1. ReadingInv'
    BY <1>1 DEF IInv, ReadingInv, FramesOf
  <2>2. RefsInv'
    BY <1>1 DEF IInv, RefsInv, Tracks, Makers
  <2>3. ListInv'
    BY <1>1 DEF ListInv
  <2> QED
    BY <2>1, <2>2, <2>3
<1> QED
  BY <1>3, <1>4, <1>5, <1>6, <1>7 DEF IInv

-----------------------------------------------------------------------------
LEMMA StepKeepsIInv == IInv /\ [Next]_vars => IInv'
<1> SUFFICES ASSUME IInv, [Next]_vars
             PROVE  IInv'
  OBVIOUS
<1>1. CASE UNCHANGED vars
  <2>1. UNCHANGED <<config, tables, objects, text, refs, held>>
    BY <1>1 DEF vars, strings
  <2>2. TextInv'
    BY <2>1 DEF IInv, TextInv
  <2> QED
    BY <2>1, <2>2, OnlyStrings DEF IInv, TypeInv
<1>2. ASSUME NEW s \in Strings, NEW txt \in Texts, NewCode(s, txt)
      PROVE  IInv'
  BY <1>2, NewCodeKeeps
<1>3. ASSUME NEW s \in Strings, DropCode(s)
      PROVE  IInv'
  BY <1>3, DropCodeKeeps
<1>4. ASSUME NEW p \in Ptrs, NEW size \in Sizes, NEW stack \in Stacks,
             NEW fails \in {{}} \cup (IF MayFail THEN {Strings} ELSE {}),
             Alloc(p, size, stack, fails)
      PROVE  IInv'
  BY <1>4, AllocKeeps
<1>5. ASSUME NEW p \in Ptrs, Free(p)
      PROVE  IInv'
  BY <1>5, FreeKeeps
<1>6. ASSUME NEW n \in Limits, Start(n)
      PROVE  IInv'
  BY <1>6, StartKeeps
<1>7. CASE ClearTraces \/ Stop
  BY <1>7, ClearKeeps
<1>8. CASE GetTraces \/ ConversionFails
  BY <1>8, GetTracesKeeps, ConversionFailsKeeps
<1>9. ASSUME NEW p \in Ptrs, NEW append \in BOOLEAN, Convert(p, append)
      PROVE  IInv'
  BY <1>9, ConvertKeeps
<1>10. CASE GetTracesReturns \/ DropList
  BY <1>10, ReturnKeeps, DropListKeeps
<1>11. CASE GetTracebackLimit
  BY <1>11, GetTracebackLimitKeeps
<1> QED
  BY <1>1, <1>2, <1>3, <1>4, <1>5, <1>6, <1>7, <1>8, <1>9, <1>10, <1>11 DEF Next

THEOREM Invariance == Spec => []IInv
<1>1. Init => IInv
  BY InitHolds
<1>2. IInv /\ [Next]_vars => IInv'
  BY StepKeepsIInv
<1> QED
  BY <1>1, <1>2, PTL DEF Spec

-----------------------------------------------------------------------------
(* The properties.                                                         *)

\* Whatever allocation fails in a hook or half-way through a conversion, each
\* reference to a filename or to a tuple has one owner, and the filenames
\* that tracebacks borrow are interned and alive (_tracemalloc.c:352, :716,
\* :1202).
THEOREM NamesOwnedHolds == Spec => []NamesOwned
<1>1. IInv => NamesOwned
  <2> SUFFICES ASSUME IInv
               PROVE  NamesOwned
    OBVIOUS
  <2>1. TypeOK
    <3>1. ASSUME NEW u \in DOMAIN tuples
          PROVE  tuples[u].refs \in Nat \ {0}
      BY DEF IInv, TuplesInv
    <3> QED
      BY <3>1 DEF IInv, TypeInv, TracesInv, TuplesInv, TypeOK
  <2>2. NamesAlive
    BY Alive DEF IInv, BorrowInv, NamesAlive
  <2>3. RefsBalance
    BY BalanceHolds
  <2> QED
    BY <2>1, <2>2, <2>3 DEF NamesOwned
<1> QED
  BY <1>1, Invariance, PTL

LEMMA FitHolds == IInv => TracebacksFit
<1> SUFFICES ASSUME IInv
             PROVE  TracebacksFit
  OBVIOUS
<1>1. tracing => maxNframe <= room
  BY DEF IInv, TypeInv, TracingInv
<1>2. \A b \in DOMAIN interned : Len(interned[b]) \in 1 .. room
  BY DEF IInv, TracingInv
<1>3. ASSUME limit # 0, ~restarted, NEW i \in DOMAIN list
      PROVE  Len(tuples[list[i].traceback].frames) <= limit
  BY <1>3 DEF IInv, TuplesInv, FitInv
<1> QED
  BY <1>1, <1>2, <1>3 DEF TracebacksFit

LEMMA TrueHolds == IInv => TracesTrue
<1> SUFFICES ASSUME IInv, NEW p \in DOMAIN traces, tracing
             PROVE  LET got == GetObjectTraceback(p)
                    IN IF origin[p] = <<>>
                       THEN got = <<[file |-> UnknownText, lineno |-> 0]>>
                       ELSE /\ DOMAIN got = DOMAIN origin[p]
                            /\ \A i \in DOMAIN got :
                                 /\ got[i].lineno = origin[p][i].lineno
                                 /\ got[i].file \in {origin[p][i].file}
                                      \cup (IF MayFail THEN {UnknownText} ELSE {})
  BY DEF TracesTrue
<1> DEFINE b == traces[p].traceback
           frames == FramesOf(b)
           got == GetObjectTraceback(p)
<1>1. got = [i \in DOMAIN frames |-> [file |-> TextOf(frames[i].filename),
                                      lineno |-> frames[i].lineno]]
  BY DEF GetObjectTraceback
<1>2. SaysTrue(p)
  BY DEF IInv, OriginInv
<1>3. CASE origin[p] = <<>>
  <2>1. b = EmptyTb
    BY <1>2, <1>3 DEF SaysTrue
  <2>2. frames = <<[filename |-> Unknown, lineno |-> 0]>>
    BY <2>1 DEF FramesOf
  <2>3. /\ DOMAIN frames = {1} /\ frames[1].filename = Unknown /\ frames[1].lineno = 0
    BY <2>2
  <2> HIDE DEF frames
  <2>4. got = [i \in {1} |-> [file |-> UnknownText, lineno |-> 0]]
    BY <1>1, <2>3 DEF TextOf
  <2>5. got = <<[file |-> UnknownText, lineno |-> 0]>>
    BY <2>4
  <2> QED
    BY <1>3, <2>5
<1>4. CASE origin[p] # <<>>
  <2>1. /\ DOMAIN frames = DOMAIN origin[p]
        /\ \A i \in DOMAIN frames :
             /\ frames[i].lineno = origin[p][i].lineno
             /\ \/ TextOf(frames[i].filename) = origin[p][i].file
                \/ MayFail /\ frames[i].filename = Unknown
    BY <1>2, <1>4 DEF SaysTrue
  <2> HIDE DEF frames, got
  <2>2. DOMAIN got = DOMAIN origin[p]
    BY <1>1, <2>1
  <2>3. ASSUME NEW i \in DOMAIN got
        PROVE  /\ got[i].lineno = origin[p][i].lineno
               /\ got[i].file \in {origin[p][i].file}
                    \cup (IF MayFail THEN {UnknownText} ELSE {})
    <3>1. /\ i \in DOMAIN frames /\ got[i].lineno = frames[i].lineno
          /\ got[i].file = TextOf(frames[i].filename)
      BY <1>1, <2>1, <2>2
    <3> QED
      BY <2>1, <3>1 DEF TextOf
  <2> QED
    BY <1>4, <2>2, <2>3 DEF got
<1> QED
  BY <1>3, <1>4

LEMMA DifferHolds == UnknownText \notin Texts => (IInv => TracebacksDiffer)
<1> SUFFICES ASSUME UnknownText \notin Texts, IInv, NEW b \in DOMAIN interned,
                    NEW c \in DOMAIN interned, Len(interned[b]) = Len(interned[c]),
                    \A i \in DOMAIN interned[b] :
                      /\ interned[b][i].lineno = interned[c][i].lineno
                      /\ TextOf(interned[b][i].filename) = TextOf(interned[c][i].filename)
             PROVE  b = c
  BY DEF TracebacksDiffer
<1>1. interned[b] \in Seq(Frame) /\ interned[c] \in Seq(Frame)
  BY DEF IInv, TypeInv
<1>2. PICK f, g : f = interned[b] /\ g = interned[c]
  OBVIOUS
<1>3. ASSUME NEW s \in filenames \cup {Unknown}, NEW t \in filenames \cup {Unknown},
             TextOf(s) = TextOf(t)
      PROVE  s = t
  <2>1. \A x \in filenames : text[x] \in Texts /\ x # Unknown
    BY Alive, TracebacksAssumption DEF IInv, TypeInv, TextInv
  <2> QED
    BY <1>3, <2>1 DEF TextOf, IInv, BorrowInv
<1>4. /\ f \in Seq(Frame) /\ g \in Seq(Frame) /\ Len(f) = Len(g)
      /\ DOMAIN f = 1 .. Len(f) /\ DOMAIN g = 1 .. Len(f)
  BY <1>1, <1>2
<1>5. ASSUME NEW i \in DOMAIN f
      PROVE  f[i] = g[i]
  <2>1. f[i] \in Frame /\ g[i] \in Frame
    BY <1>4
  <2>2. /\ f[i].filename \in filenames \cup {Unknown}
        /\ g[i].filename \in filenames \cup {Unknown}
    BY <1>2, <1>4 DEF IInv, BorrowInv
  <2>3. f[i].lineno = g[i].lineno /\ TextOf(f[i].filename) = TextOf(g[i].filename)
    BY <1>2
  <2>4. f[i].filename = g[i].filename
    BY <1>3, <2>2, <2>3
  <2> QED
    BY <2>1, <2>3, <2>4 DEF Frame
<1>6. f = g
  <2>1. f = [i \in DOMAIN f |-> f[i]] /\ g = [i \in DOMAIN g |-> g[i]]
    BY <1>4
  <2> QED
    BY <1>4, <1>5, <2>1
<1> QED
  BY <1>2, <1>6 DEF IInv, BorrowInv

\* Tracebacks fit the buffer, and the limit that is reported unless start()
\* came between the two calls of take_snapshot(); traces say where their blocks
\* were allocated though files are destroyed and their addresses reused, and no
\* two tracebacks are equal, provided no file is named like unknown_filename
\* (_tracemalloc.c:287, :352-470, :919, tracemalloc.py:516-517).
THEOREM TracebacksTrueHolds ==
  ASSUME UnknownText \notin Texts
  PROVE  Spec => []TracebacksTrue
<1>1. IInv => TracebacksTrue
  BY FitHolds, TrueHolds, DifferHolds DEF TracebacksTrue
<1> QED
  BY <1>1, Invariance, PTL

\* When it returns a list, _get_traces() returns each trace once, as it is
\* (_tracemalloc.c:1141-1258).
THEOREM ListIsTracesHolds == Spec => ListIsTraces
<1> DEFINE Entries(z, f) == {i \in DOMAIN list' :
              /\ list'[i].size = z
              /\ tuples'[list'[i].traceback].frames = f}
<1>1. IInv /\ [Next]_vars =>
        [reading.on /\ ~reading'.on /\ list' # <<>> =>
          /\ Len(list') = Cardinality(DOMAIN traces)
          /\ \A p \in DOMAIN traces :
               Cardinality({i \in DOMAIN list' :
                   /\ list'[i].size = traces[p].size
                   /\ tuples'[list'[i].traceback].frames = FramesOf(traces[p].traceback)})
               = Cardinality({q \in DOMAIN traces :
                   /\ traces[q].size = traces[p].size
                   /\ FramesOf(traces[q].traceback) = FramesOf(traces[p].traceback)})]_vars
  <2> SUFFICES ASSUME IInv, [Next]_vars, reading.on, ~reading'.on, list' # <<>>
               PROVE  /\ Len(list') = Cardinality(DOMAIN traces)
                      /\ \A p \in DOMAIN traces :
                           Cardinality(Entries(traces[p].size, FramesOf(traces[p].traceback)))
                           = Cardinality({q \in DOMAIN traces :
                               /\ traces[q].size = traces[p].size
                               /\ FramesOf(traces[q].traceback)
                                    = FramesOf(traces[p].traceback)})
    OBVIOUS
  <2>1. GetTracesReturns
    <3>1. ~UNCHANGED reading
      OBVIOUS
    <3>2. ~UNCHANGED vars
      BY <3>1 DEF vars, objects
    <3>8. ~GetTracebackLimit
      BY <3>1 DEF GetTracebackLimit
    <3>3. \A s, txt : ~NewCode(s, txt) /\ ~DropCode(s)
      BY <3>1 DEF NewCode, DropCode, objects
    <3>4. \A p, size, stack, fails : ~Alloc(p, size, stack, fails) /\ ~Free(p) /\ ~Start(p)
      BY DEF Alloc, Free, Start
    <3>5. ~ClearTraces /\ ~Stop /\ ~GetTraces /\ ~DropList
      BY DEF ClearTraces, Stop, GetTraces, DropList
    <3>6. ~ConversionFails
      <4> SUFFICES ASSUME ConversionFails PROVE FALSE
        OBVIOUS
      <4>1. reading' = [reading EXCEPT !.err = TRUE]
        BY DEF ConversionFails
      <4>2. reading'.on = reading.on
        BY <4>1 DEF IInv, ReadingInv
      <4> QED
        BY <4>2
    <3>7. ASSUME NEW p \in Ptrs, NEW append \in BOOLEAN, Convert(p, append)
          PROVE  FALSE
      <4>1. \E u : Converted(p, append, u)
        BY <3>7, ConvertEffect
      <4>2. reading' = [left |-> reading.left \ {p}, made |-> reading'.made,
                        err |-> ~append, on |-> TRUE]
        BY <4>1 DEF Converted
      <4>3. reading'.on = TRUE
        BY <4>2
      <4> QED
        BY <4>3
    <3> QED
      BY <3>2, <3>3, <3>4, <3>5, <3>6, <3>7, <3>8 DEF Next
  <2>2. /\ list' = list /\ ~reading.err /\ reading.left = {}
    BY <2>1 DEF GetTracesReturns
  <2>3. /\ TuplesInv'
        /\ \A u \in DOMAIN tuples' : u \in DOMAIN tuples /\ tuples'[u].frames = tuples[u].frames
    BY <2>1, ReturnKeeps DEF IInv
  <2>4. \A i \in DOMAIN list' : tuples'[list'[i].traceback].frames
                                  = tuples[list[i].traceback].frames
    BY <2>2, <2>3 DEF TuplesInv
  <2>5. /\ Len(list) = Cardinality(DOMAIN traces \ reading.left)
        /\ \A z \in Sizes, c \in DOMAIN interned \cup {EmptyTb} :
             Cardinality(Listed(z, FramesOf(c))) = Cardinality(Read(z, FramesOf(c)))
    BY <2>2 DEF IInv, ListInv
  <2>6. DOMAIN traces \ reading.left = DOMAIN traces
    BY <2>2
  <2>7. ASSUME NEW p \in DOMAIN traces
        PROVE  Cardinality(Entries(traces[p].size, FramesOf(traces[p].traceback)))
               = Cardinality({q \in DOMAIN traces :
                   /\ traces[q].size = traces[p].size
                   /\ FramesOf(traces[q].traceback) = FramesOf(traces[p].traceback)})
    <3> DEFINE z == traces[p].size
               f == FramesOf(traces[p].traceback)
    <3>1. z \in Sizes /\ traces[p].traceback \in DOMAIN interned \cup {EmptyTb}
      BY DEF IInv, TracesInv
    <3>2. Entries(z, f) = Listed(z, f)
      BY <2>2, <2>4 DEF Listed
    <3>3. {q \in DOMAIN traces : traces[q].size = z /\ FramesOf(traces[q].traceback) = f}
            = Read(z, f)
      BY <2>6 DEF Read
    <3>4. Cardinality(Listed(z, f)) = Cardinality(Read(z, f))
      BY <2>5, <3>1
    <3> HIDE DEF Entries
    <3> QED
      BY <3>2, <3>3, <3>4
  <2> QED
    BY <2>2, <2>5, <2>6, <2>7
<1> HIDE DEF Entries
<1> QED
  BY <1>1, Invariance, PTL DEF Spec, ListIsTraces

-----------------------------------------------------------------------------
(* Snapshot: folds over a sequence.                                        *)

\* The numbers up to k, among those up to n.
LEMMA UpTo ==
  ASSUME NEW n \in Nat, NEW k \in 1 .. n
  PROVE  /\ 1 .. k \in SUBSET (1 .. n) /\ 1 .. k # {}
         /\ Max(1 .. k) = k
         /\ (1 .. k) \ {k} = 1 .. (k - 1)
<1>1. /\ 1 .. k \in SUBSET (1 .. n) /\ 1 .. k # {} /\ k \in 1 .. k
      /\ (1 .. k) \ {k} = 1 .. (k - 1)
  OBVIOUS
<1>2. Max(1 .. k) \in 1 .. k /\ k <= Max(1 .. k)
  BY <1>1, MaxIs
<1> QED
  BY <1>1, <1>2

\* What FoldLeft iterates over the subsets of the places of a sequence.
FoldsTo(F, base, n, g) ==
  \A s \in SUBSET (1 .. n) :
    g[s] = IF s = {} THEN base ELSE F[<<Max(s), g[s \ {Max(s)}]>>]

\* FoldLeft has a solution, whatever function is folded.
LEMMA FoldExists ==
  ASSUME NEW n \in Nat, NEW A, NEW base \in A, NEW F \in [(1 .. n) \X A -> A]
  PROVE  \E g \in [SUBSET (1 .. n) -> A] : FoldsTo(F, base, n, g)
<1> DEFINE D == 1 .. n
           Ok(g, s) == g[s] = IF s = {} THEN base ELSE F[<<Max(s), g[s \ {Max(s)}]>>]
           P(m) == \E g \in [SUBSET D -> A] :
                     \A s \in SUBSET D : Cardinality(s) <= m => Ok(g, s)
           T == {m \in 0 .. n : P(m)}
<1>1. IsFiniteSet(D) /\ Cardinality(D) = n
  BY FS_Interval
<1>2. \A s \in SUBSET D : IsFiniteSet(s) /\ Cardinality(s) \in 0 .. n
  <2> HIDE DEF D
  <2> QED
    BY <1>1, FS_Subset, FS_CardinalityType
<1>3. 0 \in T
  <2> DEFINE g == [s \in SUBSET D |-> base]
  <2>1. \A s \in SUBSET D : Cardinality(s) <= 0 => s = {}
    BY <1>2, FS_EmptySet
  <2>2. g \in [SUBSET D -> A] /\ \A s \in SUBSET D : g[s] = base
    BY DEF g
  <2> HIDE DEF g, D
  <2>3. \A s \in SUBSET D : Cardinality(s) <= 0 => Ok(g, s)
    BY <2>1, <2>2
  <2>4. P(0)
    <3> HIDE DEF g, Ok
    <3> QED
      BY <2>2, <2>3
  <2> QED
    BY <2>4
<1>4. ASSUME NEW m \in 1 .. n, m - 1 \in T
      PROVE  m \in T
  <2>1. PICK g \in [SUBSET D -> A] :
          \A s \in SUBSET D : Cardinality(s) <= m - 1 => Ok(g, s)
    BY <1>4
  <2> DEFINE h == [s \in SUBSET D |->
                     IF s = {} THEN base ELSE F[<<Max(s), g[s \ {Max(s)}]>>]]
  <2>2. \A s \in SUBSET D : s # {} => Max(s) \in s
    BY MaxIs
  <2>3. h \in [SUBSET D -> A]
    <3>1. ASSUME NEW s \in SUBSET D, s # {}
          PROVE  F[<<Max(s), g[s \ {Max(s)}]>>] \in A
      <4>1. Max(s) \in 1 .. n /\ s \ {Max(s)} \in SUBSET D
        BY <2>2, <3>1
      <4>2. g[s \ {Max(s)}] \in A
        BY <4>1
      <4> QED
        BY <4>1, <4>2
    <3> QED
      BY <3>1
  <2>4. ASSUME NEW s \in SUBSET D, Cardinality(s) <= m
        PROVE  Ok(h, s)
    <3>1. CASE s = {}
      <4>1. h[s] = base
        BY <3>1
      <4> HIDE DEF h
      <4> QED
        BY <3>1, <4>1
    <3>2. CASE s # {}
      <4> DEFINE r == s \ {Max(s)}
      <4>1. r \in SUBSET D /\ Cardinality(r) = Cardinality(s) - 1
        BY <1>2, <2>2, <3>2, FS_RemoveElement
      <4>2. Cardinality(r) <= m - 1
        BY <1>2, <1>4, <2>4, <4>1
      <4>3. Ok(g, r)
        BY <2>1, <4>1, <4>2
      <4>4. h[r] = g[r]
        BY <4>1, <4>3
      <4>5. h[s] = F[<<Max(s), g[r]>>]
        BY <3>2
      <4> HIDE DEF h
      <4> QED
        BY <3>2, <4>4, <4>5
    <3> QED
      BY <3>1, <3>2
  <2>5. P(m)
    <3> HIDE DEF h, Ok
    <3> QED
      BY <2>3, <2>4
  <2>6. m \in 0 .. n
    OBVIOUS
  <2> HIDE DEF P
  <2> QED
    BY <2>5, <2>6
<1>5. P(n)
  <2> HIDE DEF T
  <2>1. \A k \in 0 .. n : k \in T
    BY <1>3, <1>4, UpToAll
  <2>2. n \in T
    BY <2>1
  <2> QED
    BY <2>2 DEF T
<1> HIDE DEF D
<1>6. PICK g \in [SUBSET D -> A] : \A s \in SUBSET D : Cardinality(s) <= n => Ok(g, s)
  BY <1>5
<1>7. \A s \in SUBSET D : Ok(g, s)
  BY <1>2, <1>6
<1> QED
  BY <1>7 DEF D, FoldsTo

-----------------------------------------------------------------------------
(* Snapshots are filtered.                                                 *)

\* The filters, trace by trace.
LEMMA FilterSteps ==
  ASSUME NEW S, NEW snapshot \in Seq(S), NEW filters
  PROVE  \E w : /\ w[0] = <<>>
                /\ \A k \in 1 .. Len(snapshot) :
                     w[k] = IF Kept(filters, snapshot[k])
                            THEN Append(w[k - 1], snapshot[k]) ELSE w[k - 1]
                /\ FilterTraces(snapshot, filters) = w[Len(snapshot)]
<1> DEFINE n == Len(snapshot)
           A == Seq(S)
           Op(a, x) == IF Kept(filters, x) THEN Append(a, x) ELSE a
           Sol(g) == g = [s \in SUBSET (1 .. n) |->
                            IF s = {} THEN <<>>
                            ELSE Op(g[s \ {Max(s)}], snapshot[Max(s)])]
           J == CHOOSE g : Sol(g)
           F == [p \in (1 .. n) \X A |-> Op(p[2], snapshot[p[1]])]
<1>1. n \in Nat /\ DOMAIN snapshot = 1 .. n /\ \A i \in 1 .. n : snapshot[i] \in S
  OBVIOUS
<1> HIDE DEF n
<1>2. FilterTraces(snapshot, filters) = J[1 .. n]
  BY <1>1 DEF FilterTraces, FoldLeft, MapThenFoldSet
<1>3. <<>> \in A /\ \A a \in A, x \in S : Op(a, x) \in A
  OBVIOUS
<1> HIDE DEF A, Op
<1>4. F \in [(1 .. n) \X A -> A]
  BY <1>1, <1>3
<1>5. \A i \in 1 .. n, a \in A : F[<<i, a>>] = Op(a, snapshot[i])
  OBVIOUS
<1> HIDE DEF F
<1>6. Sol(J)
  <2>1. PICK g \in [SUBSET (1 .. n) -> A] : FoldsTo(F, <<>>, n, g)
    BY <1>1, <1>3, <1>4, FoldExists, Zenon
  <2>2. ASSUME NEW s \in SUBSET (1 .. n)
        PROVE  g[s] = IF s = {} THEN <<>>
                      ELSE Op(g[s \ {Max(s)}], snapshot[Max(s)])
    <3>1. CASE s = {}
      BY <2>1, <3>1 DEF FoldsTo
    <3>2. CASE s # {}
      <4>1. Max(s) \in 1 .. n /\ g[s \ {Max(s)}] \in A
        BY <1>1, <3>2, MaxIs
      <4> QED
        BY <1>5, <2>1, <3>2, <4>1 DEF FoldsTo
    <3> QED
      BY <3>1, <3>2
  <2>3. Sol(g)
    <3>1. g = [s \in SUBSET (1 .. n) |-> g[s]]
      OBVIOUS
    <3> QED
      BY <2>2, <3>1
  <2> HIDE DEF Sol
  <2> QED
    BY <2>3
<1> HIDE DEF J
<1> DEFINE w == [k \in 0 .. n |-> J[1 .. k]]
<1>7. w[0] = <<>>
  <2>1. w[0] = J[{}]
    <3>1. 1 .. 0 = {} /\ 0 \in 0 .. n
      BY <1>1
    <3> QED
      BY <3>1
  <2> QED
    BY <1>6, <2>1
<1>8. ASSUME NEW k \in 1 .. n
      PROVE  w[k] = Op(w[k - 1], snapshot[k])
  <2>1. /\ 1 .. k \in SUBSET (1 .. n) /\ 1 .. k # {}
        /\ Max(1 .. k) = k /\ (1 .. k) \ {k} = 1 .. (k - 1)
    BY <1>1, UpTo
  <2>2. J[1 .. k] = Op(J[(1 .. k) \ {Max(1 .. k)}], snapshot[Max(1 .. k)])
    BY <1>6, <2>1
  <2>3. w[k] = J[1 .. k] /\ w[k - 1] = J[1 .. (k - 1)]
    BY <1>1
  <2> HIDE DEF w
  <2> QED
    BY <2>1, <2>2, <2>3
<1>9. w[n] = J[1 .. n]
  BY <1>1
<1> HIDE DEF w
<1> QED
  BY <1>2, <1>7, <1>8, <1>9 DEF n, Op

\* What a filter lets through: what it matches or, if it excludes, what it
\* does not.
LEMMA MatchesIs ==
  ASSUME NEW f \in Filters, NEW tb
  PROVE  /\ f.inclusive => (MatchesTraceback(f, tb) <=> Hit(f, tb))
         /\ ~f.inclusive => (MatchesTraceback(f, tb) <=> ~Hit(f, tb))
<1>1. f.inclusive \in BOOLEAN /\ f.allFrames \in BOOLEAN
  BY DEF Filters
<1> DEFINE Some == \E i \in DOMAIN tb : MatchesFrame(f, tb[i])
           First == MatchesFrame(f, tb[1])
<1>2. MatchesTraceback(f, tb) <=> IF f.allFrames THEN Some = f.inclusive ELSE First = f.inclusive
  BY DEF MatchesTraceback
<1>3. Hit(f, tb) <=> IF f.allFrames THEN Some ELSE First
  <2>1. CASE f.allFrames
    BY <2>1 DEF Hit
  <2>2. CASE ~f.allFrames
    BY <2>2 DEF Hit
  <2> QED
    BY <2>1, <2>2
<1>4. Some \in BOOLEAN /\ First \in BOOLEAN
  BY DEF MatchesFrame
<1> HIDE DEF Some, First
<1> QED
  BY <1>1, <1>2, <1>3, <1>4, Zenon

\* The traces that are kept are those that are not ignored.
LEMMA KeptIs ==
  ASSUME NEW filters \in SUBSET Filters, NEW trace
  PROVE  Kept(filters, trace) <=> ~Ignored(filters, trace.traceback)
<1> DEFINE tb == trace.traceback
           include == {f \in filters : f.inclusive}
           exclude == filters \ include
<1>1. \A f \in filters :
        /\ f.inclusive => (MatchesTraceback(f, tb) <=> Hit(f, tb))
        /\ ~f.inclusive => (MatchesTraceback(f, tb) <=> ~Hit(f, tb))
  BY MatchesIs
<1>2. Kept(filters, trace) <=>
        /\ include # {} => \E f \in include : MatchesTraceback(f, tb)
        /\ \A f \in exclude : MatchesTraceback(f, tb)
  BY DEF Kept
<1>3. Ignored(filters, tb) <=>
        \/ \E f \in filters : ~f.inclusive /\ Hit(f, tb)
        \/ /\ \E f \in filters : f.inclusive
           /\ \A f \in filters : f.inclusive => ~Hit(f, tb)
  BY DEF Ignored
<1> HIDE DEF tb
<1>4. include # {} <=> \E f \in filters : f.inclusive
  OBVIOUS
<1>5. (\E f \in include : MatchesTraceback(f, tb))
        <=> \E f \in filters : f.inclusive /\ Hit(f, tb)
  BY <1>1
<1>6. (\A f \in exclude : MatchesTraceback(f, tb))
        <=> \A f \in filters : ~f.inclusive => ~Hit(f, tb)
  BY <1>1
<1> HIDE DEF include, exclude
<1>7. Kept(filters, trace) <=> ~Ignored(filters, tb)
  BY <1>2, <1>3, <1>4, <1>5, <1>6
<1> QED
  BY <1>7 DEF tb

\* A trace more: kept, or not.
LEMMA SelectsMore ==
  ASSUME NEW S, NEW some \in Seq(S), NEW all, NEW k \in Nat,
         NEW P \in SUBSET (1 .. (k - 1)), IsSelection(some, all, P), all[k] \in S
  PROVE  IsSelection(Append(some, all[k]), all, P \cup {k})
<1> DEFINE more == Append(some, all[k])
           n == Len(some)
<1>1. PICK at \in [DOMAIN some -> P] :
        /\ \A i \in P : \E m \in DOMAIN some : at[m] = i
        /\ \A m \in DOMAIN some :
             /\ some[m] = all[at[m]]
             /\ \A l \in DOMAIN some : l < m => at[l] < at[m]
  BY DEF IsSelection
<1>2. /\ n \in Nat /\ DOMAIN some = 1 .. n /\ DOMAIN more = 1 .. (n + 1)
      /\ \A m \in 1 .. n : more[m] = some[m]
      /\ more[n + 1] = all[k]
  OBVIOUS
<1> DEFINE new == [m \in 1 .. (n + 1) |-> IF m = n + 1 THEN k ELSE at[m]]
<1> HIDE DEF n, more
<1>3. /\ \A m \in 1 .. n : m \in 1 .. (n + 1) /\ m # n + 1 /\ at[m] \in P
      /\ n + 1 \in 1 .. (n + 1)
      /\ \A m \in 1 .. (n + 1) : m = n + 1 \/ m \in 1 .. n
  <2>1. n \in Nat /\ \A m \in 1 .. n : at[m] \in P
    BY <1>1, <1>2
  <2>2. /\ \A m \in 1 .. n : m \in 1 .. (n + 1) /\ m # n + 1
        /\ n + 1 \in 1 .. (n + 1)
        /\ \A m \in 1 .. (n + 1) : m = n + 1 \/ m \in 1 .. n
    BY ONLY <2>1
  <2> QED
    BY ONLY <2>1, <2>2
<1>4. new \in [DOMAIN more -> P \cup {k}]
  <2>1. \A m \in 1 .. (n + 1) : (IF m = n + 1 THEN k ELSE at[m]) \in P \cup {k}
    BY ONLY <1>3
  <2>2. new \in [1 .. (n + 1) -> P \cup {k}]
    BY ONLY <2>1
  <2> QED
    BY <1>2, <2>2, Zenon
<1>5. (\A m \in 1 .. n : new[m] = at[m]) /\ new[n + 1] = k
  BY <1>3
<1> HIDE DEF new
<1>6. \A i \in P \cup {k} : \E m \in DOMAIN more : new[m] = i
  BY <1>1, <1>2, <1>3, <1>5
<1>7. ASSUME NEW m \in DOMAIN more
      PROVE  /\ more[m] = all[new[m]]
             /\ \A l \in DOMAIN more : l < m => new[l] < new[m]
  <2>1. CASE m = n + 1
    <3>1. \A l \in DOMAIN more : l < m => l \in 1 .. n
      BY <1>2, <2>1
    <3>2. \A i \in P : i < k
      OBVIOUS
    <3>3. \A l \in 1 .. n : new[l] < k
      BY <1>3, <1>5, <3>2
    <3> QED
      BY <1>2, <1>5, <2>1, <3>1, <3>3
  <2>2. CASE m \in 1 .. n
    <3>1. \A l \in DOMAIN more : l < m => l \in 1 .. n
      BY <1>2, <2>2
    <3> QED
      BY <1>1, <1>2, <1>5, <2>2, <3>1
  <2> QED
    BY <1>2, <1>3, <2>1, <2>2
<1>8. IsSelection(more, all, P \cup {k})
  BY <1>4, <1>6, <1>7, Zenon DEF IsSelection
<1> QED
  BY <1>8 DEF more

\* The traces that are kept, in their order.
LEMMA Filtered ==
  ASSUME NEW S, NEW snapshot \in Seq(S), NEW filters
  PROVE  IsSelection(FilterTraces(snapshot, filters), snapshot,
                     {i \in DOMAIN snapshot : Kept(filters, snapshot[i])})
<1> DEFINE n == Len(snapshot)
           Places(k) == {i \in 1 .. k : Kept(filters, snapshot[i])}
<1>1. n \in Nat /\ DOMAIN snapshot = 1 .. n /\ \A i \in 1 .. n : snapshot[i] \in S
  OBVIOUS
<1>2. PICK w : /\ w[0] = <<>>
               /\ \A k \in 1 .. n : w[k] = IF Kept(filters, snapshot[k])
                                           THEN Append(w[k - 1], snapshot[k])
                                           ELSE w[k - 1]
               /\ FilterTraces(snapshot, filters) = w[n]
  BY FilterSteps
<1> HIDE DEF n
<1> DEFINE Q(k) == w[k] \in Seq(S) /\ IsSelection(w[k], snapshot, Places(k))
           T == {k \in 0 .. n : Q(k)}
<1>3. Q(0)
  <2>1. Places(0) = {} /\ w[0] \in Seq(S) /\ DOMAIN w[0] = {}
    BY <1>2
  <2>2. w[0] \in [DOMAIN w[0] -> {}]
    BY <1>2
  <2> HIDE DEF Places
  <2> QED
    BY <2>1, <2>2 DEF IsSelection
<1>4. ASSUME NEW k \in 1 .. n, Q(k - 1)
      PROVE  Q(k)
  <2>1. k \in Nat /\ snapshot[k] \in S /\ Places(k - 1) \in SUBSET (1 .. (k - 1))
    BY <1>1
  <2>2. CASE Kept(filters, snapshot[k])
    <3>1. Places(k) = Places(k - 1) \cup {k}
      BY <1>1, <2>2
    <3>2. w[k] = Append(w[k - 1], snapshot[k])
      BY <1>2, <2>2
    <3> HIDE DEF Places
    <3>3. IsSelection(Append(w[k - 1], snapshot[k]), snapshot, Places(k - 1) \cup {k})
      BY <1>4, <2>1, SelectsMore
    <3> QED
      BY <1>4, <2>1, <3>1, <3>2, <3>3
  <2>3. CASE ~Kept(filters, snapshot[k])
    <3>1. Places(k) = Places(k - 1)
      BY <1>1, <2>3
    <3>2. w[k] = w[k - 1]
      BY <1>2, <2>3
    <3> HIDE DEF Places
    <3> QED
      BY <1>4, <3>1, <3>2
  <2> QED
    BY <2>2, <2>3
<1> HIDE DEF Q
<1>5. \A k \in 0 .. n : k \in T
  <2>1. 0 \in T /\ \A k \in 1 .. n : k - 1 \in T => k \in T
    BY <1>1, <1>3, <1>4
  <2> HIDE DEF T
  <2> QED
    BY <1>1, <2>1, UpToAll
<1>6. Q(n) /\ Places(n) = {i \in DOMAIN snapshot : Kept(filters, snapshot[i])}
  <2>1. n \in T
    BY <1>1, <1>5
  <2> QED
    BY <1>1, <2>1
<1> HIDE DEF Places
<1> QED
  BY <1>2, <1>6 DEF Q

\* Snapshots, of frames in X; a traceback has one frame at least.
TraceOf(X) == [size : Nat, traceback : {tb \in Seq(X) : tb # <<>>}]
Traces(X) == Seq(TraceOf(X))

\* What a snapshot says of a frame.
Shown == [file : Texts \cup {"freed", UnknownText}, lineno : Nat]

\* What take_snapshot() makes of the list.
LEMMA SnapshotIs ==
  ASSUME IInv
  PROVE  Snapshotted \in Traces(Shown)
<1>1. /\ list \in Seq([size : Sizes, traceback : Tuples])
      /\ \A i \in DOMAIN list : list[i].traceback \in DOMAIN tuples
      /\ \A u \in DOMAIN tuples : tuples[u].frames \in Seq(Frame)
      /\ \A u \in DOMAIN tuples : Len(tuples[u].frames) # 0
      /\ text \in [Strings -> Texts \cup {"freed"}]
  BY DEF IInv, TypeInv, TuplesInv, FitInv
<1>2. ASSUME NEW u \in DOMAIN tuples
      PROVE  Texted(tuples[u].frames) \in Seq(Shown) /\ Texted(tuples[u].frames) # <<>>
  <2> DEFINE frames == tuples[u].frames
             n == Len(frames)
  <2>1. /\ n \in Nat /\ n # 0 /\ DOMAIN frames = 1 .. n
        /\ \A i \in 1 .. n : /\ frames[i].lineno \in Nat
                             /\ frames[i].filename \in Strings \cup {Unknown}
    <3>1. frames \in Seq(Frame) /\ n # 0
      BY <1>1
    <3> HIDE DEF frames
    <3>2. \A i \in 1 .. n : frames[i] \in Frame
      BY <3>1
    <3> QED
      BY <3>1, <3>2 DEF Frame
  <2>2. \A s \in Strings \cup {Unknown} : TextOf(s) \in Texts \cup {"freed", UnknownText}
    BY <1>1 DEF TextOf
  <2> HIDE DEF frames, n
  <2> DEFINE tb == [i \in 1 .. n |-> [file |-> TextOf(frames[i].filename),
                                      lineno |-> frames[i].lineno]]
  <2>3. \A i \in 1 .. n : tb[i] \in Shown
    BY <2>1, <2>2 DEF Shown
  <2>4. Texted(frames) = tb
    BY <2>1 DEF Texted
  <2>5. DOMAIN tb = 1 .. n
    OBVIOUS
  <2>6. tb = [i \in 1 .. n |-> tb[i]]
    OBVIOUS
  <2> HIDE DEF tb
  <2>7. tb \in [1 .. n -> Shown]
    BY <2>3, <2>6
  <2>8. tb \in Seq(Shown) /\ Len(tb) = n
    BY <2>1, <2>5, <2>7
  <2> QED
    BY <2>1, <2>4, <2>8 DEF frames
<1> DEFINE n == Len(list)
           entry(i) == [size |-> list[i].size,
                        traceback |-> Texted(tuples[list[i].traceback].frames)]
           all == [i \in 1 .. n |-> entry(i)]
<1>3. n \in Nat /\ DOMAIN list = 1 .. n /\ \A i \in 1 .. n : list[i].size \in Nat
  <2>1. list \in Seq(Entry)
    BY <1>1 DEF Entry
  <2>2. n \in Nat /\ DOMAIN list = 1 .. n /\ \A i \in 1 .. n : list[i] \in Entry
    BY <2>1
  <2>3. \A e \in Entry : e.size \in Nat
    BY TracebacksAssumption DEF Entry
  <2> QED
    BY <2>2, <2>3
<1>4. Snapshotted = all
  BY <1>3 DEF Snapshotted
<1> HIDE DEF n
<1>5. \A i \in 1 .. n : entry(i) \in TraceOf(Shown)
  BY <1>1, <1>2, <1>3 DEF TraceOf
<1> HIDE DEF entry
<1>6. all \in [1 .. n -> TraceOf(Shown)]
  BY <1>5
<1>7. all \in Traces(Shown)
  BY <1>3, <1>6 DEF Traces
<1> QED
  BY <1>4, <1>7

\* What the filters keep, from the invariant.
LEMMA FiltersHold == IInv => FiltersAsDocumented
<1> SUFFICES ASSUME IInv
             PROVE  FiltersAsDocumented
  OBVIOUS
<1> DEFINE all == Snapshotted
<1>1. all \in Seq(TraceOf(Shown))
  BY SnapshotIs DEF Traces
<1> HIDE DEF all
<1>2. ASSUME NEW filters \in FilterSets
      PROVE  IsSelection(FilterTraces(all, filters), all,
                         {i \in DOMAIN all : ~Ignored(filters, all[i].traceback)})
  <2>1. filters \in SUBSET Filters
    BY DEF FilterSets
  <2>2. {i \in DOMAIN all : Kept(filters, all[i])}
          = {i \in DOMAIN all : ~Ignored(filters, all[i].traceback)}
    BY <2>1, KeptIs
  <2> QED
    BY <1>1, <2>2, Filtered
<1> QED
  BY <1>2 DEF FiltersAsDocumented, all

\* Filtering keeps, in their order, the traces that the documentation of
\* filters says are not ignored (tracemalloc.py:357-433).
THEOREM FiltersAsDocumentedHolds == Spec => []FiltersAsDocumented
  BY Invariance, FiltersHold, PTL

-----------------------------------------------------------------------------
(* Snapshots are grouped.                                                  *)

\* Groups: statistics of finitely many keys, none of them empty.
Stat == [size : Nat, count : Nat \ {0}]
Groups(K) == UNION {[D -> Stat] : D \in {E \in SUBSET K : IsFiniteSet(E)}}

\* What there is of key k.
Of(stats, k) == IF k \in DOMAIN stats THEN stats[k] ELSE Statistic(0, 0)

\* Groups, without their set of functions.
LEMMA GroupsAre ==
  ASSUME NEW K, NEW stats
  PROVE  stats \in Groups(K) <=>
           /\ stats = [k \in DOMAIN stats |-> stats[k]]
           /\ DOMAIN stats \subseteq K /\ IsFiniteSet(DOMAIN stats)
           /\ \A k \in DOMAIN stats : stats[k] \in Stat
<1>1. ASSUME stats \in Groups(K)
      PROVE  /\ stats = [k \in DOMAIN stats |-> stats[k]]
             /\ DOMAIN stats \subseteq K /\ IsFiniteSet(DOMAIN stats)
             /\ \A k \in DOMAIN stats : stats[k] \in Stat
  <2>1. PICK D \in {E \in SUBSET K : IsFiniteSet(E)} : stats \in [D -> Stat]
    BY <1>1 DEF Groups
  <2> QED
    BY <2>1
<1>2. ASSUME stats = [k \in DOMAIN stats |-> stats[k]],
             DOMAIN stats \subseteq K, IsFiniteSet(DOMAIN stats),
             \A k \in DOMAIN stats : stats[k] \in Stat
      PROVE  stats \in Groups(K)
  <2>1. stats \in [DOMAIN stats -> Stat]
    BY <1>2
  <2>2. DOMAIN stats \in {E \in SUBSET K : IsFiniteSet(E)}
    BY <1>2
  <2> QED
    BY <2>1, <2>2 DEF Groups
<1> QED
  BY <1>1, <1>2

\* Sizes and counts are numbers, for a key that is not there too.
LEMMA OfIs ==
  ASSUME NEW K, NEW stats \in Groups(K), NEW k
  PROVE  Of(stats, k).size \in Nat /\ Of(stats, k).count \in Nat
<1>1. k \in DOMAIN stats => stats[k] \in Stat
  BY GroupsAre
<1> QED
  BY <1>1 DEF Of, Stat, Statistic

\* Total() is a sum as Sizes_proofs has it.
LEMMA TotalIs ==
  ASSUME NEW f
  PROVE  Total(f) = SizeSum(f, DOMAIN f)
  BY DEF Total, SizeSum

\* `more` is `was` with a trace more of a key.
Tallied(more, was, key, size) ==
  /\ DOMAIN more = DOMAIN was \cup {key}
  /\ \A k : k # key => Of(more, k) = Of(was, k)
  /\ Of(more, key).size = Of(was, key).size + size
  /\ Of(more, key).count = Of(was, key).count + 1
  /\ Total(more) = Total(was) + size
  /\ Total(Counts(more)) = Total(Counts(was)) + 1

\* A trace is added to the group of a key.
LEMMA TallyIs ==
  ASSUME NEW K, NEW stats \in Groups(K), NEW key \in K, NEW size \in Nat
  PROVE  /\ Tally(stats, key, size) \in Groups(K)
         /\ Tallied(Tally(stats, key, size), stats, key, size)
<1> DEFINE D == DOMAIN stats
           new == IF key \in D
                  THEN Statistic(stats[key].size + size, stats[key].count + 1)
                  ELSE Statistic(size, 1)
           more == Tally(stats, key, size)
<1>1. /\ D \subseteq K /\ IsFiniteSet(D)
      /\ \A k \in D : /\ stats[k] \in Stat /\ stats[k].size \in Nat
                      /\ stats[k].count \in Nat
  BY GroupsAre DEF Stat
<1>2. more = [k \in D \cup {key} |-> IF k = key THEN new ELSE stats[k]]
  BY DEF Tally, With
<1>3. /\ new \in Stat
      /\ new.size = IF key \in D THEN stats[key].size + size ELSE size
      /\ new.count = IF key \in D THEN stats[key].count + 1 ELSE 1
  BY <1>1 DEF Statistic, Stat
<1> HIDE DEF new, more
<1>4. /\ DOMAIN more = D \cup {key} /\ more[key] = new
      /\ \A k \in D : k # key => more[k] = stats[k]
      /\ more = [k \in DOMAIN more |-> more[k]]
  BY <1>2
<1> HIDE DEF D
<1>5. more \in Groups(K)
  <2>1. IsFiniteSet(D \cup {key}) /\ D \cup {key} \subseteq K
    BY <1>1, FS_AddElement
  <2>2. \A k \in D \cup {key} : more[k] \in Stat
    BY <1>1, <1>3, <1>4
  <2> QED
    BY <1>4, <2>1, <2>2, GroupsAre
<1>6. \A k : k # key => Of(more, k) = Of(stats, k)
  BY <1>4 DEF Of, D
<1>7. Of(more, key) = new /\ Of(stats, key) = IF key \in D THEN stats[key] ELSE Statistic(0, 0)
  BY <1>4 DEF Of, D
<1>8. /\ Of(more, key).size = Of(stats, key).size + size
      /\ Of(more, key).count = Of(stats, key).count + 1
  BY <1>1, <1>3, <1>7 DEF Statistic
<1>9. Total(more) = Total(stats) + size
  <2>1. SizeSum(more, D \cup {key}) = SizeSum(stats, D) + size
    BY <1>1, <1>3, <1>4, SumRaised
  <2> QED
    BY <1>4, <2>1, TotalIs DEF D
<1>10. Total(Counts(more)) = Total(Counts(stats)) + 1
  <2> DEFINE f == Counts(stats)
             h == Counts(more)
  <2>1. DOMAIN f = D /\ DOMAIN h = D \cup {key}
    BY <1>4 DEF Counts, D
  <2>2. \A k \in D : f[k].size = stats[k].count
    BY DEF Counts, D
  <2>3. \A k \in D \cup {key} : h[k].size = more[k].count
    BY <1>4 DEF Counts
  <2> HIDE DEF f, h
  <2>4. /\ \A k \in D : f[k].size \in Nat
        /\ \A k \in D \ {key} : h[k].size = f[k].size
        /\ h[key].size = IF key \in D THEN f[key].size + 1 ELSE 1
    BY <1>1, <1>3, <1>4, <2>2, <2>3
  <2>5. SizeSum(h, D \cup {key}) = SizeSum(f, D) + 1
    BY <1>1, <2>4, SumRaised
  <2>6. Total(h) = Total(f) + 1
    BY <2>1, <2>5, TotalIs
  <2> QED
    BY <2>6 DEF f, h
<1> QED
  BY <1>4, <1>5, <1>6, <1>8, <1>9, <1>10 DEF Tallied, more, D

\* The keys of a trace, one by one.
LEMMA TallySteps ==
  ASSUME NEW K, NEW keys \in Seq(K), NEW size \in Nat, NEW stats \in Groups(K)
  PROVE  \E w : /\ w[0] = stats
                /\ \A k \in 1 .. Len(keys) : w[k] = Tally(w[k - 1], keys[k], size)
                /\ TallyAll(stats, keys, size) = w[Len(keys)]
<1> DEFINE n == Len(keys)
           A == Groups(K)
           Op(a, x) == Tally(a, x, size)
           Sol(g) == g = [s \in SUBSET (1 .. n) |->
                            IF s = {} THEN stats
                            ELSE Op(g[s \ {Max(s)}], keys[Max(s)])]
           J == CHOOSE g : Sol(g)
           F == [p \in (1 .. n) \X A |-> Op(p[2], keys[p[1]])]
<1>1. n \in Nat /\ DOMAIN keys = 1 .. n /\ \A i \in 1 .. n : keys[i] \in K
  OBVIOUS
<1> HIDE DEF n
<1>2. TallyAll(stats, keys, size) = J[1 .. n]
  BY <1>1 DEF TallyAll, FoldLeft, MapThenFoldSet
<1>3. stats \in A /\ \A a \in A, x \in K : Op(a, x) \in A
  BY TallyIs
<1> HIDE DEF A, Op
<1>4. F \in [(1 .. n) \X A -> A]
  BY <1>1, <1>3
<1>5. \A i \in 1 .. n, a \in A : F[<<i, a>>] = Op(a, keys[i])
  OBVIOUS
<1> HIDE DEF F
<1>6. Sol(J)
  <2>1. PICK g \in [SUBSET (1 .. n) -> A] : FoldsTo(F, stats, n, g)
    BY <1>1, <1>3, <1>4, FoldExists, Zenon
  <2>2. ASSUME NEW s \in SUBSET (1 .. n)
        PROVE  g[s] = IF s = {} THEN stats
                      ELSE Op(g[s \ {Max(s)}], keys[Max(s)])
    <3>1. CASE s = {}
      BY <2>1, <3>1 DEF FoldsTo
    <3>2. CASE s # {}
      <4>1. Max(s) \in 1 .. n /\ g[s \ {Max(s)}] \in A
        BY <1>1, <3>2, MaxIs
      <4> QED
        BY <1>5, <2>1, <3>2, <4>1 DEF FoldsTo
    <3> QED
      BY <3>1, <3>2
  <2>3. Sol(g)
    <3>1. g = [s \in SUBSET (1 .. n) |-> g[s]]
      OBVIOUS
    <3> QED
      BY <2>2, <3>1
  <2> HIDE DEF Sol
  <2> QED
    BY <2>3
<1> HIDE DEF J
<1> DEFINE w == [k \in 0 .. n |-> J[1 .. k]]
<1>7. w[0] = stats
  <2>1. w[0] = J[{}]
    <3>1. 1 .. 0 = {} /\ 0 \in 0 .. n
      BY <1>1
    <3> QED
      BY <3>1
  <2> QED
    BY <1>6, <2>1
<1>8. ASSUME NEW k \in 1 .. n
      PROVE  w[k] = Op(w[k - 1], keys[k])
  <2>1. /\ 1 .. k \in SUBSET (1 .. n) /\ 1 .. k # {}
        /\ Max(1 .. k) = k /\ (1 .. k) \ {k} = 1 .. (k - 1)
    BY <1>1, UpTo
  <2>2. J[1 .. k] = Op(J[(1 .. k) \ {Max(1 .. k)}], keys[Max(1 .. k)])
    BY <1>6, <2>1
  <2>3. w[k] = J[1 .. k] /\ w[k - 1] = J[1 .. (k - 1)]
    BY <1>1
  <2> HIDE DEF w
  <2> QED
    BY <2>1, <2>2, <2>3
<1>9. w[n] = J[1 .. n]
  BY <1>1
<1> HIDE DEF w
<1> QED
  BY <1>2, <1>7, <1>8, <1>9 DEF n, Op

\* How many of the first m keys are k.
HitsTo(keys, k, m) == Cardinality({j \in 1 .. m : keys[j] = k})

\* Hits, key by key.
LEMMA HitsSteps ==
  ASSUME NEW keys, NEW k
  PROVE  /\ HitsTo(keys, k, 0) = 0
         /\ \A m \in Nat : HitsTo(keys, k, m) \in Nat
         /\ \A m \in Nat \ {0} :
              HitsTo(keys, k, m) = HitsTo(keys, k, m - 1) + (IF keys[m] = k THEN 1 ELSE 0)
<1> DEFINE S(m) == {j \in 1 .. m : keys[j] = k}
<1>1. S(0) = {}
  OBVIOUS
<1>2. \A m \in Nat : IsFiniteSet(S(m))
  <2>1. ASSUME NEW m \in Nat
        PROVE  IsFiniteSet(S(m))
    <3>1. IsFiniteSet(1 .. m) /\ S(m) \subseteq 1 .. m
      BY FS_Interval
    <3> HIDE DEF S
    <3> QED
      BY <3>1, FS_Subset
  <2> QED
    BY <2>1
<1>3. ASSUME NEW m \in Nat \ {0}
      PROVE  /\ m - 1 \in Nat /\ m \notin S(m - 1)
             /\ S(m) = IF keys[m] = k THEN S(m - 1) \cup {m} ELSE S(m - 1)
  <2>1. m - 1 \in Nat /\ 1 .. m = (1 .. (m - 1)) \cup {m} /\ m \notin 1 .. (m - 1)
    OBVIOUS
  <2> QED
    BY <2>1
<1>4. \A m \in Nat : HitsTo(keys, k, m) = Cardinality(S(m))
  BY DEF HitsTo
<1> HIDE DEF S
<1>5. \A m \in Nat : Cardinality(S(m)) \in Nat
  BY <1>2, FS_CardinalityType
<1>6. ASSUME NEW m \in Nat \ {0}
      PROVE  Cardinality(S(m)) = Cardinality(S(m - 1)) + (IF keys[m] = k THEN 1 ELSE 0)
  <2>1. CASE keys[m] = k
    <3>1. S(m) = S(m - 1) \cup {m} /\ IsFiniteSet(S(m - 1)) /\ m \notin S(m - 1)
      BY <1>2, <1>3, <2>1
    <3> QED
      BY <2>1, <3>1, FS_AddElement
  <2>2. CASE keys[m] # k
    <3>1. S(m) = S(m - 1) /\ m - 1 \in Nat
      BY <1>3, <2>2
    <3> QED
      BY <1>5, <2>2, <3>1
  <2> QED
    BY <2>1, <2>2
<1> QED
  BY <1>1, <1>3, <1>4, <1>5, <1>6, FS_EmptySet

\* `more` is `was` with a trace more, which counts for each of its keys.
TalliedAll(more, was, keys, size) ==
  /\ DOMAIN was \subseteq DOMAIN more
  /\ \A j \in DOMAIN keys : keys[j] \in DOMAIN more
  /\ \A k : Of(more, k).size = Of(was, k).size + size * HitsTo(keys, k, Len(keys))
  /\ \A k : Of(more, k).count = Of(was, k).count + HitsTo(keys, k, Len(keys))
  /\ Total(more) = Total(was) + size * Len(keys)
  /\ Total(Counts(more)) = Total(Counts(was)) + Len(keys)

\* A trace is added to the groups of all of its keys.
LEMMA TallyAllIs ==
  ASSUME NEW K, NEW stats \in Groups(K), NEW keys \in Seq(K), NEW size \in Nat
  PROVE  /\ TallyAll(stats, keys, size) \in Groups(K)
         /\ TalliedAll(TallyAll(stats, keys, size), stats, keys, size)
<1> DEFINE n == Len(keys)
<1>1. n \in Nat /\ DOMAIN keys = 1 .. n /\ \A i \in 1 .. n : keys[i] \in K
  OBVIOUS
<1>2. PICK w : /\ w[0] = stats
               /\ \A m \in 1 .. n : w[m] = Tally(w[m - 1], keys[m], size)
               /\ TallyAll(stats, keys, size) = w[n]
  BY TallySteps
<1> HIDE DEF n
<1>3. Total(stats) \in Nat /\ Total(Counts(stats)) \in Nat
  <2>1. /\ IsFiniteSet(DOMAIN stats)
        /\ \A k \in DOMAIN stats : stats[k].size \in Nat /\ stats[k].count \in Nat
    BY GroupsAre DEF Stat
  <2>2. DOMAIN Counts(stats) = DOMAIN stats
    BY DEF Counts
  <2>3. \A k \in DOMAIN stats : Counts(stats)[k].size \in Nat
    BY <2>1 DEF Counts
  <2>4. \A k \in DOMAIN stats : stats[k].size \in Nat
    BY <2>1
  <2> QED
    BY <2>1, <2>2, <2>3, <2>4, SumNat, TotalIs
<1> DEFINE Sized(m) ==
             \A k : Of(w[m], k).size = Of(stats, k).size + size * HitsTo(keys, k, m)
           Counted(m) ==
             \A k : Of(w[m], k).count = Of(stats, k).count + HitsTo(keys, k, m)
           Q(m) == /\ w[m] \in Groups(K)
                   /\ DOMAIN stats \subseteq DOMAIN w[m]
                   /\ \A j \in 1 .. m : keys[j] \in DOMAIN w[m]
                   /\ Sized(m)
                   /\ Counted(m)
                   /\ Total(w[m]) = Total(stats) + size * m
                   /\ Total(Counts(w[m])) = Total(Counts(stats)) + m
           T == {m \in 0 .. n : Q(m)}
<1>4. \A k : Of(stats, k).size \in Nat /\ Of(stats, k).count \in Nat
  BY OfIs
<1>5. Q(0)
  <2>1. size * 0 = 0
    OBVIOUS
  <2>2. \A k : HitsTo(keys, k, 0) = 0
    BY HitsSteps
  <2>3. Sized(0) /\ Counted(0)
    BY <1>2, <1>4, <2>1, <2>2
  <2>4. Total(w[0]) = Total(stats) + size * 0 /\ Total(Counts(w[0])) = Total(Counts(stats)) + 0
    BY <1>2, <1>3, <2>1
  <2> HIDE DEF Sized, Counted
  <2> QED
    BY <1>2, <2>3, <2>4
<1>6. ASSUME NEW m \in 1 .. n, Q(m - 1)
      PROVE  Q(m)
  <2> DEFINE was == w[m - 1]
             key == keys[m]
             x == Tally(was, key, size)
  <2>1. /\ w[m] = x /\ key \in K /\ m \in Nat /\ m - 1 \in Nat /\ m \in Nat \ {0}
        /\ 1 .. m = (1 .. (m - 1)) \cup {m}
    BY <1>1, <1>2
  <2>2. /\ x \in Groups(K) /\ DOMAIN x = DOMAIN was \cup {key}
        /\ \A k : k # key => Of(x, k) = Of(was, k)
        /\ Of(x, key).size = Of(was, key).size + size
        /\ Of(x, key).count = Of(was, key).count + 1
        /\ Total(x) = Total(was) + size
        /\ Total(Counts(x)) = Total(Counts(was)) + 1
    <3>1. was \in Groups(K) /\ key \in K
      BY <1>6, <2>1
    <3> HIDE DEF was, key
    <3>2. x \in Groups(K) /\ Tallied(x, was, key, size)
      BY <3>1, TallyIs
    <3> QED
      BY <3>2 DEF Tallied
  <2> HIDE DEF x
  <2>3. ASSUME NEW k
        PROVE  /\ HitsTo(keys, k, m - 1) \in Nat
               /\ HitsTo(keys, k, m)
                    = HitsTo(keys, k, m - 1) + (IF key = k THEN 1 ELSE 0)
    BY <2>1, HitsSteps
  <2>4. ASSUME NEW h \in Nat
        PROVE  size * (h + 1) = size * h + size /\ size * h \in Nat
    <3>1. size * (h + 1) = size * h + size
      OBVIOUS
    <3>2. size * h \in Nat
      OBVIOUS
    <3> QED
      BY <3>1, <3>2
  <2>5. Sized(m)
    <3>1. ASSUME NEW k
          PROVE  Of(x, k).size = Of(stats, k).size + size * HitsTo(keys, k, m)
      <4>1. Of(was, k).size = Of(stats, k).size + size * HitsTo(keys, k, m - 1)
        BY <1>6
      <4> DEFINE h == HitsTo(keys, k, m - 1)
                 o == Of(stats, k).size
      <4>2. h \in Nat /\ o \in Nat /\ size * h \in Nat /\ size * (h + 1) = size * h + size
        BY <1>4, <2>3, <2>4
      <4>3. CASE k = key
        <5>1. HitsTo(keys, k, m) = h + 1 /\ Of(x, k).size = Of(was, k).size + size
          BY <2>2, <2>3, <4>3
        <5> HIDE DEF h, o
        <5>2. Of(x, k).size = o + size * (h + 1)
          BY <4>1, <4>2, <5>1 DEF h, o
        <5> QED
          BY <5>1, <5>2 DEF h, o
      <4>4. CASE k # key
        <5>1. HitsTo(keys, k, m) = h /\ Of(x, k) = Of(was, k)
          BY <2>2, <2>3, <4>4
        <5> QED
          BY <4>1, <5>1
      <4> QED
        BY <4>3, <4>4
    <3> HIDE DEF was, key
    <3> QED
      BY <2>1, <3>1
  <2>6. Counted(m)
    <3>1. ASSUME NEW k
          PROVE  Of(x, k).count = Of(stats, k).count + HitsTo(keys, k, m)
      <4>1. Of(was, k).count = Of(stats, k).count + HitsTo(keys, k, m - 1)
        BY <1>6
      <4>2. CASE k = key
        BY <1>4, <2>2, <2>3, <4>1, <4>2
      <4>3. CASE k # key
        BY <1>4, <2>2, <2>3, <4>1, <4>3
      <4> QED
        BY <4>2, <4>3
    <3> HIDE DEF was, key
    <3> QED
      BY <2>1, <3>1
  <2>7. /\ Total(x) = Total(stats) + size * m
        /\ Total(Counts(x)) = Total(Counts(stats)) + m
    <3>1. /\ Total(was) = Total(stats) + size * (m - 1)
          /\ Total(Counts(was)) = Total(Counts(stats)) + (m - 1)
      BY <1>6
    <3>2. size * m = size * (m - 1) + size /\ size * (m - 1) \in Nat
      <4>1. (m - 1) + 1 = m
        BY <2>1
      <4> QED
        BY <2>1, <2>4, <4>1
    <3> QED
      BY <1>3, <2>1, <2>2, <3>1, <3>2
  <2>8. /\ DOMAIN stats \subseteq DOMAIN x
        /\ \A j \in 1 .. m : keys[j] \in DOMAIN x
    <3>1. DOMAIN stats \subseteq DOMAIN was /\ \A j \in 1 .. (m - 1) : keys[j] \in DOMAIN was
      BY <1>6
    <3> QED
      BY <2>1, <2>2, <3>1
  <2> HIDE DEF Sized, Counted
  <2> QED
    BY <2>1, <2>2, <2>5, <2>6, <2>7, <2>8
<1> HIDE DEF Q
<1>7. \A m \in 0 .. n : m \in T
  <2>1. 0 \in T /\ \A m \in 1 .. n : m - 1 \in T => m \in T
    BY <1>1, <1>5, <1>6
  <2> HIDE DEF T
  <2> QED
    BY <1>1, <2>1, UpToAll
<1>8. Q(n)
  <2>1. n \in T
    BY <1>1, <1>7
  <2> QED
    BY <2>1
<1> QED
  BY <1>1, <1>2, <1>8 DEF TalliedAll, Q, n

\* The keys there may be.
AllKeys(type, X) == {Key(tb, type) : tb \in Seq(X)}

\* What a trace counts for.
LEMMA KeysAre ==
  ASSUME NEW X, NEW tb \in Seq(X), tb # <<>>, NEW type, NEW cumulative \in BOOLEAN
  PROVE  /\ KeysOf(tb, type, cumulative) \in Seq(AllKeys(type, X))
         /\ ~cumulative => KeysOf(tb, type, cumulative) = <<Key(tb, type)>>
         /\ cumulative => /\ Len(KeysOf(tb, type, cumulative)) = Len(tb)
                          /\ \A i \in 1 .. Len(tb) :
                               KeysOf(tb, type, cumulative)[i] = Key(<<tb[i]>>, type)
<1>1. CASE ~cumulative
  <2>1. Key(tb, type) \in AllKeys(type, X)
    BY DEF AllKeys
  <2>2. KeysOf(tb, type, cumulative) = <<Key(tb, type)>>
    BY <1>1 DEF KeysOf
  <2> QED
    BY <1>1, <2>1, <2>2
<1>2. CASE cumulative
  <2> DEFINE n == Len(tb)
             keys == [i \in 1 .. n |-> Key(<<tb[i]>>, type)]
  <2>1. n \in Nat /\ DOMAIN tb = 1 .. n
    OBVIOUS
  <2>2. ASSUME NEW i \in 1 .. n
        PROVE  Key(<<tb[i]>>, type) \in AllKeys(type, X)
    <3>1. tb[i] \in X
      OBVIOUS
    <3>2. <<tb[i]>> \in Seq(X)
      BY <3>1
    <3> QED
      BY <3>2 DEF AllKeys
  <2> HIDE DEF n
  <2>3. KeysOf(tb, type, cumulative) = keys
    BY <1>2, <2>1 DEF KeysOf
  <2>4. keys \in [1 .. n -> AllKeys(type, X)]
    BY <2>2
  <2>5. keys \in Seq(AllKeys(type, X)) /\ Len(keys) = n
    BY <2>1, <2>4
  <2> QED
    BY <1>2, <2>3, <2>5 DEF n
<1> QED
  BY <1>1, <1>2

\* No groups, to begin with.
LEMMA EmptyGroups == ASSUME NEW K PROVE Empty \in Groups(K)
<1>1. DOMAIN Empty = {} /\ Empty = [k \in DOMAIN Empty |-> Empty[k]]
  BY DEF Empty
<1>2. IsFiniteSet(DOMAIN Empty)
  BY <1>1, FS_EmptySet
<1>3. DOMAIN Empty \subseteq K /\ \A k \in DOMAIN Empty : Empty[k] \in Stat
  BY <1>1
<1> QED
  BY <1>1, <1>2, <1>3, GroupsAre, Zenon

\* A trace more, whatever its keys.
LEMMA GroupTyped ==
  ASSUME NEW X, NEW type, NEW cumulative \in BOOLEAN,
         NEW stats \in Groups(AllKeys(type, X)), NEW trace \in TraceOf(X)
  PROVE  LET keys == KeysOf(trace.traceback, type, cumulative)
             more == TallyAll(stats, keys, trace.size)
         IN more \in Groups(AllKeys(type, X)) /\ TalliedAll(more, stats, keys, trace.size)
<1> DEFINE keys == KeysOf(trace.traceback, type, cumulative)
<1>1. trace.size \in Nat /\ trace.traceback \in Seq(X) /\ trace.traceback # <<>>
  BY DEF TraceOf
<1>2. keys \in Seq(AllKeys(type, X))
  BY <1>1, KeysAre
<1> HIDE DEF keys
<1>3. /\ TallyAll(stats, keys, trace.size) \in Groups(AllKeys(type, X))
      /\ TalliedAll(TallyAll(stats, keys, trace.size), stats, keys, trace.size)
  BY <1>1, <1>2, TallyAllIs
<1> QED
  BY <1>3 DEF keys

\* The groups, trace by trace.
LEMMA GroupSteps ==
  ASSUME NEW X, NEW snapshot \in Traces(X), NEW type, NEW cumulative \in BOOLEAN
  PROVE  \E w : /\ w[0] = Empty
                /\ \A k \in 1 .. Len(snapshot) :
                     w[k] = TallyAll(w[k - 1],
                                     KeysOf(snapshot[k].traceback, type, cumulative),
                                     snapshot[k].size)
                /\ GroupBy(snapshot, type, cumulative) = w[Len(snapshot)]
<1> DEFINE n == Len(snapshot)
           A == Groups(AllKeys(type, X))
           Op(a, x) == TallyAll(a, KeysOf(x.traceback, type, cumulative), x.size)
           Sol(g) == g = [s \in SUBSET (1 .. n) |->
                            IF s = {} THEN Empty
                            ELSE Op(g[s \ {Max(s)}], snapshot[Max(s)])]
           J == CHOOSE g : Sol(g)
           F == [p \in (1 .. n) \X A |-> Op(p[2], snapshot[p[1]])]
<1>1. n \in Nat /\ DOMAIN snapshot = 1 .. n /\ \A i \in 1 .. n : snapshot[i] \in TraceOf(X)
  BY DEF Traces
<1> HIDE DEF n
<1>2. GroupBy(snapshot, type, cumulative) = J[1 .. n]
  BY <1>1 DEF GroupBy, FoldLeft, MapThenFoldSet
<1>3. Empty \in A /\ \A a \in A, x \in TraceOf(X) : Op(a, x) \in A
  BY EmptyGroups, GroupTyped
<1> HIDE DEF A, Op
<1>4. F \in [(1 .. n) \X A -> A]
  BY <1>1, <1>3
<1>5. \A i \in 1 .. n, a \in A : F[<<i, a>>] = Op(a, snapshot[i])
  OBVIOUS
<1> HIDE DEF F
<1>6. Sol(J)
  <2>1. PICK g \in [SUBSET (1 .. n) -> A] : FoldsTo(F, Empty, n, g)
    BY <1>1, <1>3, <1>4, FoldExists, Zenon
  <2>2. ASSUME NEW s \in SUBSET (1 .. n)
        PROVE  g[s] = IF s = {} THEN Empty
                      ELSE Op(g[s \ {Max(s)}], snapshot[Max(s)])
    <3>1. CASE s = {}
      BY <2>1, <3>1 DEF FoldsTo
    <3>2. CASE s # {}
      <4>1. Max(s) \in 1 .. n /\ g[s \ {Max(s)}] \in A
        BY <1>1, <3>2, MaxIs
      <4> QED
        BY <1>5, <2>1, <3>2, <4>1 DEF FoldsTo
    <3> QED
      BY <3>1, <3>2
  <2>3. Sol(g)
    <3>1. g = [s \in SUBSET (1 .. n) |-> g[s]]
      OBVIOUS
    <3> QED
      BY <2>2, <3>1
  <2> HIDE DEF Sol
  <2> QED
    BY <2>3
<1> HIDE DEF J
<1> DEFINE w == [k \in 0 .. n |-> J[1 .. k]]
<1>7. w[0] = Empty
  <2>1. w[0] = J[{}]
    <3>1. 1 .. 0 = {} /\ 0 \in 0 .. n
      BY <1>1
    <3> QED
      BY <3>1
  <2> QED
    BY <1>6, <2>1
<1>8. ASSUME NEW k \in 1 .. n
      PROVE  w[k] = Op(w[k - 1], snapshot[k])
  <2>1. /\ 1 .. k \in SUBSET (1 .. n) /\ 1 .. k # {}
        /\ Max(1 .. k) = k /\ (1 .. k) \ {k} = 1 .. (k - 1)
    BY <1>1, UpTo
  <2>2. J[1 .. k] = Op(J[(1 .. k) \ {Max(1 .. k)}], snapshot[Max(1 .. k)])
    BY <1>6, <2>1
  <2>3. w[k] = J[1 .. k] /\ w[k - 1] = J[1 .. (k - 1)]
    BY <1>1
  <2> HIDE DEF w
  <2> QED
    BY <2>1, <2>2, <2>3
<1>9. w[n] = J[1 .. n]
  BY <1>1
<1> HIDE DEF w
<1> QED
  BY <1>2, <1>7, <1>8, <1>9 DEF n, Op

\* How often each trace counts for a key.
LEMMA HitsAre ==
  ASSUME NEW X, NEW snapshot \in Traces(X), NEW type, NEW cumulative \in BOOLEAN, NEW k
  PROVE  /\ DOMAIN Hits(snapshot, type, cumulative, k) = 1 .. Len(snapshot)
         /\ DOMAIN Charges(snapshot, type, cumulative, k) = 1 .. Len(snapshot)
         /\ \A i \in 1 .. Len(snapshot) :
              LET keys == KeysOf(snapshot[i].traceback, type, cumulative)
                  hits == HitsTo(keys, k, Len(keys))
              IN /\ hits \in Nat /\ snapshot[i].size * hits \in Nat
                 /\ Hits(snapshot, type, cumulative, k)[i].size = hits
                 /\ Charges(snapshot, type, cumulative, k)[i].size = snapshot[i].size * hits
<1> DEFINE n == Len(snapshot)
           hit == Hits(snapshot, type, cumulative, k)
           charge == Charges(snapshot, type, cumulative, k)
<1>1. n \in Nat /\ DOMAIN snapshot = 1 .. n /\ \A i \in 1 .. n : snapshot[i] \in TraceOf(X)
  BY DEF Traces
<1> HIDE DEF n
<1>2. DOMAIN hit = 1 .. n /\ DOMAIN charge = 1 .. n
  BY <1>1 DEF Hits, Charges
<1>3. ASSUME NEW i \in 1 .. n
      PROVE  LET keys == KeysOf(snapshot[i].traceback, type, cumulative)
                 hits == HitsTo(keys, k, Len(keys))
             IN /\ hits \in Nat /\ snapshot[i].size * hits \in Nat
                /\ hit[i].size = hits /\ charge[i].size = snapshot[i].size * hits
  <2> DEFINE keys == KeysOf(snapshot[i].traceback, type, cumulative)
             hits == HitsTo(keys, k, Len(keys))
  <2>1. /\ snapshot[i].traceback \in Seq(X) /\ snapshot[i].traceback # <<>>
        /\ snapshot[i].size \in Nat
    BY <1>1 DEF TraceOf
  <2>2. keys \in Seq(AllKeys(type, X))
    BY <2>1, KeysAre
  <2>3. hit[i].size = Cardinality({j \in DOMAIN keys : keys[j] = k})
    BY <1>1 DEF Hits
  <2>4. charge[i].size = snapshot[i].size * hit[i].size
    BY <1>1 DEF Charges
  <2> HIDE DEF keys, hit, charge
  <2>5. DOMAIN keys = 1 .. Len(keys) /\ Len(keys) \in Nat
    BY <2>2
  <2>6. hits \in Nat /\ hit[i].size = hits
    <3>1. hits \in Nat
      BY <2>5, HitsSteps
    <3>2. hits = Cardinality({j \in DOMAIN keys : keys[j] = k})
      BY <2>5 DEF HitsTo
    <3> QED
      BY <2>3, <3>1, <3>2
  <2> HIDE DEF hits
  <2>7. snapshot[i].size * hits \in Nat
    BY <2>1, <2>6
  <2> QED
    BY <2>4, <2>6, <2>7 DEF keys, hits
<1> QED
  BY <1>2, <1>3 DEF n

\* What _group_by() makes of the first m traces.
GroupedTo(stats, snapshot, type, cumulative, m) ==
  /\ \A i \in 1 .. m :
       LET keys == KeysOf(snapshot[i].traceback, type, cumulative)
       IN \A j \in DOMAIN keys : keys[j] \in DOMAIN stats
  /\ \A k : Of(stats, k).size = SizeSum(Charges(snapshot, type, cumulative, k), 1 .. m)
  /\ \A k : Of(stats, k).count = SizeSum(Hits(snapshot, type, cumulative, k), 1 .. m)
  /\ ~cumulative => /\ Total(stats) = SizeSum(snapshot, 1 .. m)
                    /\ Total(Counts(stats)) = m

\* Before the first trace, and with a trace more.
LEMMA GroupedNone ==
  ASSUME NEW snapshot, NEW type, NEW cumulative \in BOOLEAN
  PROVE  GroupedTo(Empty, snapshot, type, cumulative, 0)
<1>1. /\ 1 .. 0 = {} /\ DOMAIN Empty = {}
      /\ DOMAIN Counts(Empty) = {}
  BY DEF Empty, Counts
<1>2. \A f : SizeSum(f, {}) = 0
  BY SumEmpty
<1>3. Total(Empty) = 0 /\ Total(Counts(Empty)) = 0
  BY <1>1, <1>2, TotalIs
<1>4. \A k : Of(Empty, k).size = 0 /\ Of(Empty, k).count = 0
  BY <1>1 DEF Of, Statistic
<1> QED
  BY <1>1, <1>2, <1>3, <1>4 DEF GroupedTo

LEMMA GroupedMore ==
  ASSUME NEW X, NEW snapshot \in Traces(X), NEW type, NEW cumulative \in BOOLEAN,
         NEW m \in 1 .. Len(snapshot),
         NEW stats \in Groups(AllKeys(type, X)),
         GroupedTo(stats, snapshot, type, cumulative, m - 1)
  PROVE  LET keys == KeysOf(snapshot[m].traceback, type, cumulative)
             more == TallyAll(stats, keys, snapshot[m].size)
         IN /\ more \in Groups(AllKeys(type, X))
            /\ GroupedTo(more, snapshot, type, cumulative, m)
<1> DEFINE n == Len(snapshot)
           keys == KeysOf(snapshot[m].traceback, type, cumulative)
           more == TallyAll(stats, keys, snapshot[m].size)
<1>1. /\ n \in Nat /\ \A i \in 1 .. n : snapshot[i] \in TraceOf(X)
      /\ \A i \in 1 .. n : snapshot[i].size \in Nat
  <2>1. n \in Nat /\ \A i \in 1 .. n : snapshot[i] \in TraceOf(X)
    BY DEF Traces
  <2> HIDE DEF n
  <2> QED
    BY <2>1 DEF TraceOf
<1>2. /\ snapshot[m].traceback \in Seq(X) /\ snapshot[m].traceback # <<>>
      /\ snapshot[m].size \in Nat /\ snapshot[m] \in TraceOf(X)
  BY <1>1 DEF TraceOf
<1>3. more \in Groups(AllKeys(type, X)) /\ TalliedAll(more, stats, keys, snapshot[m].size)
  BY <1>2, GroupTyped
<1>4. ~cumulative => Len(keys) = 1
  BY <1>2, KeysAre
<1>5. ASSUME NEW k
      PROVE  /\ Of(more, k).size = SizeSum(Charges(snapshot, type, cumulative, k), 1 .. m)
             /\ Of(more, k).count = SizeSum(Hits(snapshot, type, cumulative, k), 1 .. m)
  <2> DEFINE hit == Hits(snapshot, type, cumulative, k)
             charge == Charges(snapshot, type, cumulative, k)
             hits == HitsTo(keys, k, Len(keys))
  <2>1. /\ \A i \in 1 .. n : hit[i].size \in Nat
        /\ \A i \in 1 .. n : charge[i].size \in Nat
        /\ hit[m].size = hits /\ charge[m].size = snapshot[m].size * hits
    <3>1. ASSUME NEW i \in 1 .. n
          PROVE  LET ks == KeysOf(snapshot[i].traceback, type, cumulative)
                     hs == HitsTo(ks, k, Len(ks))
                 IN /\ hs \in Nat /\ snapshot[i].size * hs \in Nat
                    /\ hit[i].size = hs /\ charge[i].size = snapshot[i].size * hs
      BY HitsAre
    <3>2. \A i \in 1 .. n : hit[i].size \in Nat
      BY <3>1
    <3>3. \A i \in 1 .. n : charge[i].size \in Nat
      BY <3>1
    <3>4. hit[m].size = hits /\ charge[m].size = snapshot[m].size * hits
      BY <3>1
    <3> HIDE DEF hit, charge
    <3> QED
      BY <3>2, <3>3, <3>4
  <2>2. /\ Of(more, k).size = Of(stats, k).size + snapshot[m].size * hits
        /\ Of(more, k).count = Of(stats, k).count + hits
    BY <1>3 DEF TalliedAll
  <2>3. /\ Of(stats, k).size = SizeSum(charge, 1 .. (m - 1))
        /\ Of(stats, k).count = SizeSum(hit, 1 .. (m - 1))
    BY DEF GroupedTo
  <2> HIDE DEF hit, charge, hits, n
  <2>4. SizeSum(charge, 1 .. m) = SizeSum(charge, 1 .. (m - 1)) + charge[m].size
    BY <1>1, <2>1, SumTo DEF n
  <2>5. SizeSum(hit, 1 .. m) = SizeSum(hit, 1 .. (m - 1)) + hit[m].size
    BY <1>1, <2>1, SumTo DEF n
  <2>6. /\ Of(more, k).size = SizeSum(charge, 1 .. m)
        /\ Of(more, k).count = SizeSum(hit, 1 .. m)
    BY <2>1, <2>2, <2>3, <2>4, <2>5
  <2> QED
    BY <2>6 DEF hit, charge
<1>6. ~cumulative => /\ Total(more) = SizeSum(snapshot, 1 .. m)
                     /\ Total(Counts(more)) = m
  <2>1. SUFFICES ASSUME ~cumulative
                 PROVE  /\ Total(more) = SizeSum(snapshot, 1 .. m)
                        /\ Total(Counts(more)) = m
    OBVIOUS
  <2>2. /\ Total(more) = Total(stats) + snapshot[m].size * 1
        /\ Total(Counts(more)) = Total(Counts(stats)) + 1
    BY <1>3, <1>4, <2>1 DEF TalliedAll
  <2>3. Total(stats) = SizeSum(snapshot, 1 .. (m - 1)) /\ Total(Counts(stats)) = m - 1
    BY <2>1 DEF GroupedTo
  <2>4. SizeSum(snapshot, 1 .. m) = SizeSum(snapshot, 1 .. (m - 1)) + snapshot[m].size
    BY <1>1, SumTo
  <2> HIDE DEF more
  <2> QED
    BY <1>2, <2>2, <2>3, <2>4
<1>7. ASSUME NEW i \in 1 .. m, NEW j \in DOMAIN KeysOf(snapshot[i].traceback, type, cumulative)
      PROVE  KeysOf(snapshot[i].traceback, type, cumulative)[j] \in DOMAIN more
  <2>1. CASE i = m
    BY <1>3, <1>7, <2>1 DEF TalliedAll
  <2>2. CASE i \in 1 .. (m - 1)
    BY <1>3, <1>7, <2>2 DEF GroupedTo, TalliedAll
  <2> QED
    BY <2>1, <2>2
<1> HIDE DEF more
<1>8. GroupedTo(more, snapshot, type, cumulative, m)
  BY <1>5, <1>6, <1>7 DEF GroupedTo
<1> QED
  BY <1>3, <1>8 DEF more

\* What _group_by() makes of a snapshot.
LEMMA GroupIs ==
  ASSUME NEW X, NEW snapshot \in Traces(X), NEW type, NEW cumulative \in BOOLEAN
  PROVE  /\ GroupBy(snapshot, type, cumulative) \in Groups(AllKeys(type, X))
         /\ GroupedTo(GroupBy(snapshot, type, cumulative), snapshot, type, cumulative,
                      Len(snapshot))
<1> DEFINE n == Len(snapshot)
<1>1. n \in Nat
  BY DEF Traces
<1>2. PICK w : /\ w[0] = Empty
               /\ \A m \in 1 .. n :
                    w[m] = TallyAll(w[m - 1], KeysOf(snapshot[m].traceback, type, cumulative),
                                    snapshot[m].size)
               /\ GroupBy(snapshot, type, cumulative) = w[n]
  BY GroupSteps
<1> DEFINE Q(m) == /\ w[m] \in Groups(AllKeys(type, X))
                   /\ GroupedTo(w[m], snapshot, type, cumulative, m)
           T == {m \in 0 .. n : Q(m)}
<1>3. Q(0)
  BY <1>2, EmptyGroups, GroupedNone
<1>4. ASSUME NEW m \in 1 .. n, Q(m - 1)
      PROVE  Q(m)
  BY <1>2, <1>4, GroupedMore
<1> HIDE DEF Q, n
<1>5. \A m \in 0 .. n : m \in T
  <2>1. 0 \in T /\ \A m \in 1 .. n : m - 1 \in T => m \in T
    BY <1>1, <1>3, <1>4
  <2> HIDE DEF T
  <2> QED
    BY <1>1, <2>1, UpToAll
<1>6. Q(n)
  <2>1. n \in T
    BY <1>1, <1>5
  <2> QED
    BY <2>1
<1> QED
  BY <1>2, <1>6 DEF Q, n

-----------------------------------------------------------------------------
(* Keys are sorted.                                                        *)

\* Ranks are compared like tuples.
LEMMA GreaterOrders ==
  ASSUME NEW n \in Nat, NEW a \in [1 .. n -> Int], NEW b \in [1 .. n -> Int],
         NEW c \in [1 .. n -> Int]
  PROVE  ~Greater(a, a) /\ (Greater(a, b) /\ Greater(b, c) => Greater(a, c))
<1>1. ~Greater(a, a)
  BY DEF Greater
<1>2. ASSUME Greater(a, b), Greater(b, c)
      PROVE  Greater(a, c)
  <2>1. PICK i \in 1 .. n : a[i] > b[i] /\ \A j \in 1 .. i - 1 : a[j] = b[j]
    BY <1>2 DEF Greater
  <2>2. PICK l \in 1 .. n : b[l] > c[l] /\ \A j \in 1 .. l - 1 : b[j] = c[j]
    BY <1>2 DEF Greater
  <2>3. PICK m \in 1 .. n : m = IF i <= l THEN i ELSE l
    OBVIOUS
  <2>4. a[m] > c[m]
    <3>1. a[m] \in Int /\ b[m] \in Int /\ c[m] \in Int
      OBVIOUS
    <3>2. (m < i => a[m] = b[m]) /\ (m < l => b[m] = c[m])
      BY <2>1, <2>2, <2>3
    <3>3. (m = i \/ m < i) /\ (m = l \/ m < l) /\ (m = i \/ m = l)
      BY <2>3
    <3> QED
      BY <2>1, <2>2, <3>1, <3>2, <3>3
  <2>5. \A j \in 1 .. m - 1 : a[j] = c[j]
    BY <2>1, <2>2, <2>3
  <2> QED
    BY <2>4, <2>5 DEF Greater
<1> QED
  BY <1>1, <1>2

\* Ranks(D, n): ranks of n numbers, for the members of D.
Ranks(D, n) == [D -> [1 .. n -> Int]]

\* One of finitely many has the least rank.
LEMMA LeastRank ==
  ASSUME NEW D, IsFiniteSet(D), NEW n \in Nat, NEW rank \in Ranks(D, n)
  PROVE  \A S \in SUBSET D : S # {} =>
           \E x \in S : \A y \in S : ~Greater(rank[x], rank[y])
<1> DEFINE Q(S) == \E x \in S : \A y \in S : ~Greater(rank[x], rank[y])
           C == {S \in SUBSET D : S # {} /\ ~Q(S)}
<1>1. SUFFICES ASSUME C # {} PROVE FALSE
  OBVIOUS
<1>2. PICK S \in C : \A R \in C : Cardinality(S) <= Cardinality(R)
  <2>1. C \in SUBSET (SUBSET D)
    OBVIOUS
  <2> HIDE DEF C
  <2> QED
    BY <1>1, <2>1, Smallest
<1>3. S \in SUBSET D /\ S # {} /\ ~Q(S) /\ IsFiniteSet(S)
  BY <1>2, FS_Subset
<1>4. PICK x \in S : TRUE
  BY <1>3
<1>5. PICK y \in S : Greater(rank[x], rank[y])
  BY <1>3
<1> DEFINE R == S \ {x}
<1>6. \A u \in S : rank[u] \in [1 .. n -> Int]
  BY <1>3 DEF Ranks
<1>7. y # x /\ y \in R
  <2>1. ~Greater(rank[x], rank[x])
    BY <1>6, GreaterOrders
  <2> QED
    BY <1>5, <2>1
<1>8. Q(R)
  <2>1. R \in SUBSET D /\ R # {} /\ ~(Cardinality(S) <= Cardinality(R))
    BY <1>3, <1>7, FewerWithout
  <2> HIDE DEF R, Q
  <2> QED
    BY <1>2, <2>1
<1>9. PICK z \in R : \A u \in R : ~Greater(rank[z], rank[u])
  BY <1>8
<1>10. Greater(rank[z], rank[x])
  BY <1>3, <1>9
<1>11. Greater(rank[z], rank[y])
  BY <1>5, <1>6, <1>10, GreaterOrders
<1> QED
  BY <1>7, <1>9, <1>11

\* The keys are S, in the order of their ranks.
SortedBy(keys, rank, S) ==
  /\ keys \in [1 .. Cardinality(S) -> S]
  /\ \A k \in S : \E i \in DOMAIN keys : keys[i] = k
  /\ \A i, j \in DOMAIN keys : i < j => ~Greater(rank[keys[j]], rank[keys[i]])

\* The least one goes last.
LEMMA SortedMore ==
  ASSUME NEW S, IsFiniteSet(S), NEW x \in S, NEW rank, NEW keys,
         SortedBy(keys, rank, S \ {x}),
         \A y \in S : ~Greater(rank[x], rank[y])
  PROVE  \E more : SortedBy(more, rank, S)
<1> DEFINE R == S \ {x}
           n == Cardinality(S)
           more == [i \in 1 .. n |-> IF i = n THEN x ELSE keys[i]]
<1>1. n \in Nat /\ n - 1 \in Nat /\ Cardinality(R) = n - 1
  <2>1. IsFiniteSet(R) /\ Cardinality(R) = n - 1
    BY FS_RemoveElement
  <2>2. n \in Nat /\ Cardinality(R) \in Nat
    BY <2>1, FS_CardinalityType
  <2> HIDE DEF n, R
  <2> QED
    BY <2>1, <2>2
<1>2. /\ keys \in [1 .. (n - 1) -> R]
      /\ \A k \in R : \E i \in 1 .. (n - 1) : keys[i] = k
      /\ \A i, j \in 1 .. (n - 1) : i < j => ~Greater(rank[keys[j]], rank[keys[i]])
  <2>1. /\ keys \in [1 .. Cardinality(R) -> R]
        /\ \A k \in R : \E i \in DOMAIN keys : keys[i] = k
        /\ \A i, j \in DOMAIN keys : i < j => ~Greater(rank[keys[j]], rank[keys[i]])
    BY DEF SortedBy
  <2> HIDE DEF R, n
  <2>2. DOMAIN keys = 1 .. (n - 1)
    BY <1>1, <2>1
  <2> QED
    BY <1>1, <2>1, <2>2
<1> HIDE DEF n
<1>3. /\ \A i \in 1 .. n : i = n \/ i \in 1 .. (n - 1)
      /\ \A i \in 1 .. (n - 1) : i \in 1 .. n /\ i # n
      /\ n \in 1 .. n
  BY <1>1
<1>4. /\ DOMAIN more = 1 .. n /\ more[n] = x
      /\ \A i \in 1 .. (n - 1) : more[i] = keys[i] /\ keys[i] \in R
  BY <1>2, <1>3
<1>5. more = [i \in 1 .. n |-> more[i]]
  OBVIOUS
<1> HIDE DEF more
<1>6. more \in [1 .. n -> S]
  <2>1. \A i \in 1 .. n : more[i] \in S
    BY <1>3, <1>4
  <2> QED
    BY <1>5, <2>1
<1>7. \A k \in S : \E i \in DOMAIN more : more[i] = k
  <2>1. ASSUME NEW k \in R
        PROVE  \E i \in DOMAIN more : more[i] = k
    <3>1. PICK i \in 1 .. (n - 1) : keys[i] = k
      BY <1>2
    <3> QED
      BY <1>3, <1>4, <3>1
  <2>2. n \in DOMAIN more /\ more[n] = x
    BY <1>3, <1>4
  <2> QED
    BY <2>1, <2>2
<1>8. ASSUME NEW i \in DOMAIN more, NEW j \in DOMAIN more, i < j
      PROVE  ~Greater(rank[more[j]], rank[more[i]])
  <2>1. i \in 1 .. (n - 1)
    BY <1>1, <1>4, <1>8
  <2>2. CASE j = n
    BY <1>4, <2>1, <2>2
  <2>3. CASE j \in 1 .. (n - 1)
    BY <1>2, <1>4, <1>8, <2>1, <2>3
  <2> QED
    BY <1>3, <1>4, <2>2, <2>3
<1> QED
  BY <1>6, <1>7, <1>8 DEF SortedBy, n

\* The keys can be sorted, whatever their ranks.
LEMMA SortedExists ==
  ASSUME NEW D, IsFiniteSet(D), NEW n \in Nat, NEW rank \in Ranks(D, n)
  PROVE  \E keys : SortedBy(keys, rank, D)
<1> DEFINE Q(S) == \E keys : SortedBy(keys, rank, S)
           C == {S \in SUBSET D : ~Q(S)}
<1>1. SUFFICES ASSUME C # {} PROVE FALSE
  BY Zenon
<1>2. PICK S \in C : \A R \in C : Cardinality(S) <= Cardinality(R)
  <2>1. C \in SUBSET (SUBSET D)
    OBVIOUS
  <2> HIDE DEF C
  <2> QED
    BY <1>1, <2>1, Smallest
<1>3. S \in SUBSET D /\ ~Q(S) /\ IsFiniteSet(S)
  BY <1>2, FS_Subset
<1>4. S # {}
  <2>1. SUFFICES ASSUME S = {} PROVE FALSE
    OBVIOUS
  <2> DEFINE none == [i \in {} |-> 0]
  <2>2. Cardinality(S) = 0 /\ 1 .. 0 = {}
    BY <2>1, FS_EmptySet
  <2>3. DOMAIN none = {} /\ none \in [{} -> {}]
    OBVIOUS
  <2> HIDE DEF none
  <2>4. SortedBy(none, rank, S)
    BY <2>1, <2>2, <2>3 DEF SortedBy
  <2> QED
    BY <1>3, <2>4
<1>5. PICK x \in S : \A y \in S : ~Greater(rank[x], rank[y])
  BY <1>3, <1>4, LeastRank
<1>6. Q(S \ {x})
  <2>1. S \ {x} \in SUBSET D /\ ~(Cardinality(S) <= Cardinality(S \ {x}))
    BY <1>3, FewerWithout
  <2> HIDE DEF Q
  <2> QED
    BY <1>2, <2>1
<1>7. Q(S)
  BY <1>3, <1>5, <1>6, SortedMore
<1> QED
  BY <1>3, <1>7

\* The list that sort() makes, when ranks begin with sizes.
LEMMA ListingHolds ==
  ASSUME NEW D, IsFiniteSet(D), NEW n \in Nat \ {0}, NEW rank \in Ranks(D, n),
         NEW size, DOMAIN size = D, \A k \in D : rank[k][1] = size[k]
  PROVE  Listing(Descending(rank), size)
<1> DEFINE keys == Descending(rank)
           c == Cardinality(D)
<1>1. DOMAIN rank = D /\ c \in Nat
  BY FS_CardinalityType DEF Ranks
<1>2. SortedBy(keys, rank, D)
  <2>1. PICK q : SortedBy(q, rank, D)
    BY SortedExists
  <2>2. /\ q \in [1 .. Cardinality(DOMAIN rank) -> DOMAIN rank]
        /\ \A k \in DOMAIN rank : \E i \in DOMAIN q : q[i] = k
        /\ \A i, j \in DOMAIN q : i < j => ~Greater(rank[q[j]], rank[q[i]])
    BY <1>1, <2>1 DEF SortedBy
  <2>3. /\ keys \in [1 .. Cardinality(DOMAIN rank) -> DOMAIN rank]
        /\ \A k \in DOMAIN rank : \E i \in DOMAIN keys : keys[i] = k
        /\ \A i, j \in DOMAIN keys : i < j => ~Greater(rank[keys[j]], rank[keys[i]])
    BY <2>2 DEF Descending
  <2> HIDE DEF keys
  <2> QED
    BY <1>1, <2>3 DEF SortedBy
<1> HIDE DEF keys
<1>3. /\ keys \in [1 .. c -> D] /\ DOMAIN keys = 1 .. c /\ Len(keys) = c
      /\ \A k \in D : \E i \in 1 .. c : keys[i] = k
      /\ \A i, j \in 1 .. c : i < j => ~Greater(rank[keys[j]], rank[keys[i]])
  <2>1. keys \in [1 .. c -> D] /\ DOMAIN keys = 1 .. c
    BY <1>2 DEF SortedBy
  <2>2. Len(keys) = c
    BY <1>1, <2>1
  <2> QED
    BY <1>2, <2>1, <2>2 DEF SortedBy
<1> HIDE DEF c
<1>4. {keys[i] : i \in DOMAIN keys} = DOMAIN size
  BY <1>3
<1>5. ASSUME NEW i \in 2 .. c
      PROVE  size[keys[i]] <= size[keys[i - 1]]
  <2> DEFINE a == rank[keys[i]]
             b == rank[keys[i - 1]]
  <2>1. i \in 1 .. c /\ i - 1 \in 1 .. c /\ i - 1 < i
    BY <1>1
  <2>2. keys[i] \in D /\ keys[i - 1] \in D /\ ~Greater(a, b)
    BY <1>3, <2>1
  <2>3. a \in [1 .. n -> Int] /\ b \in [1 .. n -> Int]
    BY <2>2 DEF Ranks
  <2>4. a[1] = size[keys[i]] /\ b[1] = size[keys[i - 1]]
    BY <2>2
  <2> HIDE DEF a, b
  <2>5. 1 \in 1 .. n /\ a[1] \in Int /\ b[1] \in Int /\ DOMAIN a = 1 .. n
    BY <2>3
  <2>6. ~(a[1] > b[1])
    <3>1. \A j \in 1 .. 1 - 1 : a[j] = b[j]
      OBVIOUS
    <3> QED
      BY <2>2, <2>5, <3>1 DEF Greater
  <2> QED
    BY <2>4, <2>5, <2>6
<1>6. Listing(keys, size)
  <2>1. Cardinality(DOMAIN size) = c
    BY DEF c
  <2> QED
    BY <1>3, <1>4, <1>5, <2>1 DEF Listing
<1> QED
  BY <1>6 DEF keys

-----------------------------------------------------------------------------
(* Statistics.                                                             *)

\* The totals of a key, by the traces that count for it.
LEMMA KeyTotals ==
  ASSUME NEW X, NEW snapshot \in Traces(X), NEW type, NEW cumulative \in BOOLEAN, NEW k
  PROVE  /\ Of(GroupBy(snapshot, type, cumulative), k).count
              = Total(Hits(snapshot, type, cumulative, k))
         /\ Of(GroupBy(snapshot, type, cumulative), k).size
              = Total(Charges(snapshot, type, cumulative, k))
<1> DEFINE hit == Hits(snapshot, type, cumulative, k)
           charge == Charges(snapshot, type, cumulative, k)
           stats == GroupBy(snapshot, type, cumulative)
           n == Len(snapshot)
<1>1. DOMAIN hit = 1 .. n /\ DOMAIN charge = 1 .. n
  BY HitsAre
<1>2. Of(stats, k).size = SizeSum(charge, 1 .. n) /\ Of(stats, k).count = SizeSum(hit, 1 .. n)
  BY GroupIs DEF GroupedTo
<1> HIDE DEF hit, charge, stats, n
<1>3. Of(stats, k).size = Total(charge) /\ Of(stats, k).count = Total(hit)
  BY <1>1, <1>2, TotalIs
<1> QED
  BY <1>3 DEF hit, charge, stats

\* Each group is the traces of its key, and they are listed by size.
LEMMA ExactHolds ==
  ASSUME NEW X, NEW snapshot \in Traces(X), NEW type, NEW cumulative \in BOOLEAN
  PROVE  GroupsExact(snapshot, type, cumulative)
<1> DEFINE stats == GroupBy(snapshot, type, cumulative)
           D == DOMAIN stats
           rank == [k \in D |-> <<stats[k].size, stats[k].count>>]
           size == [k \in D |-> stats[k].size]
<1>1. stats \in Groups(AllKeys(type, X))
  BY GroupIs
<1>2. ASSUME NEW k \in D
      PROVE  /\ stats[k].count = Total(Hits(snapshot, type, cumulative, k))
             /\ stats[k].size = Total(Charges(snapshot, type, cumulative, k))
  <2>1. Of(stats, k) = stats[k]
    BY DEF Of
  <2> QED
    BY <2>1, KeyTotals
<1>3. Statistics(snapshot, type, cumulative) = Descending(rank)
  BY DEF Statistics
<1> HIDE DEF stats
<1>4. IsFiniteSet(D) /\ \A k \in D : stats[k].size \in Int /\ stats[k].count \in Int
  BY <1>1, GroupsAre DEF Stat
<1>5. rank \in Ranks(D, 2) /\ \A k \in D : rank[k][1] = size[k]
  <2>1. ASSUME NEW a \in Int, NEW b \in Int
        PROVE  <<a, b>> \in [1 .. 2 -> Int] /\ <<a, b>>[1] = a
    OBVIOUS
  <2>2. \A k \in D : <<stats[k].size, stats[k].count>> \in [1 .. 2 -> Int]
    BY <1>4, <2>1
  <2>3. rank \in [D -> [1 .. 2 -> Int]]
    BY <2>2
  <2>4. \A k \in D : rank[k][1] = size[k]
    BY <1>4, <2>1
  <2> QED
    BY <2>3, <2>4 DEF Ranks
<1>6. DOMAIN size = D
  OBVIOUS
<1> HIDE DEF rank, size, D
<1>7. Listing(Descending(rank), size)
  <2>1. 2 \in Nat \ {0}
    OBVIOUS
  <2> QED
    BY <1>4, <1>5, <1>6, <2>1, ListingHolds
<1> QED
  BY <1>2, <1>3, <1>7 DEF GroupsExact, stats, D, size

\* In cumulative mode a trace counts for the key of its most recent frame too.
LEMMA HitsMore ==
  ASSUME NEW X, NEW snapshot \in Traces(X), NEW type \in {"lineno", "filename"}, NEW k,
         NEW i \in 1 .. Len(snapshot)
  PROVE  /\ Hits(snapshot, type, FALSE, k)[i].size <= Hits(snapshot, type, TRUE, k)[i].size
         /\ Charges(snapshot, type, FALSE, k)[i].size <= Charges(snapshot, type, TRUE, k)[i].size
<1> DEFINE tb == snapshot[i].traceback
           z == snapshot[i].size
           one == KeysOf(tb, type, FALSE)
           all == KeysOf(tb, type, TRUE)
           few == HitsTo(one, k, Len(one))
           many == HitsTo(all, k, Len(all))
<1>1. tb \in Seq(X) /\ tb # <<>> /\ z \in Nat
  <2>1. snapshot[i] \in TraceOf(X)
    BY DEF Traces
  <2> QED
    BY <2>1 DEF TraceOf
<1>2. /\ few \in Nat /\ many \in Nat
      /\ Hits(snapshot, type, FALSE, k)[i].size = few
      /\ Hits(snapshot, type, TRUE, k)[i].size = many
      /\ Charges(snapshot, type, FALSE, k)[i].size = z * few
      /\ Charges(snapshot, type, TRUE, k)[i].size = z * many
  BY HitsAre
<1> HIDE DEF tb, z
<1>3. /\ one = <<Key(tb, type)>> /\ Len(one) = 1 /\ one[1] = Key(tb, type)
      /\ Len(all) \in Nat \ {0} /\ all[1] = Key(<<tb[1]>>, type)
  <2>1. one = <<Key(tb, type)>>
    BY <1>1, KeysAre
  <2>2. Len(tb) \in Nat \ {0} /\ 1 \in 1 .. Len(tb)
    BY <1>1
  <2>3. Len(all) = Len(tb) /\ \A j \in 1 .. Len(tb) : all[j] = Key(<<tb[j]>>, type)
    BY <1>1, KeysAre
  <2> HIDE DEF one, all
  <2> QED
    BY <2>1, <2>2, <2>3
<1>4. Key(<<tb[1]>>, type) = Key(tb, type)
  BY DEF Key
<1> HIDE DEF one, all
<1>5. few = IF Key(tb, type) = k THEN 1 ELSE 0
  <2>1. HitsTo(one, k, 1) = HitsTo(one, k, 1 - 1) + (IF one[1] = k THEN 1 ELSE 0)
    BY HitsSteps
  <2>2. HitsTo(one, k, 0) = 0
    BY HitsSteps
  <2> QED
    BY <1>3, <2>1, <2>2
<1>6. Key(tb, type) = k => many # 0
  <2>1. SUFFICES ASSUME all[1] = k PROVE many # 0
    BY <1>3, <1>4
  <2> DEFINE S == {j \in 1 .. Len(all) : all[j] = k}
  <2>2. 1 \in S
    BY <1>3, <2>1
  <2>3. IsFiniteSet(S)
    <3>1. IsFiniteSet(1 .. Len(all)) /\ S \subseteq 1 .. Len(all)
      BY <1>3, FS_Interval
    <3> HIDE DEF S
    <3> QED
      BY <3>1, FS_Subset
  <2>4. many = Cardinality(S)
    BY DEF HitsTo
  <2> HIDE DEF S
  <2> QED
    BY <2>2, <2>3, <2>4, FS_EmptySet
<1> HIDE DEF few, many
<1>7. few <= many
  BY <1>2, <1>5, <1>6
<1>8. z * few <= z * many
  <2>1. z * 0 = 0 /\ z * 1 = z /\ few \in {0, 1}
    BY <1>1, <1>5
  <2>2. CASE few = 0
    <3>1. z * many \in Nat
      BY <1>1, <1>2
    <3> QED
      BY <2>1, <2>2, <3>1
  <2>3. CASE few = 1
    <3>1. PICK m \in Nat : many = m + 1
      <4>1. many - 1 \in Nat /\ many = (many - 1) + 1
        BY <1>2, <1>7, <2>3
      <4> QED
        BY <4>1
    <3>2. z * (m + 1) = z * m + z
      BY <1>1
    <3>3. z * m \in Nat
      BY <1>1
    <3> QED
      BY <1>1, <2>1, <2>3, <3>1, <3>2, <3>3
  <2> QED
    BY <2>1, <2>2, <2>3
<1> QED
  BY <1>2, <1>7, <1>8

\* The groups are all the traces.
LEMMA WholeHolds ==
  ASSUME NEW X, NEW snapshot \in Traces(X), NEW type \in {"traceback", "lineno", "filename"}
  PROVE  GroupsWhole(snapshot, type)
<1> DEFINE stats == GroupBy(snapshot, type, FALSE)
           n == Len(snapshot)
<1>1. /\ n \in Nat /\ DOMAIN snapshot = 1 .. n
      /\ \A i \in 1 .. n : snapshot[i].traceback \in Seq(X) /\ snapshot[i].traceback # <<>>
  <2>1. n \in Nat /\ DOMAIN snapshot = 1 .. n /\ \A i \in 1 .. n : snapshot[i] \in TraceOf(X)
    BY DEF Traces
  <2> HIDE DEF n
  <2> QED
    BY <2>1 DEF TraceOf
<1>2. /\ stats \in Groups(AllKeys(type, X))
      /\ GroupedTo(stats, snapshot, type, FALSE, n)
  BY GroupIs
<1>3. Total(stats) = Total(snapshot) /\ Total(Counts(stats)) = n
  BY <1>1, <1>2, TotalIs DEF GroupedTo
<1>4. ASSUME NEW i \in DOMAIN snapshot
      PROVE  Key(snapshot[i].traceback, type) \in DOMAIN stats
  <2> DEFINE keys == KeysOf(snapshot[i].traceback, type, FALSE)
  <2>1. keys = <<Key(snapshot[i].traceback, type)>>
    <3>1. snapshot[i].traceback \in Seq(X) /\ snapshot[i].traceback # <<>>
      BY <1>1
    <3> QED
      BY <3>1, KeysAre
  <2>2. \A j \in DOMAIN keys : keys[j] \in DOMAIN stats
    BY <1>1, <1>2 DEF GroupedTo
  <2> HIDE DEF keys
  <2>3. 1 \in DOMAIN keys /\ keys[1] = Key(snapshot[i].traceback, type)
    BY <2>1
  <2> QED
    BY <2>2, <2>3
<1> DEFINE cumulated == GroupBy(snapshot, type, TRUE)
<1>5. ASSUME type # "traceback", NEW k \in DOMAIN stats
      PROVE  k \in DOMAIN cumulated /\ cumulated[k].size >= stats[k].size
  <2> DEFINE few == Hits(snapshot, type, FALSE, k)
             many == Hits(snapshot, type, TRUE, k)
             less == Charges(snapshot, type, FALSE, k)
             more == Charges(snapshot, type, TRUE, k)
  <2>1. type \in {"lineno", "filename"}
    BY <1>5
  <2>2. /\ \A i \in 1 .. n : few[i].size <= many[i].size
        /\ \A i \in 1 .. n : less[i].size <= more[i].size
    BY <2>1, HitsMore
  <2>3. /\ DOMAIN few = 1 .. n /\ DOMAIN many = 1 .. n
        /\ DOMAIN less = 1 .. n /\ DOMAIN more = 1 .. n
    BY HitsAre
  <2>4. /\ \A i \in 1 .. n : few[i].size \in Nat
        /\ \A i \in 1 .. n : many[i].size \in Nat
        /\ \A i \in 1 .. n : less[i].size \in Nat
        /\ \A i \in 1 .. n : more[i].size \in Nat
    <3>1. ASSUME NEW i \in 1 .. n, NEW c \in BOOLEAN
          PROVE  /\ Hits(snapshot, type, c, k)[i].size \in Nat
                 /\ Charges(snapshot, type, c, k)[i].size \in Nat
      <4>1. LET ks == KeysOf(snapshot[i].traceback, type, c)
                hs == HitsTo(ks, k, Len(ks))
            IN /\ hs \in Nat /\ snapshot[i].size * hs \in Nat
               /\ Hits(snapshot, type, c, k)[i].size = hs
               /\ Charges(snapshot, type, c, k)[i].size = snapshot[i].size * hs
        BY HitsAre
      <4> QED
        BY <4>1
    <3> QED
      BY <3>1
  <2>5. /\ Of(stats, k).count = Total(few) /\ Of(stats, k).size = Total(less)
        /\ Of(cumulated, k).count = Total(many) /\ Of(cumulated, k).size = Total(more)
    BY KeyTotals
  <2>6. /\ Of(stats, k) = stats[k] /\ stats[k].count # 0
        /\ stats[k].size \in Nat /\ stats[k].count \in Nat
    BY <1>2, <1>5, GroupsAre DEF Of, Stat
  <2> HIDE DEF few, many, less, more, n, stats, cumulated
  <2>7. IsFiniteSet(1 .. n)
    BY <1>1, FS_Interval
  <2>8. Total(few) <= Total(many)
    <3> DEFINE h == [i \in 1 .. n |-> [size |-> many[i].size - few[i].size]]
    <3>1. \A i \in 1 .. n : h[i].size = many[i].size - few[i].size
      OBVIOUS
    <3> HIDE DEF h
    <3>2. SizeSum(few, 1 .. n) <= SizeSum(many, 1 .. n)
      BY <2>2, <2>4, <2>7, <3>1, SumCompared
    <3> QED
      BY <2>3, <3>2, TotalIs
  <2>9. Total(less) <= Total(more)
    <3> DEFINE h == [i \in 1 .. n |-> [size |-> more[i].size - less[i].size]]
    <3>1. \A i \in 1 .. n : h[i].size = more[i].size - less[i].size
      OBVIOUS
    <3> HIDE DEF h
    <3>2. SizeSum(less, 1 .. n) <= SizeSum(more, 1 .. n)
      BY <2>2, <2>4, <2>7, <3>1, SumCompared
    <3> QED
      BY <2>3, <3>2, TotalIs
  <2>10. k \in DOMAIN cumulated
    <3>1. SUFFICES ASSUME k \notin DOMAIN cumulated PROVE FALSE
      OBVIOUS
    <3>2. Of(cumulated, k).count = 0
      BY <3>1 DEF Of, Statistic
    <3> QED
      BY <2>5, <2>6, <2>8, <3>2
  <2>11. Of(cumulated, k) = cumulated[k] /\ cumulated[k].size \in Nat
    <3>1. cumulated \in Groups(AllKeys(type, X))
      BY GroupIs DEF cumulated
    <3> QED
      BY <2>10, <3>1, GroupsAre DEF Of, Stat
  <2> QED
    BY <2>5, <2>6, <2>9, <2>10, <2>11
<1> HIDE DEF stats, cumulated
<1> QED
  BY <1>3, <1>4, <1>5 DEF GroupsWhole, stats, cumulated, n

-----------------------------------------------------------------------------
(* Differences.                                                            *)

\* Comparing two snapshots loses no block of either.
LEMMA DiffsHold ==
  ASSUME NEW X, NEW saved \in Traces(X), NEW snapshot \in Traces(X), NEW type
  PROVE  DiffsWhole(saved, snapshot, type)
<1> DEFINE old == GroupBy(saved, type, FALSE)
           new == GroupBy(snapshot, type, FALSE)
           diff == Compared(old, new)
           U == DOMAIN new \cup DOMAIN old
           f == [k \in U |-> Of(new, k)]
           g == [k \in U |-> Of(old, k)]
           h == Differences(diff)
           rank == [k \in U |-> SortKey(diff[k])]
           size == [k \in U |-> Abs(diff[k].sizeDiff)]
<1>1. old \in Groups(AllKeys(type, X)) /\ new \in Groups(AllKeys(type, X))
  BY GroupIs
<1>2. Total(new) = Total(snapshot) /\ Total(old) = Total(saved)
  <2>1. ASSUME NEW s \in Traces(X)
        PROVE  Total(GroupBy(s, type, FALSE)) = Total(s)
    <3>1. GroupedTo(GroupBy(s, type, FALSE), s, type, FALSE, Len(s))
      BY GroupIs
    <3>2. DOMAIN s = 1 .. Len(s)
      BY DEF Traces
    <3> QED
      BY <3>1, <3>2, TotalIs DEF GroupedTo
  <2> QED
    BY <2>1
<1>3. CompareTo(saved, snapshot, type, FALSE)
        = Descending([k \in DOMAIN diff |-> SortKey(diff[k])])
  BY DEF CompareTo
<1>4. /\ DOMAIN diff = U
      /\ \A k \in U : diff[k] = StatisticDiff(Of(new, k), Of(old, k))
  BY DEF Compared, Of
<1> HIDE DEF old, new, diff
<1>5. ASSUME NEW k
      PROVE  /\ Of(new, k).size \in Nat /\ Of(new, k).count \in Nat
             /\ Of(old, k).size \in Nat /\ Of(old, k).count \in Nat
  BY <1>1, OfIs
<1>6. ASSUME NEW k \in U
      PROVE  /\ diff[k].size = Of(new, k).size
             /\ diff[k].sizeDiff = Of(new, k).size - Of(old, k).size
             /\ diff[k].count = Of(new, k).count
             /\ diff[k].countDiff = Of(new, k).count - Of(old, k).count
  <2>1. diff[k] = StatisticDiff(Of(new, k), Of(old, k))
    BY <1>4
  <2> QED
    BY ONLY <2>1 DEF StatisticDiff
<1>7. /\ IsFiniteSet(U) /\ IsFiniteSet(DOMAIN new) /\ IsFiniteSet(DOMAIN old)
      /\ \A k \in DOMAIN new : new[k].size \in Nat
      /\ \A k \in DOMAIN old : old[k].size \in Nat
  <2>1. ASSUME NEW stats \in Groups(AllKeys(type, X))
        PROVE  IsFiniteSet(DOMAIN stats) /\ \A k \in DOMAIN stats : stats[k].size \in Nat
    BY GroupsAre DEF Stat
  <2>2. IsFiniteSet(DOMAIN new) /\ IsFiniteSet(DOMAIN old)
    BY <1>1, <2>1
  <2>3. IsFiniteSet(U)
    BY <2>2, FS_Union
  <2> QED
    BY <1>1, <2>1, <2>2, <2>3
<1>8. /\ \A k \in DOMAIN new : Of(new, k) = new[k]
      /\ \A k \in DOMAIN old : Of(old, k) = old[k]
      /\ \A k : k \notin DOMAIN new => Of(new, k).size = 0
      /\ \A k : k \notin DOMAIN old => Of(old, k).size = 0
  BY DEF Of, Statistic
<1>9. Total(h) = Total(new) - Total(old)
  <2>1. DOMAIN h = U
    BY <1>4 DEF Differences
  <2>2. \A k \in U : h[k].size = diff[k].sizeDiff
    BY <1>4 DEF Differences
  <2>3. \A k \in U : f[k] = Of(new, k) /\ g[k] = Of(old, k)
    OBVIOUS
  <2> HIDE DEF f, g, h, U
  <2>4. /\ \A k \in U : f[k].size \in Nat
        /\ \A k \in U : g[k].size \in Nat
        /\ \A k \in U : h[k].size = f[k].size - g[k].size
    BY <1>5, <1>6, <2>2, <2>3
  <2>5. SizeSum(h, U) = SizeSum(f, U) - SizeSum(g, U)
    BY <1>7, <2>4, SumCompared
  <2>6. SizeSum(f, U) = Total(new)
    <3> DEFINE D == DOMAIN new
    <3>1. /\ D \in SUBSET U
          /\ \A k \in U \ D : f[k].size = 0
          /\ SameSizes(new, f, D) /\ Weighs(new, D)
      BY <1>7, <1>8, <2>3 DEF U, SameSizes, Weighs
    <3> HIDE DEF D
    <3>2. SizeSum(f, U) = SizeSum(f, D)
      BY <1>7, <2>4, <3>1, SumExtended
    <3>3. SizeSum(new, D) = SizeSum(f, D)
      BY <3>1, SumSame
    <3> QED
      BY <3>2, <3>3, TotalIs DEF D
  <2>7. SizeSum(g, U) = Total(old)
    <3> DEFINE D == DOMAIN old
    <3>1. /\ D \in SUBSET U
          /\ \A k \in U \ D : g[k].size = 0
          /\ SameSizes(old, g, D) /\ Weighs(old, D)
      BY <1>7, <1>8, <2>3 DEF U, SameSizes, Weighs
    <3> HIDE DEF D
    <3>2. SizeSum(g, U) = SizeSum(g, D)
      BY <1>7, <2>4, <3>1, SumExtended
    <3>3. SizeSum(old, D) = SizeSum(g, D)
      BY <3>1, SumSame
    <3> QED
      BY <3>2, <3>3, TotalIs DEF D
  <2> QED
    BY <2>1, <2>5, <2>6, <2>7, TotalIs
<1>10. /\ \A k \in DOMAIN old : diff[k].size - diff[k].sizeDiff = old[k].size
       /\ \A k \in DOMAIN new : diff[k].size = new[k].size
  <2>1. ASSUME NEW k \in DOMAIN old
        PROVE  diff[k].size - diff[k].sizeDiff = old[k].size
    BY <1>5, <1>6, <1>8
  <2>2. ASSUME NEW k \in DOMAIN new
        PROVE  diff[k].size = new[k].size
    BY <1>6, <1>8
  <2> QED
    BY <2>1, <2>2
<1>11. rank \in Ranks(U, 4) /\ \A k \in U : rank[k][1] = size[k]
  <2>1. ASSUME NEW i \in Int
        PROVE  Abs(i) \in Int
    BY DEF Abs
  <2>2. ASSUME NEW a \in Int, NEW b \in Int, NEW c \in Int, NEW d \in Int
        PROVE  <<a, b, c, d>> \in [1 .. 4 -> Int] /\ <<a, b, c, d>>[1] = a
    OBVIOUS
  <2>3. ASSUME NEW k \in U
        PROVE  SortKey(diff[k]) \in [1 .. 4 -> Int] /\ SortKey(diff[k])[1] = Abs(diff[k].sizeDiff)
    <3>1. /\ diff[k].sizeDiff \in Int /\ diff[k].size \in Int
          /\ diff[k].countDiff \in Int /\ diff[k].count \in Int
      BY <1>5, <1>6
    <3>2. Abs(diff[k].sizeDiff) \in Int /\ Abs(diff[k].countDiff) \in Int
      BY <2>1, <3>1
    <3> QED
      BY <2>2, <3>1, <3>2 DEF SortKey
  <2> HIDE DEF U
  <2> QED
    BY <2>3 DEF Ranks
<1>12. DOMAIN size = U
  OBVIOUS
<1> HIDE DEF rank, size, U, h
<1>13. Listing(Descending(rank), size)
  <2>1. 4 \in Nat \ {0}
    OBVIOUS
  <2> QED
    BY <1>7, <1>11, <1>12, <2>1, ListingHolds
<1>14. /\ Total(h) = Total(snapshot) - Total(saved)
       /\ Listing(CompareTo(saved, snapshot, type, FALSE), size)
  BY <1>2, <1>3, <1>4, <1>9, <1>13 DEF rank
<1> QED
  BY <1>4, <1>10, <1>14 DEF DiffsWhole, old, new, diff, U, h, size

\* Statistics and differences, from the invariant.
LEMMA StatisticsHold == IInv => StatisticsAddUp
<1> SUFFICES ASSUME IInv
             PROVE  StatisticsAddUp
  OBVIOUS
<1> DEFINE snapshot == Snapshotted
<1>1. snapshot \in Traces(Shown) /\ DOMAIN snapshot = DOMAIN list
  BY SnapshotIs DEF Snapshotted
<1> HIDE DEF snapshot
<1>2. GroupsAddUp
  <2>1. ASSUME NEW type \in {"traceback", "lineno", "filename"}
        PROVE  /\ \A cumulative \in {FALSE, type # "traceback"} :
                    GroupsExact(snapshot, type, cumulative)
               /\ GroupsWhole(snapshot, type)
    <3>1. GroupsWhole(snapshot, type)
      BY <1>1, WholeHolds
    <3>2. \A cumulative \in BOOLEAN : GroupsExact(snapshot, type, cumulative)
      BY <1>1, ExactHolds
    <3> QED
      BY <3>1, <3>2
  <2> QED
    BY <2>1, Zenon DEF GroupsAddUp, snapshot
<1>3. ASSUME NEW saved \in Older
      PROVE  saved \in Traces(Shown)
  <2> DEFINE none == [file |-> UnknownText, lineno |-> 0]
             tbs == {snapshot[i].traceback : i \in DOMAIN list} \cup {<<none>>}
  <2>1. ASSUME NEW tb \in tbs
        PROVE  tb \in Seq(Shown) /\ tb # <<>>
    <3>1. CASE tb = <<none>>
      <4>1. none \in Shown
        BY DEF Shown
      <4> HIDE DEF none
      <4> QED
        BY <3>1, <4>1
    <3>2. CASE tb \in {snapshot[i].traceback : i \in DOMAIN list}
      <4>1. PICK i \in DOMAIN snapshot : tb = snapshot[i].traceback
        BY <1>1, <3>2
      <4>2. snapshot[i] \in TraceOf(Shown)
        BY <1>1 DEF Traces
      <4> QED
        BY <4>1, <4>2 DEF TraceOf
    <3> QED
      BY <3>1, <3>2
  <2>2. CASE saved = <<>>
    BY <2>2 DEF Traces
  <2>3. CASE saved # <<>>
    <3>1. Older = {<<>>} \cup {<<x>> : x \in [size : Sizes \cup {0}, traceback : tbs]}
      BY DEF Older, snapshot
    <3> HIDE DEF tbs
    <3>2. PICK x \in [size : Sizes \cup {0}, traceback : tbs] : saved = <<x>>
      BY <2>3, <3>1
    <3>3. \A n \in Sizes \cup {0} : n \in Nat
      BY TracebacksAssumption
    <3>4. x \in TraceOf(Shown)
      BY ONLY x \in [size : Sizes \cup {0}, traceback : tbs], <2>1, <3>3 DEF TraceOf
    <3> QED
      BY <3>2, <3>4 DEF Traces
  <2> QED
    BY <2>2, <2>3
<1>4. DiffsAddUp
  <2>1. \A type \in {"traceback", "filename"}, saved \in Older :
          DiffsWhole(saved, snapshot, type)
    BY <1>1, <1>3, DiffsHold
  <2> QED
    BY <2>1 DEF DiffsAddUp, snapshot
<1> QED
  BY <1>2, <1>4 DEF StatisticsAddUp

\* The groups of a snapshot are its blocks, each where its key puts it, and
\* comparing two snapshots loses none (tracemalloc.py:141-170, 435-510).
THEOREM StatisticsAddUpHolds == Spec => []StatisticsAddUp
  BY Invariance, StatisticsHold, PTL

=============================================================================
