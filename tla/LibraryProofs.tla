--------------------------- MODULE LibraryProofs ---------------------------
(***************************************************************************)
(* Lemmas about two operators of the community modules that are defined by *)
(* recursion: MapThenSumSet, which adds up the lengths of the pieces, and  *)
(* FlattenSeq, which puts messages behind each other; and about functions  *)
(* that are defined by recursion over a rank, as encode() is over the      *)
(* depth of a value.                                                       *)
(***************************************************************************)
EXTENDS Integers, Sequences, FiniteSetsExt, SequencesExt, FiniteSetTheorems,
        SequenceTheorems, TLAPS

-----------------------------------------------------------------------------
(* Sums *)

\* Induction on the naturals in the form the provers can use: a set of them
\* that is not empty has a least element.
LEMMA LeastNatural ==
  ASSUME NEW T \in SUBSET Nat, T # {}
  PROVE  \E n \in T : \A m \in T : n <= m
  <1>1. IsWellFoundedOn(OpToRel(<, Nat), Nat)
    BY NatLessThanWellFounded
  <1>2. PICK n \in T : \A m \in T : ~(<<m, n>> \in OpToRel(<, Nat))
    BY <1>1, WFMin
  <1>3. \A m \in T : ~(m < n)
    BY <1>2 DEF OpToRel
  <1>4. QED
    BY <1>3

Pick(s) == CHOOSE x \in s : TRUE

\* f adds g up over the sets of D, as MapThenFoldSet's inner function does.
AddsUp(f, D, g) ==
  f = [s \in D |-> IF s = {} THEN 0 ELSE g[Pick(s)] + f[s \ {Pick(s)}]]

UpTo(S, n) == {s \in SUBSET S : Cardinality(s) <= n}

LEMMA Smaller ==
  ASSUME NEW S, IsFiniteSet(S), NEW s \in SUBSET S, NEW x \in s
  PROVE  /\ IsFiniteSet(s) /\ Cardinality(s) \in Nat \ {0}
         /\ s \ {x} \in SUBSET S
         /\ Cardinality(s \ {x}) = Cardinality(s) - 1
  <1>1. IsFiniteSet(s) /\ Cardinality(s) \in Nat
    BY FS_Subset, FS_CardinalityType
  <1>2. Cardinality(s \ {x}) = Cardinality(s) - 1
    BY <1>1, FS_RemoveElement
  <1>3. s \ {x} \in SUBSET S /\ Cardinality(s \ {x}) \in Nat
    BY FS_Subset, FS_CardinalityType
  <1>4. QED
    BY <1>1, <1>2, <1>3

LEMMA PickIn == ASSUME NEW s, s # {} PROVE Pick(s) \in s
  BY DEF Pick

\* A function that adds up one size further.
LEMMA AddsUpNext ==
  ASSUME NEW S, IsFiniteSet(S), NEW g, NEW n \in Nat, NEW f, AddsUp(f, UpTo(S, n), g)
  PROVE  \E h : AddsUp(h, UpTo(S, n + 1), g)
  <1> DEFINE h == [s \in UpTo(S, n + 1) |-> IF s = {} THEN 0 ELSE g[Pick(s)] + f[s \ {Pick(s)}]]
  <1>1. ASSUME NEW s \in UpTo(S, n + 1), s # {}
        PROVE  s \ {Pick(s)} \in UpTo(S, n) /\ s \ {Pick(s)} \in UpTo(S, n + 1)
    <2>1. s \in SUBSET S /\ Cardinality(s) <= n + 1 /\ Pick(s) \in s
      BY <1>1, PickIn DEF UpTo
    <2>2. s \ {Pick(s)} \in SUBSET S /\ Cardinality(s \ {Pick(s)}) = Cardinality(s) - 1
          /\ Cardinality(s) \in Nat
      BY <2>1, Smaller
    <2>3. QED
      BY <2>1, <2>2 DEF UpTo
  <1>2. \A t \in UpTo(S, n) : t \in UpTo(S, n + 1)
    <2>1. \A t \in UpTo(S, n) : t \in SUBSET S /\ Cardinality(t) \in Nat /\ Cardinality(t) <= n
      BY FS_Subset, FS_CardinalityType DEF UpTo
    <2>2. QED
      BY <2>1 DEF UpTo
  <1>3. \A t \in UpTo(S, n) : h[t] = f[t]
    BY <1>2 DEF AddsUp
  <1>4. h = [s \in UpTo(S, n + 1) |-> IF s = {} THEN 0 ELSE g[Pick(s)] + h[s \ {Pick(s)}]]
    BY <1>1, <1>3
  <1>5. QED
    BY <1>4 DEF AddsUp

\* There is such a function over all subsets.
LEMMA AddsUpExists ==
  ASSUME NEW S, IsFiniteSet(S), NEW g
  PROVE  \E f : AddsUp(f, SUBSET S, g)
  <1> DEFINE Missing == {n \in Nat : ~ \E f : AddsUp(f, UpTo(S, n), g)}
  <1>1. 0 \notin Missing
    <2> DEFINE f == [s \in UpTo(S, 0) |-> 0]
    <2>1. \A s \in UpTo(S, 0) : s = {}
      <3>1. \A s \in UpTo(S, 0) : IsFiniteSet(s) /\ Cardinality(s) \in Nat /\ Cardinality(s) <= 0
        BY FS_Subset, FS_CardinalityType DEF UpTo
      <3>2. QED
        BY <3>1, FS_EmptySet
    <2>2. AddsUp(f, UpTo(S, 0), g)
      BY <2>1 DEF AddsUp
    <2>3. QED
      BY <2>2
  <1>2. ASSUME NEW n \in Nat, n \notin Missing
        PROVE  n + 1 \notin Missing
    BY <1>2, AddsUpNext
  <1>3. Missing = {}
    <2> SUFFICES ASSUME Missing # {} PROVE FALSE
      OBVIOUS
    <2>1. PICK n \in Missing : \A m \in Missing : n <= m
      <3> Missing \in SUBSET Nat
        OBVIOUS
      <3> HIDE DEF Missing
      <3> QED
        BY LeastNatural
    <2>2. n \in Nat /\ n # 0
      BY <1>1
    <2>3. n - 1 \in Nat /\ n - 1 \notin Missing
      BY <2>1, <2>2
    <2>4. n - 1 + 1 \notin Missing
      BY <1>2, <2>3
    <2>5. QED
      BY <2>2, <2>4
  <1>4. Cardinality(S) \in Nat /\ UpTo(S, Cardinality(S)) = SUBSET S
    BY FS_Subset, FS_CardinalityType DEF UpTo
  <1>5. \E f : AddsUp(f, UpTo(S, Cardinality(S)), g)
    BY <1>3, <1>4
  <1>6. QED
    BY <1>4, <1>5

\* Any element may be taken out first.
LEMMA AnyOrder ==
  ASSUME NEW S, IsFiniteSet(S), NEW g \in [S -> Int], NEW f, AddsUp(f, SUBSET S, g)
  PROVE  /\ f[{}] = 0
         /\ \A s \in SUBSET S : f[s] \in Int /\ \A y \in s : f[s] = g[y] + f[s \ {y}]
  <1> DEFINE Fine(s) == f[s] \in Int /\ \A y \in s : f[s] = g[y] + f[s \ {y}]
             Bad == {n \in Nat : \E s \in SUBSET S : Cardinality(s) = n /\ ~Fine(s)}
  <1>1. f[{}] = 0
    BY DEF AddsUp
  <1>2. ASSUME NEW s \in SUBSET S, s # {}
        PROVE  f[s] = g[Pick(s)] + f[s \ {Pick(s)}] /\ Pick(s) \in s
    BY <1>2, PickIn DEF AddsUp
  <1>3. ASSUME NEW s \in SUBSET S,
               \A t \in SUBSET S : Cardinality(t) < Cardinality(s) => Fine(t)
        PROVE  Fine(s)
    <2>1. CASE s = {}
      BY <1>1, <2>1
    <2>2. CASE s # {}
      <3> DEFINE x == Pick(s)
      <3>1. x \in s /\ f[s] = g[x] + f[s \ {x}]
        BY <1>2, <2>2
      <3> HIDE DEF x
      <3>2. s \ {x} \in SUBSET S /\ Fine(s \ {x})
        <4>1. /\ s \ {x} \in SUBSET S /\ Cardinality(s) \in Nat
              /\ Cardinality(s \ {x}) = Cardinality(s) - 1
          BY <3>1, Smaller
        <4>2. Cardinality(s \ {x}) < Cardinality(s)
          BY <4>1
        <4>3. s \ {x} \in SUBSET S
          BY <4>1
        <4> HIDE DEF Fine
        <4>4. QED
          BY <1>3, <4>2, <4>3
      <3>3. f[s] \in Int
        BY <3>1, <3>2
      <3>4. ASSUME NEW y \in s, y # x
            PROVE  f[s] = g[y] + f[s \ {y}]
        <4>1. s \ {y} \in SUBSET S /\ Fine(s \ {y})
          <5>1. Cardinality(s \ {y}) < Cardinality(s) /\ s \ {y} \in SUBSET S
            BY Smaller
          <5> HIDE DEF Fine
          <5>2. QED
            BY <1>3, <5>1
        <4>2. f[s \ {x}] = g[y] + f[(s \ {x}) \ {y}]
          BY <3>2, <3>4
        <4>3. f[s \ {y}] = g[x] + f[(s \ {y}) \ {x}]
          BY <3>1, <4>1, <3>4
        <4>4. (s \ {x}) \ {y} = (s \ {y}) \ {x}
          OBVIOUS
        <4>5. (s \ {x}) \ {y} \in SUBSET S /\ Fine((s \ {x}) \ {y})
          <5>1. /\ y \in s \ {x} /\ IsFiniteSet(s \ {x})
                /\ Cardinality((s \ {x}) \ {y}) < Cardinality(s)
            <6>1. y \in s \ {x}
              BY <3>4
            <6>2. Cardinality(s \ {x}) = Cardinality(s) - 1 /\ Cardinality(s) \in Nat
              BY <3>1, Smaller
            <6>3. /\ IsFiniteSet(s \ {x})
                  /\ Cardinality((s \ {x}) \ {y}) = Cardinality(s \ {x}) - 1
              BY <3>2, <6>1, Smaller
            <6>4. QED
              BY <6>1, <6>2, <6>3
          <5>2. QED
            BY <1>3, <5>1
        <4>6. g[x] \in Int /\ g[y] \in Int /\ f[(s \ {x}) \ {y}] \in Int
          BY <3>1, <4>5
        <4>7. f[s] = g[x] + (g[y] + f[(s \ {x}) \ {y}])
          BY <3>1, <4>2
        <4>8. f[s \ {y}] = g[x] + f[(s \ {x}) \ {y}]
          BY <4>3, <4>4
        <4>9. g[x] + (g[y] + f[(s \ {x}) \ {y}]) = g[y] + (g[x] + f[(s \ {x}) \ {y}])
          BY <4>6
        <4>10. QED
          BY <4>7, <4>8, <4>9
      <3>5. QED
        BY <3>1, <3>3, <3>4
    <2>3. QED
      BY <2>1, <2>2
  <1> HIDE DEF Fine
  <1>4. Bad = {}
    <2> SUFFICES ASSUME Bad # {} PROVE FALSE
      OBVIOUS
    <2>1. PICK n \in Bad : \A m \in Bad : n <= m
      <3> Bad \in SUBSET Nat
        OBVIOUS
      <3> HIDE DEF Bad
      <3> QED
        BY LeastNatural
    <2>2. PICK s \in SUBSET S : Cardinality(s) = n /\ ~Fine(s) /\ n \in Nat
      BY <2>1
    <2>3. ASSUME NEW t \in SUBSET S, Cardinality(t) < Cardinality(s)
          PROVE  Fine(t)
      <3>1. Cardinality(t) \in Nat
        BY FS_Subset, FS_CardinalityType
      <3>2. Cardinality(t) \notin Bad
        BY <2>1, <2>2, <2>3, <3>1
      <3>3. QED
        BY <3>1, <3>2
    <2>4. QED
      BY <1>3, <2>2, <2>3
  <1>5. ASSUME NEW s \in SUBSET S
        PROVE  Fine(s)
    <2>1. Cardinality(s) \in Nat
      BY FS_Subset, FS_CardinalityType
    <2>2. QED
      BY <1>4, <2>1
  <1>6. QED
    BY <1>1, <1>5 DEF Fine

\* What the community modules' sum of g over S is.
LEMMA MapThenSumSetAddsUp ==
  ASSUME NEW S, IsFiniteSet(S), NEW g
  PROVE  \E f : AddsUp(f, SUBSET S, g) /\ MapThenSumSet(LAMBDA x : g[x], S) = f[S]
  <1> DEFINE iter == CHOOSE f : AddsUp(f, SUBSET S, g)
  <1>1. AddsUp(iter, SUBSET S, g)
    BY AddsUpExists
  <1>2. MapThenSumSet(LAMBDA x : g[x], S) = iter[S]
    BY Zenon DEF MapThenSumSet, MapThenFoldSet, AddsUp, Pick
  <1>3. QED
    BY <1>1, <1>2

-----------------------------------------------------------------------------
(* Sequences put behind each other *)

\* f is FlattenSeq's inner function on the first n elements of s.
Flattens(f, s, n) ==
  f = [i \in 1 .. n |-> IF i = 1 THEN s[i] ELSE f[i - 1] \o s[i]]

LEMMA FlattensAt ==
  ASSUME NEW s, NEW n, NEW f, Flattens(f, s, n), NEW i \in 1 .. n
  PROVE  f[i] = IF i = 1 THEN s[i] ELSE f[i - 1] \o s[i]
  <1> DEFINE g == [j \in 1 .. n |-> IF j = 1 THEN s[j] ELSE f[j - 1] \o s[j]]
  <1>1. f = g
    BY DEF Flattens
  <1>2. g[i] = IF i = 1 THEN s[i] ELSE f[i - 1] \o s[i]
    BY Zenon
  <1>3. QED
    BY <1>1, <1>2, Zenon

LEMMA FlattensNext ==
  ASSUME NEW s, NEW n \in Nat, NEW f, Flattens(f, s, n)
  PROVE  \E h : Flattens(h, s, n + 1)
  <1> DEFINE h == [i \in 1 .. n + 1 |-> IF i = 1 THEN s[i] ELSE f[i - 1] \o s[i]]
  <1>1. ASSUME NEW i \in 1 .. n PROVE h[i] = f[i]
    <2>1. i \in 1 .. n + 1
      OBVIOUS
    <2>2. h[i] = IF i = 1 THEN s[i] ELSE f[i - 1] \o s[i]
      BY <2>1, Zenon
    <2>3. f[i] = IF i = 1 THEN s[i] ELSE f[i - 1] \o s[i]
      BY FlattensAt
    <2>4. QED
      BY <2>2, <2>3, Zenon
  <1>2. \A i \in 1 .. n + 1 : i # 1 => i - 1 \in 1 .. n
    OBVIOUS
  <1>3. h = [i \in 1 .. n + 1 |-> IF i = 1 THEN s[i] ELSE h[i - 1] \o s[i]]
    BY <1>1, <1>2
  <1>4. QED
    BY <1>3 DEF Flattens

LEMMA FlattensExists ==
  ASSUME NEW s, NEW n \in Nat
  PROVE  \E f : Flattens(f, s, n)
  <1> DEFINE Missing == {k \in Nat : ~ \E f : Flattens(f, s, k)}
  <1>1. 0 \notin Missing
    <2> DEFINE f == [i \in 1 .. 0 |-> IF i = 1 THEN s[i] ELSE s[i]]
    <2>1. f = [i \in 1 .. 0 |-> IF i = 1 THEN s[i] ELSE f[i - 1] \o s[i]]
      OBVIOUS
    <2>2. QED
      BY <2>1 DEF Flattens
  <1>2. ASSUME NEW k \in Nat, k \notin Missing
        PROVE  k + 1 \notin Missing
    BY <1>2, FlattensNext
  <1>3. Missing = {}
    <2> SUFFICES ASSUME Missing # {} PROVE FALSE
      OBVIOUS
    <2>1. PICK k \in Missing : \A m \in Missing : k <= m
      <3> Missing \in SUBSET Nat
        OBVIOUS
      <3> HIDE DEF Missing
      <3> QED
        BY LeastNatural
    <2>2. k \in Nat /\ k # 0
      BY <1>1
    <2>3. k - 1 \in Nat /\ k - 1 \notin Missing
      BY <2>1, <2>2
    <2>4. k - 1 + 1 \notin Missing
      BY <1>2, <2>3
    <2>5. QED
      BY <2>2, <2>4
  <1>4. QED
    BY <1>3

LEMMA FlattenSeqIs ==
  ASSUME NEW s, Len(s) \in Nat, Len(s) # 0
  PROVE  \E f : Flattens(f, s, Len(s)) /\ FlattenSeq(s) = f[Len(s)]
  <1> DEFINE flatten == CHOOSE f : Flattens(f, s, Len(s))
  <1>1. Flattens(flatten, s, Len(s))
    BY FlattensExists
  <1>2. FlattenSeq(s) = flatten[Len(s)]
    BY Zenon DEF FlattenSeq, Flattens
  <1>3. QED
    BY <1>1, <1>2

LEMMA FlattenNothing == FlattenSeq(<< >>) = << >>
  <1>1. Len(<< >>) = 0
    OBVIOUS
  <1>2. QED
    BY <1>1, Zenon DEF FlattenSeq

\* The last of a longer sequence is added to what the shorter one gives.
LEMMA FlattenLonger ==
  ASSUME NEW s, NEW t, NEW n \in Nat, Len(s) = n, NEW m, m = n + 1, Len(t) = m,
         \A i \in 1 .. n : t[i] = s[i], n # 0
  PROVE  FlattenSeq(t) = FlattenSeq(s) \o t[m]
  <1>1. m \in Nat /\ m # 0 /\ n <= m /\ n <= n /\ \A i \in 1 .. n : s[i] = t[i]
    OBVIOUS
  <1>2. PICK h : Flattens(h, t, m) /\ FlattenSeq(t) = h[m]
    BY <1>1, FlattenSeqIs
  <1>3. PICK f : Flattens(f, s, n) /\ FlattenSeq(s) = f[n]
    BY FlattenSeqIs
  <1>4. \A i \in 1 .. n : f[i] = h[i]
    <2> DEFINE Differ == {i \in 1 .. n : f[i] # h[i]}
    <2>1. /\ \A i \in 1 .. n : f[i] = IF i = 1 THEN s[i] ELSE f[i - 1] \o s[i]
          /\ \A i \in 1 .. m : h[i] = IF i = 1 THEN t[i] ELSE h[i - 1] \o t[i]
      BY <1>2, <1>3, FlattensAt, SMTT(30)
    <2>2. SUFFICES ASSUME Differ # {} PROVE FALSE
      OBVIOUS
    <2>3. PICK i \in Differ : \A j \in Differ : i <= j
      <3> Differ \in SUBSET Nat
        OBVIOUS
      <3> HIDE DEF Differ
      <3> QED
        BY <2>2, LeastNatural
    <2>4. i \in 1 .. m
      OBVIOUS
    <2>5. CASE i = 1
      BY <2>1, <2>4, <2>5
    <2>6. CASE i # 1
      <3>1. i - 1 \in 1 .. n /\ i - 1 \notin Differ
        BY <2>3, <2>6
      <3>2. f[i - 1] = h[i - 1]
        BY <3>1
      <3>3. QED
        BY <2>1, <2>4, <2>6, <3>2
    <2>7. QED
      BY <2>5, <2>6
  <1>5. n \in 1 .. n /\ m \in 1 .. m /\ m # 1 /\ m - 1 = n
    OBVIOUS
  <1>6. h[m] = IF m = 1 THEN t[m] ELSE h[m - 1] \o t[m]
    <2>1. \A i \in 1 .. m : h[i] = IF i = 1 THEN t[i] ELSE h[i - 1] \o t[i]
      BY <1>2, FlattensAt
    <2>2. QED
      BY <1>5, <2>1
  <1>7. h[n] = f[n]
    BY <1>4, <1>5
  <1>8. QED
    BY <1>2, <1>3, <1>5, <1>6, <1>7, Zenon

LEMMA FlattenOne ==
  ASSUME NEW t, Len(t) = 1
  PROVE  FlattenSeq(t) = t[1]
  <1>1. PICK h : Flattens(h, t, Len(t)) /\ FlattenSeq(t) = h[Len(t)]
    <2>1. Len(t) \in Nat /\ Len(t) # 0
      OBVIOUS
    <2>2. QED
      BY <2>1, FlattenSeqIs, Zenon
  <1>2. Flattens(h, t, 1) /\ FlattenSeq(t) = h[1]
    BY <1>1, Zenon
  <1>3. \A i \in 1 .. 1 : h[i] = IF i = 1 THEN t[i] ELSE h[i - 1] \o t[i]
    BY <1>2, FlattensAt
  <1>4. QED
    BY <1>2, <1>3

\* One more at the end.
LEMMA FlattenAppend ==
  ASSUME NEW S, NEW s \in Seq(Seq(S)), NEW x \in Seq(S)
  PROVE  FlattenSeq(Append(s, x)) = FlattenSeq(s) \o x
  <1> DEFINE t == Append(s, x)
             n == Len(s)
             m == Len(t)
  <1>1. /\ n \in Nat /\ m = n + 1 /\ t[m] = x
        /\ \A i \in 1 .. n : t[i] = s[i]
    OBVIOUS
  <1>2. CASE s = << >>
    <2>1. m = 1
      BY <1>1, <1>2
    <2>2. FlattenSeq(t) = t[1]
      <3> HIDE DEF t
      <3> QED
        BY <2>1, FlattenOne
    <2>3. << >> \o x = x
      BY ConcatEmptySeq
    <2>4. t[1] = x
      BY <1>1, <2>1
    <2> HIDE DEF t
    <2>5. FlattenSeq(t) = FlattenSeq(s) \o x
      BY <1>2, <2>2, <2>3, <2>4, FlattenNothing, Zenon
    <2>6. QED
      BY <2>5 DEF t
  <1>3. CASE s # << >>
    <2>1. n # 0
      BY <1>3
    <2>2. FlattenSeq(t) = FlattenSeq(s) \o t[m]
      <3> HIDE DEF t
      <3> QED
        BY <1>1, <2>1, FlattenLonger
    <2> HIDE DEF t, m
    <2>3. FlattenSeq(t) = FlattenSeq(s) \o x
      BY <1>1, <2>2, Zenon
    <2>4. QED
      BY <2>3 DEF t
  <1>4. QED
    BY <1>2, <1>3

\* Induction on sequences in the form the provers can use.
LEMMA ShortestSeq ==
  ASSUME NEW S, NEW T \in SUBSET Seq(S), T # {}
  PROVE  \E s \in T : \A t \in T : Len(s) <= Len(t)
  <1> DEFINE Lens == {Len(s) : s \in T}
  <1>1. Lens \in SUBSET Nat /\ Lens # {}
    <2>1. \A s \in T : Len(s) \in Nat
      BY LenProperties
    <2>2. QED
      BY <2>1
  <1> HIDE DEF Lens
  <1>2. PICK n \in Lens : \A m \in Lens : n <= m
    BY <1>1, LeastNatural
  <1>3. QED
    BY <1>2 DEF Lens

LEMMA LastOff ==
  ASSUME NEW S, NEW s \in Seq(S), s # << >>
  PROVE  \E t \in Seq(S), e \in S : s = Append(t, e) /\ Len(t) + 1 = Len(s)
  <1>1. PICK t \in Seq(S), e \in S : s = Append(t, e)
    BY SequenceEmptyOrAppend
  <1>2. QED
    BY <1>1

LEMMA FlattenType ==
  ASSUME NEW S, NEW s \in Seq(Seq(S))
  PROVE  FlattenSeq(s) \in Seq(S)
  <1> DEFINE Bad == {t \in Seq(Seq(S)) : FlattenSeq(t) \notin Seq(S)}
  <1>1. SUFFICES ASSUME Bad # {} PROVE FALSE
    OBVIOUS
  <1>2. PICK t \in Bad : \A u \in Bad : Len(t) <= Len(u)
    <2> Bad \in SUBSET Seq(Seq(S))
      OBVIOUS
    <2> HIDE DEF Bad
    <2> QED
      BY <1>1, ShortestSeq
  <1>3. t # << >>
    BY FlattenNothing
  <1>4. PICK u \in Seq(Seq(S)), x \in Seq(S) : t = Append(u, x) /\ Len(u) + 1 = Len(t)
    BY <1>3, LastOff
  <1>5. u \notin Bad
    BY <1>2, <1>4
  <1>6. FlattenSeq(t) = FlattenSeq(u) \o x
    BY <1>4, FlattenAppend
  <1>7. QED
    BY <1>5, <1>6, ConcatProperties

\* The concatenations a proof about the end of a sequence regroups.
LEMMA Regroup ==
  ASSUME NEW S, NEW a \in Seq(S), NEW b \in Seq(S), NEW x \in Seq(S),
         NEW ab, ab = a \o b, NEW abx, abx = ab \o x, NEW bx, bx = b \o x
  PROVE  abx = a \o bx
  BY ConcatAssociative, SMTT(30)

LEMMA AppendBehind ==
  ASSUME NEW S, NEW a \in Seq(S), NEW b \in Seq(S), NEW x \in S,
         NEW ab, ab = a \o b, NEW bx, bx = Append(b, x)
  PROVE  ab \in Seq(S) /\ a \o bx = Append(ab, x)
  <1>1. ab \in Seq(S)
    BY ConcatProperties
  <1>2. bx = b \o <<x>> /\ Append(ab, x) = ab \o <<x>> /\ <<x>> \in Seq(S)
    BY <1>1, AppendIsConcat
  <1>3. QED
    BY <1>1, <1>2, ConcatAssociative

LEMMA FlattenConcatNext ==
  ASSUME NEW S, NEW s \in Seq(Seq(S)), NEW v \in Seq(Seq(S)), NEW x \in Seq(S),
         FlattenSeq(s \o v) = FlattenSeq(s) \o FlattenSeq(v)
  PROVE  FlattenSeq(s \o Append(v, x)) = FlattenSeq(s) \o FlattenSeq(Append(v, x))
  <1> DEFINE Q == Seq(S)
             sv == s \o v
             vx == Append(v, x)
  <1>1. sv \in Seq(Q) /\ s \o vx = Append(sv, x)
    <2>1. s \in Seq(Q) /\ v \in Seq(Q) /\ x \in Q /\ sv = s \o v /\ vx = Append(v, x)
      OBVIOUS
    <2> HIDE DEF Q, sv, vx
    <2>2. QED
      BY <2>1, AppendBehind, SMTT(40)
  <1>2. FlattenSeq(Append(sv, x)) = FlattenSeq(sv) \o x
    <2> HIDE DEF sv
    <2> QED
      BY <1>1, FlattenAppend
  <1>3. FlattenSeq(vx) = FlattenSeq(v) \o x
    BY FlattenAppend
  <1>4. FlattenSeq(s) \in Seq(S) /\ FlattenSeq(v) \in Seq(S)
    BY FlattenType
  <1>5. FlattenSeq(Append(sv, x)) = FlattenSeq(s) \o FlattenSeq(vx)
    <2> HIDE DEF vx
    <2> QED
      BY <1>2, <1>3, <1>4, Regroup
  <1>6. QED
    BY <1>1, <1>5, Zenon

\* Two sequences in a row.
LEMMA FlattenConcat ==
  ASSUME NEW S, NEW s \in Seq(Seq(S)), NEW t \in Seq(Seq(S))
  PROVE  FlattenSeq(s \o t) = FlattenSeq(s) \o FlattenSeq(t)
  <1> DEFINE Bad == {u \in Seq(Seq(S)) : FlattenSeq(s \o u) # FlattenSeq(s) \o FlattenSeq(u)}
  <1>1. SUFFICES ASSUME Bad # {} PROVE FALSE
    OBVIOUS
  <1>2. PICK u \in Bad : \A v \in Bad : Len(u) <= Len(v)
    <2> Bad \in SUBSET Seq(Seq(S))
      OBVIOUS
    <2> HIDE DEF Bad
    <2> QED
      BY <1>1, ShortestSeq
  <1>3. u # << >>
    <2>1. s \o << >> = s /\ FlattenSeq(s) \o << >> = FlattenSeq(s)
      BY ConcatEmptySeq, FlattenType
    <2>2. QED
      BY <2>1, FlattenNothing
  <1>4. PICK v \in Seq(Seq(S)), x \in Seq(S) : u = Append(v, x) /\ Len(v) + 1 = Len(u)
    BY <1>3, LastOff
  <1>5. FlattenSeq(s \o v) = FlattenSeq(s) \o FlattenSeq(v)
    BY <1>2, <1>4
  <1>6. FlattenSeq(s \o Append(v, x)) = FlattenSeq(s) \o FlattenSeq(Append(v, x))
    BY <1>5, FlattenConcatNext
  <1>7. FlattenSeq(s \o u) = FlattenSeq(s) \o FlattenSeq(u)
    BY <1>4, <1>6, Zenon
  <1>8. QED
    BY <1>7

\* The first k of a sequence of sequences, in a row.
FlattenFirst(s, k) == FlattenSeq(SubSeq(s, 1, k))

LEMMA FirstNone ==
  ASSUME NEW s
  PROVE  FlattenFirst(s, 0) = << >>
  <1>1. SubSeq(s, 1, 0) = << >>
    BY SubSeqEmpty
  <1>2. QED
    BY <1>1, FlattenNothing, Zenon DEF FlattenFirst

LEMMA FirstAll ==
  ASSUME NEW S, NEW s \in Seq(S)
  PROVE  FlattenFirst(s, Len(s)) = FlattenSeq(s)
  <1>1. SubSeq(s, 1, Len(s)) = s
    BY SubSeqFull
  <1>2. QED
    BY <1>1, Zenon DEF FlattenFirst

LEMMA OneMore ==
  ASSUME NEW S, NEW s \in Seq(S), NEW k \in 0 .. Len(s) - 1, NEW n, n = k + 1
  PROVE  /\ SubSeq(s, 1, k) \in Seq(S) /\ s[n] \in S
         /\ SubSeq(s, 1, n) = Append(SubSeq(s, 1, k), s[n])
  <1>1. SubSeq(s, 1, k) \in Seq(S) /\ s[n] \in S /\ Len(s) \in Nat
    OBVIOUS
  <1>2. 1 \in 1 .. Len(s) /\ n \in 1 .. Len(s) /\ n - 1 = k
    OBVIOUS
  <1>3. SubSeq(s, 1, n) = SubSeq(s, 1, k) \o <<s[n]>>
    BY <1>2, SubSeqRecursiveSecond
  <1>4. QED
    BY <1>1, <1>3, AppendIsConcat

LEMMA FirstNext ==
  ASSUME NEW S, NEW s \in Seq(Seq(S)), NEW k \in 0 .. Len(s) - 1, NEW n, n = k + 1
  PROVE  /\ FlattenFirst(s, k) \in Seq(S) /\ s[n] \in Seq(S)
         /\ FlattenFirst(s, n) = FlattenFirst(s, k) \o s[n]
  <1> DEFINE Q == Seq(S)
             a == SubSeq(s, 1, k)
             x == s[n]
  <1>1. a \in Seq(Q) /\ x \in Q /\ SubSeq(s, 1, n) = Append(a, x)
    <2>1. s \in Seq(Q)
      OBVIOUS
    <2> HIDE DEF Q
    <2>2. QED
      BY <2>1, OneMore
  <1> HIDE DEF a, x
  <1>2. FlattenSeq(a) \in Seq(S) /\ FlattenSeq(Append(a, x)) = FlattenSeq(a) \o x
    BY <1>1, FlattenType, FlattenAppend
  <1>3. FlattenSeq(SubSeq(s, 1, n)) = FlattenSeq(a) \o x
    BY <1>1, <1>2, Zenon
  <1>4. x \in Seq(S)
    BY <1>1
  <1>5. QED
    BY <1>2, <1>3, <1>4, Zenon DEF FlattenFirst, a, x

\* What the first of them make is at the start of the whole.
LEMMA FirstAndRest ==
  ASSUME NEW S, NEW s \in Seq(Seq(S)), NEW k \in 0 .. Len(s)
  PROVE  \E rest \in Seq(S) :
           FlattenFirst(s, k) \in Seq(S) /\ FlattenSeq(s) = FlattenFirst(s, k) \o rest
  <1> DEFINE Q == Seq(S)
             a == SubSeq(s, 1, k)
             b == SubSeq(s, k + 1, Len(s))
  <1>1. a \in Seq(Q) /\ b \in Seq(Q) /\ a \o b = s
    <2>1. s \in Seq(Q)
      OBVIOUS
    <2> HIDE DEF Q
    <2>2. SubSeq(s, 1, k) \o SubSeq(s, k + 1, Len(s)) = SubSeq(s, 1, Len(s))
      <3>1. 1 \in 1 .. Len(s) + 1 /\ k \in 1 - 1 .. Len(s) /\ Len(s) \in k .. Len(s)
        BY <2>1
      <3>2. QED
        BY <2>1, <3>1, ConcatAdjacentSubSeq
    <2>3. SubSeq(s, 1, Len(s)) = s
      BY <2>1, SubSeqFull
    <2>4. SubSeq(s, 1, k) \in Seq(Q) /\ SubSeq(s, k + 1, Len(s)) \in Seq(Q)
      BY <2>1
    <2>5. QED
      BY <2>2, <2>3, <2>4, Zenon DEF a, b
  <1> HIDE DEF a, b
  <1>2. /\ FlattenSeq(a) \in Seq(S) /\ FlattenSeq(b) \in Seq(S)
        /\ FlattenSeq(a \o b) = FlattenSeq(a) \o FlattenSeq(b)
    BY <1>1, FlattenType, FlattenConcat
  <1>3. FlattenSeq(s) = FlattenSeq(a) \o FlattenSeq(b)
    BY <1>1, <1>2, Zenon
  <1>4. FlattenFirst(s, k) = FlattenSeq(a)
    BY Zenon DEF FlattenFirst, a
  <1>5. QED
    BY <1>2, <1>3, <1>4, Zenon

LEMMA FlattenTwo ==
  ASSUME NEW S, NEW s \in Seq(Seq(S)), Len(s) = 2
  PROVE  FlattenSeq(s) = s[1] \o s[2] /\ s[1] \in Seq(S) /\ s[2] \in Seq(S)
  <1>1. 0 \in 0 .. Len(s) - 1 /\ 1 \in 0 .. Len(s) - 1 /\ 1 = 0 + 1 /\ 2 = 1 + 1
    OBVIOUS
  <1>2. /\ s[1] \in Seq(S) /\ FlattenFirst(s, 1) = FlattenFirst(s, 0) \o s[1]
        /\ s[2] \in Seq(S) /\ FlattenFirst(s, 2) = FlattenFirst(s, 1) \o s[2]
    BY <1>1, FirstNext
  <1>3. << >> \o s[1] = s[1]
    BY <1>2, ConcatEmptySeq
  <1>4. FlattenFirst(s, 0) = << >>
    BY FirstNone
  <1>5. FlattenFirst(s, 2) = FlattenSeq(s)
    <2>1. FlattenFirst(s, Len(s)) = FlattenSeq(s)
      BY FirstAll
    <2>2. QED
      BY <2>1, Zenon
  <1>6. QED
    BY <1>2, <1>3, <1>4, <1>5, Zenon

LEMMA FlattenThree ==
  ASSUME NEW S, NEW s \in Seq(Seq(S)), Len(s) = 3
  PROVE  FlattenSeq(s) = (s[1] \o s[2]) \o s[3]
  <1>1. 0 \in 0 .. Len(s) - 1 /\ 1 \in 0 .. Len(s) - 1 /\ 2 \in 0 .. Len(s) - 1
        /\ 1 = 0 + 1 /\ 2 = 1 + 1 /\ 3 = 2 + 1
    OBVIOUS
  <1>2. /\ s[1] \in Seq(S) /\ FlattenFirst(s, 1) = FlattenFirst(s, 0) \o s[1]
        /\ s[2] \in Seq(S) /\ FlattenFirst(s, 2) = FlattenFirst(s, 1) \o s[2]
        /\ FlattenFirst(s, 3) = FlattenFirst(s, 2) \o s[3]
    <2>1. /\ s[1] \in Seq(S) /\ s[2] \in Seq(S)
          /\ FlattenFirst(s, 1) = FlattenFirst(s, 0) \o s[1]
          /\ FlattenFirst(s, 2) = FlattenFirst(s, 1) \o s[2]
      BY <1>1, FirstNext, ZenonT(20)
    <2>2. FlattenFirst(s, 3) = FlattenFirst(s, 2) \o s[3]
      BY <1>1, FirstNext, ZenonT(20)
    <2>3. QED
      BY <2>1, <2>2, Zenon
  <1>3. << >> \o s[1] = s[1]
    BY <1>2, ConcatEmptySeq
  <1>4. FlattenFirst(s, 0) = << >>
    BY FirstNone
  <1>5. FlattenFirst(s, 3) = FlattenSeq(s)
    <2>1. FlattenFirst(s, Len(s)) = FlattenSeq(s)
      BY FirstAll
    <2>2. QED
      BY <2>1, Zenon
  <1>6. QED
    BY <1>2, <1>3, <1>4, <1>5, Zenon

-----------------------------------------------------------------------------
(* Recursion over a rank *)

\* f is what the rule G defines, for all of D below rank n.
Follows(f, D, G, rank, n) == \A d \in D : rank[d] < n => f[d] = G[d][f]

\* f and g are the same below rank n.
Agree(f, g, D, rank, n) == \A d \in D : rank[d] < n => f[d] = g[d]

\* G looks at no more than the values of lower rank.
LooksDown(D, R, G, rank) ==
  \A d \in D : \A f, g \in [D -> R] :
    (\A e \in D : rank[e] < rank[d] => f[e] = g[e]) => G[d][f] = G[d][g]

\* A function that follows the rule up to a rank can be continued.
LEMMA FollowsNext ==
  ASSUME NEW D, NEW R, NEW rank \in [D -> Nat], NEW G \in [D -> [[D -> R] -> R]],
         LooksDown(D, R, G, rank), NEW n \in Nat, NEW f \in [D -> R],
         Follows(f, D, G, rank, n)
  PROVE  \E h \in [D -> R] : Follows(h, D, G, rank, n + 1)
  <1> DEFINE h == [d \in D |-> G[d][f]]
  <1>1. h \in [D -> R] /\ \A d \in D : h[d] = G[d][f]
    OBVIOUS
  <1> HIDE DEF h
  <1>2. ASSUME NEW d \in D, rank[d] < n + 1
        PROVE  G[d][f] = G[d][h]
    <2>1. ASSUME NEW e \in D, rank[e] < rank[d] PROVE f[e] = h[e]
      <3>1. rank[e] < n
        BY <1>2, <2>1
      <3>2. QED
        BY <1>1, <3>1 DEF Follows
    <2>2. QED
      BY <1>1, <2>1 DEF LooksDown
  <1>3. QED
    BY <1>1, <1>2 DEF Follows

LEMMA FollowsExists ==
  ASSUME NEW D, NEW R, R # {}, NEW rank \in [D -> Nat], NEW G \in [D -> [[D -> R] -> R]],
         LooksDown(D, R, G, rank), NEW n \in Nat
  PROVE  \E f \in [D -> R] : Follows(f, D, G, rank, n)
  <1> DEFINE Missing == {k \in Nat : ~ \E f \in [D -> R] : Follows(f, D, G, rank, k)}
  <1>1. 0 \notin Missing
    <2>1. PICK r \in R : TRUE
      OBVIOUS
    <2> DEFINE f == [d \in D |-> r]
    <2>2. f \in [D -> R]
      OBVIOUS
    <2>3. \A d \in D : ~(rank[d] < 0)
      OBVIOUS
    <2> HIDE DEF f
    <2>4. QED
      BY <2>2, <2>3 DEF Follows
  <1>2. ASSUME NEW k \in Nat, k \notin Missing
        PROVE  k + 1 \notin Missing
    BY <1>2, FollowsNext
  <1>3. Missing = {}
    <2> SUFFICES ASSUME Missing # {} PROVE FALSE
      OBVIOUS
    <2>1. PICK k \in Missing : \A m \in Missing : k <= m
      <3> Missing \in SUBSET Nat
        OBVIOUS
      <3> HIDE DEF Missing
      <3> QED
        BY LeastNatural
    <2>2. k \in Nat /\ k # 0
      BY <1>1
    <2>3. k - 1 \in Nat /\ k - 1 \notin Missing
      BY <2>1, <2>2
    <2>4. k - 1 + 1 \notin Missing
      BY <1>2, <2>3
    <2>5. QED
      BY <2>2, <2>4
  <1>4. QED
    BY <1>3

\* Two that follow it are the same.
LEMMA FollowsAgree ==
  ASSUME NEW D, NEW R, NEW rank \in [D -> Nat], NEW G \in [D -> [[D -> R] -> R]],
         LooksDown(D, R, G, rank), NEW n \in Nat,
         NEW f \in [D -> R], Follows(f, D, G, rank, n),
         NEW g \in [D -> R], Follows(g, D, G, rank, n)
  PROVE  Agree(f, g, D, rank, n)
  <1> DEFINE Bad == {k \in Nat : \E d \in D : rank[d] = k /\ k < n /\ f[d] # g[d]}
  <1>1. Bad = {}
    <2> SUFFICES ASSUME Bad # {} PROVE FALSE
      OBVIOUS
    <2>1. PICK k \in Bad : \A m \in Bad : k <= m
      <3> Bad \in SUBSET Nat
        OBVIOUS
      <3> HIDE DEF Bad
      <3> QED
        BY LeastNatural
    <2>2. PICK d \in D : rank[d] = k /\ k < n /\ f[d] # g[d]
      OBVIOUS
    <2>3. ASSUME NEW e \in D, rank[e] < rank[d] PROVE f[e] = g[e]
      <3>1. rank[e] \in Nat /\ rank[e] < n /\ rank[e] < k /\ k \in Nat
        BY <2>2, <2>3
      <3>2. rank[e] \notin Bad
        BY <2>1, <3>1
      <3>3. QED
        BY <3>1, <3>2
    <2>4. G[d][f] = G[d][g]
      BY <2>3 DEF LooksDown
    <2>5. f[d] = G[d][f] /\ g[d] = G[d][g]
      BY <2>2 DEF Follows
    <2>6. QED
      BY <2>2, <2>4, <2>5
  <1>2. ASSUME NEW d \in D, rank[d] < n PROVE f[d] = g[d]
    <2>1. rank[d] \in Nat /\ rank[d] \notin Bad
      BY <1>1
    <2>2. QED
      BY <1>2, <2>1
  <1>3. QED
    BY <1>2 DEF Agree

\* f is what the rule defines.
Solves(f, D, G) == f = [d \in D |-> G[d][f]]

\* A rule that looks down defines a function.
LEMMA Recursion ==
  ASSUME NEW D, NEW R, R # {}, NEW rank \in [D -> Nat], NEW G \in [D -> [[D -> R] -> R]],
         LooksDown(D, R, G, rank)
  PROVE  \E f \in [D -> R] : Solves(f, D, G)
  <1> DEFINE Upto(n) == CHOOSE f \in [D -> R] : Follows(f, D, G, rank, n)
             F == [d \in D |-> Upto(rank[d] + 1)[d]]
  <1>1. ASSUME NEW n \in Nat
        PROVE  Upto(n) \in [D -> R] /\ Follows(Upto(n), D, G, rank, n)
    <2>1. \E f \in [D -> R] : Follows(f, D, G, rank, n)
      BY FollowsExists
    <2>2. QED
      BY <2>1
  <1> HIDE DEF Upto
  <1>2. \A d \in D : F[d] = Upto(rank[d] + 1)[d] /\ rank[d] + 1 \in Nat
    OBVIOUS
  <1>3. F \in [D -> R]
    BY <1>1, <1>2
  <1> HIDE DEF F
  <1>4. ASSUME NEW d \in D PROVE F[d] = G[d][F]
    <2> DEFINE f == Upto(rank[d] + 1)
    <2>1. f \in [D -> R] /\ Follows(f, D, G, rank, rank[d] + 1) /\ F[d] = f[d]
      BY <1>1, <1>2
    <2>2. f[d] = G[d][f]
      BY <2>1 DEF Follows
    <2>3. ASSUME NEW e \in D, rank[e] < rank[d] PROVE f[e] = F[e]
      <3> DEFINE g == Upto(rank[e] + 1)
      <3>1. g \in [D -> R] /\ Follows(g, D, G, rank, rank[e] + 1) /\ F[e] = g[e]
        BY <1>1, <1>2
      <3>2. Follows(f, D, G, rank, rank[e] + 1)
        BY <2>1, <2>3 DEF Follows
      <3> DEFINE n == rank[e] + 1
      <3>3. n \in Nat /\ rank[e] < n
        OBVIOUS
      <3> HIDE DEF f, g
      <3>4. Follows(f, D, G, rank, n) /\ Follows(g, D, G, rank, n)
        BY <3>1, <3>2
      <3> HIDE DEF n
      <3>5. f \in [D -> R] /\ g \in [D -> R]
        BY <2>1, <3>1
      <3>6. Agree(f, g, D, rank, n)
        BY <3>3, <3>4, <3>5, FollowsAgree
      <3>7. QED
        BY <3>1, <3>3, <3>6 DEF Agree
    <2> HIDE DEF f
    <2>4. G[d][f] = G[d][F]
      BY <1>3, <2>1, <2>3 DEF LooksDown
    <2>5. QED
      BY <2>1, <2>2, <2>4
  <1>5. F = [d \in D |-> G[d][F]]
    <2>1. F = [d \in D |-> F[d]]
      BY <1>3
    <2>2. [d \in D |-> F[d]] = [d \in D |-> G[d][F]]
      BY <1>4
    <2>3. QED
      BY <2>1, <2>2
  <1>6. QED
    BY <1>3, <1>5 DEF Solves
=============================================================================
