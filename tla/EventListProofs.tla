--------------------------- MODULE EventListProofs ---------------------------
(***************************************************************************)
(* What the devices' proofs need of the event list, of sums and of folds.  *)
(* All three are recursions over data.  The facts follow by least          *)
(* counterexample: a set of naturals has a least element.                  *)
(***************************************************************************)
EXTENDS EventList, SequenceTheorems, FiniteSetTheorems, WellFoundedInduction, TLAPS

\* A set of naturals that has members has a least one.
LEMMA LeastNumber ==
  ASSUME NEW T \in SUBSET Nat, T # {}
  PROVE  \E n \in T : \A m \in T : n <= m
<1> DEFINE Below == {pair \in Nat \X Nat : pair[1] < pair[2]}
<1>1. IsWellFoundedOn(Below, Nat)
  BY NatLessThanWellFounded DEF OpToRel
<1>2. PICK n \in T : \A m \in T : <<m, n>> \notin Below
  <2> HIDE DEF Below
  <2> QED BY <1>1, WFMin
<1>3. ASSUME NEW m \in T PROVE n <= m
  <2>1. m \in Nat /\ n \in Nat
    OBVIOUS
  <2>2. <<m, n>> \in Nat \X Nat /\ <<m, n>>[1] = m /\ <<m, n>>[2] = n
    BY <2>1
  <2> QED BY <1>2, <2>1, <2>2
<1> QED BY <1>3

\* The least of two numbers.
LEMMA MinOfTwo ==
  ASSUME NEW a \in Int, NEW b \in Int
  PROVE  Min({a, b}) \in {a, b} /\ Min({a, b}) <= a /\ Min({a, b}) <= b
<1>1. \E x \in {a, b} : \A y \in {a, b} : x <= y
  OBVIOUS
<1> QED BY <1>1 DEF Min

\* The least of three numbers.
LEMMA MinOfThree ==
  ASSUME NEW a \in Int, NEW b \in Int, NEW c \in Int
  PROVE  /\ Min({a, b, c}) \in {a, b, c}
         /\ Min({a, b, c}) <= a /\ Min({a, b, c}) <= b /\ Min({a, b, c}) <= c
<1>1. \E x \in {a, b, c} : \A y \in {a, b, c} : x <= y
  OBVIOUS
<1> QED BY <1>1 DEF Min

\* The greatest of two numbers.
LEMMA MaxOfTwo ==
  ASSUME NEW a \in Int, NEW b \in Int
  PROVE  Max({a, b}) \in {a, b} /\ Max({a, b}) >= a /\ Max({a, b}) >= b
<1>1. \E x \in {a, b} : \A y \in {a, b} : x >= y
  OBVIOUS
<1> QED BY <1>1 DEF Max

\* The least of a set of numbers.
LEMMA MinOfNumbers ==
  ASSUME NEW s \in SUBSET Nat, s # {}
  PROVE  Min(s) \in s /\ \A y \in s : Min(s) <= y
<1>1. \E x \in s : \A y \in s : x <= y
  BY LeastNumber
<1> QED BY <1>1 DEF Min

\* The greatest of a set of numbers.
LEMMA MaxOfNumbers ==
  ASSUME NEW n \in Nat, NEW s \in SUBSET (0..n), s # {}
  PROVE  Max(s) \in s /\ \A y \in s : Max(s) >= y
<1>1. \A y \in s : y \in Int /\ n - y \in Nat
  OBVIOUS
<1> DEFINE Distances == {n - i : i \in s}
<1>2. Distances \in SUBSET Nat /\ Distances # {}
  BY <1>1
<1>3. PICK d \in Distances : \A e \in Distances : d <= e
  <2> HIDE DEF Distances
  <2> QED BY <1>2, LeastNumber
<1>4. PICK x \in s : d = n - x
  OBVIOUS
<1>5. \A y \in s : n - x <= n - y
  BY <1>3, <1>4
<1> HIDE DEF Distances
<1>6. ASSUME NEW y \in s PROVE x >= y
  BY <1>1, <1>5
<1> QED BY <1>4, <1>6 DEF Max

-----------------------------------------------------------------------------
(* Folds over a finite set: `pick' chooses what is taken out, and `step'    *)
(* combines it with the fold of the rest.                                  *)

\* The first step of a fold over a finite set takes one element out.
LEMMA FoldSets ==
  ASSUME NEW S, IsFiniteSet(S), NEW s \in SUBSET S
  PROVE  /\ IsFiniteSet(s) /\ Cardinality(s) \in Nat
         /\ Cardinality(s) = 0 <=> s = {}
         /\ \A x \in s : s \ {x} \in SUBSET S /\ Cardinality(s \ {x}) = Cardinality(s) - 1
<1>1. IsFiniteSet(s)
  BY FS_Subset
<1>2. ASSUME NEW x \in s PROVE Cardinality(s \ {x}) = Cardinality(s) - 1
  BY <1>1, FS_RemoveElement
<1> QED BY <1>1, <1>2, FS_CardinalityType, FS_EmptySet

Folded(S, V, base, pick, step, g) ==
  /\ g \in [SUBSET S -> V]
  /\ g[{}] = base
  /\ \A s \in SUBSET S : s # {} => g[s] = step[<<pick[s], g[s \ {pick[s]}]>>]

\* A fold over a finite set is defined, whatever is taken out first.
LEMMA FoldExists ==
  ASSUME NEW S, IsFiniteSet(S), NEW V, NEW base \in V,
         NEW pick, \A s \in SUBSET S : s # {} => pick[s] \in s,
         NEW step, \A x \in S : \A v \in V : step[<<x, v>>] \in V
  PROVE  \E g : Folded(S, V, base, pick, step, g)
<1> DEFINE Small(k) == {s \in SUBSET S : Cardinality(s) <= k}
           Partial(k, g) ==
             /\ g \in [Small(k) -> V]
             /\ g[{}] = base
             /\ \A s \in Small(k) : s # {} => g[s] = step[<<pick[s], g[s \ {pick[s]}]>>]
           Missing == {k \in Nat : \A g : ~ Partial(k, g)}
<1>1. {} \in SUBSET S /\ Cardinality({}) = 0
  BY FoldSets
<1>2. Small(0) = {{}}
  BY <1>1, FoldSets
<1>3. Partial(0, [s \in Small(0) |-> base])
  BY <1>2
<1>4. ASSUME NEW k \in Nat, NEW g, Partial(k, g) PROVE \E h : Partial(k + 1, h)
  <2> DEFINE h == [s \in Small(k + 1) |->
                     IF s = {} THEN base ELSE step[<<pick[s], g[s \ {pick[s]}]>>]]
  <2>1. ASSUME NEW s \in Small(k + 1), s # {}
        PROVE  /\ pick[s] \in S /\ s \ {pick[s]} \in Small(k)
    <3>1. pick[s] \in s /\ s \ {pick[s]} \in SUBSET S
          /\ Cardinality(s \ {pick[s]}) = Cardinality(s) - 1 /\ Cardinality(s) \in Nat
      BY <2>1, FoldSets
    <3> QED BY <3>1
  <2>2. \A s \in Small(k) : g[s] \in V
    BY <1>4
  <2>3. h \in [Small(k + 1) -> V]
    BY <2>1, <2>2
  <2>4. \A s \in Small(k) : s \in Small(k + 1)
    <3> TAKE s \in Small(k)
    <3>1. Cardinality(s) \in Nat
      BY FoldSets
    <3> QED BY <3>1
  <2>5. \A s \in Small(k) : h[s] = g[s]
    BY <1>4, <2>4
  <2>6. {} \in Small(k) /\ {} \in Small(k + 1)
    BY <1>1
  <2>7. Partial(k + 1, h)
    <3> HIDE DEF Small
    <3> QED BY <2>1, <2>3, <2>5, <2>6
  <2> QED BY <2>7
<1>5. Missing = {}
  <2> SUFFICES ASSUME Missing # {} PROVE FALSE
    OBVIOUS
  <2>1. PICK k \in Missing : \A m \in Missing : k <= m
    <3>1. Missing \in SUBSET Nat
      OBVIOUS
    <3> HIDE DEF Missing
    <3> QED BY <3>1, LeastNumber
  <2>2. k \in Nat /\ k # 0
    <3> HIDE DEF Small, Partial
    <3> QED BY <1>3
  <2>3. k - 1 \in Nat /\ k - 1 \notin Missing
    <3> HIDE DEF Missing
    <3> QED BY <2>1, <2>2
  <2>4. PICK g : Partial(k - 1, g)
    BY <2>3
  <2>5. \E h : Partial(k - 1 + 1, h)
    <3> HIDE DEF Partial
    <3> QED BY <2>3, <2>4, <1>4
  <2>6. k - 1 + 1 = k
    BY <2>2
  <2> HIDE DEF Partial
  <2> QED BY <2>1, <2>5, <2>6
<1> DEFINE n == Cardinality(S)
<1>6. n \in Nat
  BY FS_CardinalityType
<1>7. Small(n) = SUBSET S
  <2> SUFFICES ASSUME NEW s \in SUBSET S PROVE Cardinality(s) <= n
    OBVIOUS
  <2> QED BY FS_Subset
<1>8. PICK g : Partial(n, g)
  <2> HIDE DEF Partial
  <2> QED BY <1>5, <1>6
<1> QED BY <1>7, <1>8 DEF Folded

\* A fold whose steps stay in V is in V.
LEMMA FoldTyped ==
  ASSUME NEW S, IsFiniteSet(S), NEW V,
         NEW pick, \A s \in SUBSET S : s # {} => pick[s] \in s,
         NEW h, h[{}] \in V,
         \A s \in SUBSET S : s # {} /\ h[s \ {pick[s]}] \in V => h[s] \in V
  PROVE  \A s \in SUBSET S : h[s] \in V
<1> DEFINE Bad == {s \in SUBSET S : h[s] \notin V}
           Sizes == {Cardinality(s) : s \in Bad}
<1> SUFFICES ASSUME Bad # {} PROVE FALSE
  OBVIOUS
<1>1. PICK n \in Sizes : \A m \in Sizes : n <= m
  <2>1. Sizes \in SUBSET Nat /\ Sizes # {}
    BY FoldSets
  <2> HIDE DEF Sizes
  <2> QED BY <2>1, LeastNumber
<1>2. PICK s \in Bad : n = Cardinality(s)
  OBVIOUS
<1>3. s # {} /\ pick[s] \in s
  OBVIOUS
<1>4. s \ {pick[s]} \in SUBSET S /\ Cardinality(s \ {pick[s]}) = n - 1 /\ n \in Nat
  BY <1>2, <1>3, FoldSets
<1>5. s \ {pick[s]} \in Bad
  BY <1>3, <1>4
<1> QED BY <1>1, <1>4, <1>5

\* What FlattenSeq has put together after each of the sequences.
Flattened(S, seqs, n, F) ==
  /\ F[0] = <<>> /\ \A i \in 0..n : F[i] \in Seq(S)
  /\ \A i \in 1..n : F[i] = F[i - 1] \o seqs[i]

\* FlattenSeq puts the sequences together one after another.
LEMMA FlattenSteps ==
  ASSUME NEW S, NEW seqs \in Seq(Seq(S)), Len(seqs) > 0
  PROVE  \E F : Flattened(S, seqs, Len(seqs), F) /\ FlattenSeq(seqs) = F[Len(seqs)]
<1> DEFINE n == Len(seqs)
           D == 1..n
           V == Seq(S)
           pick == [s \in SUBSET D |-> Max(s)]
           step == [e \in D \X V |-> e[2] \o seqs[e[1]]]
           Flat(h) == [i \in 1..n |-> IF i = 1 THEN seqs[i] ELSE h[i - 1] \o seqs[i]]
           flat == CHOOSE h : h = Flat(h)
<1>1. FlattenSeq(seqs) = flat[n]
  <2>1. Len(seqs) # 0
    BY LenProperties
  <2>2. FlattenSeq(seqs) =
          LET flatten[i \in 1 .. Len(seqs)] ==
                IF i = 1 THEN seqs[i] ELSE flatten[i - 1] \o seqs[i]
          IN  flatten[Len(seqs)]
    BY <2>1, Zenon DEF FlattenSeq
  <2> QED BY <2>2, Zenon
<1>2. n \in Nat /\ n > 0 /\ \A i \in D : seqs[i] \in V
  BY LenProperties, ElementOfSeq
<1>3. IsFiniteSet(D)
  <2>1. 1 \in Int /\ n \in Int
    BY <1>2
  <2> QED BY <2>1, FS_Interval
<1>4. <<>> \in V
  BY EmptySeq
<1> HIDE DEF n
<1>5. ASSUME NEW s \in SUBSET D, s # {} PROVE Max(s) \in s /\ \A y \in s : Max(s) >= y
  <2>1. s \in SUBSET (0..n)
    BY <1>2
  <2> QED BY <2>1, <1>2, <1>5, MaxOfNumbers
<1>6. \A s \in SUBSET D : s # {} => pick[s] \in s
  BY <1>5
<1>7. \A x \in D : \A v \in V : step[<<x, v>>] = v \o seqs[x] /\ step[<<x, v>>] \in V
  <2> SUFFICES ASSUME NEW x \in D, NEW v \in V PROVE v \o seqs[x] \in V
    OBVIOUS
  <2> QED BY <1>2, ConcatProperties
<1> HIDE DEF D, V, pick, step
<1>8. PICK g : Folded(D, V, <<>>, pick, step, g)
  BY <1>3, <1>4, <1>6, <1>7, FoldExists
<1> DEFINE F == [k \in 0..n |-> g[1..k]]
<1>9. \A k \in 0..n : 1..k \in SUBSET D
  BY <1>2 DEF D
<1>10. \A k \in 0..n : F[k] \in V
  BY <1>8, <1>9 DEF Folded
<1>11. F[0] = <<>>
  <2>1. 1..0 = {} /\ 0 \in 0..n
    BY <1>2
  <2> QED BY <1>8, <2>1 DEF Folded
<1>12. ASSUME NEW k \in 1..n PROVE F[k] = F[k - 1] \o seqs[k]
  <2>1. k \in 0..n /\ k - 1 \in 0..n /\ k \in 1..k /\ (1..k) \ {k} = 1 .. k - 1 /\ k \in D
    BY <1>2 DEF D
  <2>2. 1..k \in SUBSET D /\ 1..k # {}
    BY <1>9, <2>1
  <2>3. pick[1..k] = k
    <3>1. Max(1..k) \in 1..k /\ \A y \in 1..k : Max(1..k) >= y
      BY <1>5, <2>2
    <3>2. Max(1..k) = k
      BY <3>1, <2>1
    <3> QED BY <3>2, <2>2 DEF pick
  <2>4. g[1..k] = step[<<k, g[1 .. k - 1]>>]
    BY <1>8, <2>1, <2>2, <2>3 DEF Folded
  <2>5. g[1 .. k - 1] \in V /\ F[k] = g[1..k] /\ F[k - 1] = g[1 .. k - 1]
    BY <1>10, <2>1
  <2> HIDE DEF F
  <2> QED BY <1>7, <2>1, <2>4, <2>5
<1> HIDE DEF F
<1> DEFINE h == [i \in 1..n |-> F[i]]
<1>13. h = Flat(h)
  <2>1. ASSUME NEW i \in 1..n PROVE F[i] = IF i = 1 THEN seqs[i] ELSE h[i - 1] \o seqs[i]
    <3>1. CASE i = 1
      <4>1. 1 \in 1..n /\ 1 - 1 = 0 /\ 1 \in D
        BY <1>2 DEF D
      <4>2. seqs[1] \in Seq(S)
        BY <1>2, <4>1 DEF V
      <4>3. <<>> \o seqs[1] = seqs[1]
        BY <4>2, ConcatEmptySeq
      <4>4. F[1] = F[0] \o seqs[1]
        BY <1>12, <4>1
      <4> QED BY <1>11, <3>1, <4>3, <4>4
    <3>2. CASE i # 1
      <4>1. i - 1 \in 1..n
        BY <1>2, <3>2
      <4> QED BY <1>12, <3>2, <4>1
    <3> QED BY <3>1, <3>2
  <2> QED BY <2>1
<1>14. flat = Flat(flat)
  <2> HIDE DEF Flat, h
  <2> QED BY <1>13
<1> HIDE DEF flat
<1>15. \A i \in 1..n : flat[i] = IF i = 1 THEN seqs[i] ELSE flat[i - 1] \o seqs[i]
  BY <1>14
<1> HIDE DEF Flat, h
<1> DEFINE Differ == {i \in 1..n : flat[i] # F[i]}
<1>16. Differ = {}
  <2> SUFFICES ASSUME Differ # {} PROVE FALSE
    OBVIOUS
  <2>1. PICK i \in Differ : \A j \in Differ : i <= j
    <3>1. Differ \in SUBSET Nat
      OBVIOUS
    <3> HIDE DEF Differ
    <3> QED BY <3>1, LeastNumber
  <2>2. i \in 1..n /\ flat[i] # F[i]
    OBVIOUS
  <2>3. CASE i = 1
    <3>1. 1 - 1 = 0 /\ 1 \in D
      BY <1>2 DEF D
    <3>2. seqs[1] \in Seq(S)
      BY <1>2, <3>1 DEF V
    <3>3. <<>> \o seqs[1] = seqs[1]
      BY <3>2, ConcatEmptySeq
    <3>4. F[1] = F[0] \o seqs[1]
      BY <1>12, <2>2, <2>3, <3>1
    <3> QED BY <1>11, <1>15, <2>2, <2>3, <3>3, <3>4
  <2>4. CASE i # 1
    <3>1. i - 1 \in 1..n /\ i - 1 < i
      BY <1>2, <2>2, <2>4
    <3>2. i - 1 \notin Differ
      <4> HIDE DEF Differ
      <4> QED BY <2>1, <2>2, <3>1
    <3> QED BY <1>12, <1>15, <2>2, <2>4, <3>1, <3>2
  <2> QED BY <2>3, <2>4
<1>17. n \in 1..n
  BY <1>2
<1>18. flat[n] = F[n]
  BY <1>16, <1>17
<1>19. Flattened(S, seqs, n, F)
  BY <1>10, <1>11, <1>12 DEF Flattened, V
<1> QED BY <1>1, <1>18, <1>19 DEF n

\* A sum of numbers of which one is not zero.
LEMMA NumberSum ==
  ASSUME NEW a \in Nat, NEW b \in Nat
  PROVE  a + b \in Nat /\ (a # 0 \/ b # 0 => a + b # 0)
OBVIOUS

\* Three numbers, in any order.
LEMMA AddThree ==
  ASSUME NEW a \in Nat, NEW b \in Nat, NEW c \in Nat
  PROVE  (a + b) + c = a + (b + c) /\ (a + b) + c = (a + c) + b
OBVIOUS

\* What FlattenSeq makes is empty only if all that it is given is.
LEMMA FlattenFacts ==
  ASSUME NEW S, NEW seqs \in Seq(Seq(S)), Len(seqs) > 0
  PROVE  /\ FlattenSeq(seqs) \in Seq(S)
         /\ \A i \in 1 .. Len(seqs) : seqs[i] # <<>> => FlattenSeq(seqs) # <<>>
<1> DEFINE n == Len(seqs)
<1>1. PICK F : Flattened(S, seqs, n, F) /\ FlattenSeq(seqs) = F[n]
  BY FlattenSteps
<1>2. n \in Nat /\ n > 0 /\ \A i \in 1..n : seqs[i] \in Seq(S)
  BY LenProperties, ElementOfSeq
<1> HIDE DEF n
<1>3. /\ \A i \in 0..n : F[i] \in Seq(S)
      /\ \A i \in 1..n : F[i] = F[i - 1] \o seqs[i]
  BY <1>1 DEF Flattened
<1>4. ASSUME NEW k \in 1..n
      PROVE  /\ k - 1 \in 0..n /\ Len(F[k]) = Len(F[k - 1]) + Len(seqs[k])
             /\ Len(F[k - 1]) \in Nat /\ Len(seqs[k]) \in Nat /\ Len(F[k]) \in Nat
  <2>1. k - 1 \in 0..n
    BY <1>2
  <2>2. F[k - 1] \in Seq(S) /\ seqs[k] \in Seq(S) /\ F[k] = F[k - 1] \o seqs[k]
    BY <1>2, <1>3, <2>1
  <2>3. Len(F[k - 1]) \in Nat /\ Len(seqs[k]) \in Nat
    BY <2>2, LenProperties
  <2>4. Len(F[k - 1] \o seqs[k]) = Len(F[k - 1]) + Len(seqs[k])
    BY <2>2, ConcatProperties
  <2>5. Len(F[k]) = Len(F[k - 1]) + Len(seqs[k])
    BY <2>2, <2>4
  <2>6. Len(F[k]) \in Nat
    BY <2>3, <2>5, NumberSum, Zenon
  <2> QED BY <2>1, <2>3, <2>5, <2>6
<1>5. ASSUME NEW i \in 1..n, seqs[i] # <<>> PROVE FlattenSeq(seqs) # <<>>
  <2> DEFINE Bad == {k \in i..n : Len(F[k]) = 0}
  <2>1. Bad = {}
    <3> SUFFICES ASSUME Bad # {} PROVE FALSE
      OBVIOUS
    <3>1. PICK k \in Bad : \A j \in Bad : k <= j
      <4>1. Bad \in SUBSET Nat
        OBVIOUS
      <4> HIDE DEF Bad
      <4> QED BY <4>1, LeastNumber
    <3>2. k \in i..n /\ k \in 1..n /\ Len(F[k]) = 0
      BY <1>2
    <3>3. CASE k = i
      <4>1. Len(seqs[i]) # 0
        BY <1>2, <1>5, EmptySeq
      <4>2. /\ Len(F[i]) = Len(F[i - 1]) + Len(seqs[i])
            /\ Len(F[i - 1]) \in Nat /\ Len(seqs[i]) \in Nat
        BY <1>4
      <4>3. Len(F[i]) # 0
        BY <4>1, <4>2, NumberSum, Zenon
      <4> QED BY <4>3, <3>2, <3>3
    <3>4. CASE k # i
      <4>1. k - 1 \in i..n /\ k - 1 < k
        BY <1>2, <3>2, <3>4
      <4>2. k - 1 \notin Bad
        <5> HIDE DEF Bad
        <5> QED BY <3>1, <3>2, <4>1
      <4>3. Len(F[k - 1]) # 0
        BY <4>1, <4>2
      <4>4. /\ Len(F[k]) = Len(F[k - 1]) + Len(seqs[k])
            /\ Len(F[k - 1]) \in Nat /\ Len(seqs[k]) \in Nat
        BY <3>2, <1>4
      <4> QED BY <4>3, <4>4, <3>2, NumberSum, Zenon
    <3> QED BY <3>3, <3>4
  <2>2. n \in i..n
    BY <1>2
  <2>3. Len(F[n]) # 0
    BY <2>1, <2>2
  <2>4. Len(<<>>) = 0
    OBVIOUS
  <2> QED BY <1>1, <2>3, <2>4 DEF n
<1>6. n \in 0..n
  BY <1>2
<1> QED BY <1>1, <1>3, <1>5, <1>6 DEF n

-----------------------------------------------------------------------------
(* The event list.                                                         *)

Sorted(list) == \A i, j \in DOMAIN list : i <= j => list[i].in <= list[j].in
Timed(list) == \A i \in DOMAIN list : list[i].in \in Nat

\* Where an element of the list with an insertion at k was before.
Before(i, k) == IF i < k THEN i ELSE i - 1
After(i, k) == IF i < k THEN i ELSE i + 1

\* `new' is `old' with `event' put at k, after every event that is not later.
Inserted(new, old, k, event) ==
  /\ k \in 1 .. Len(old) + 1
  /\ Len(new) = Len(old) + 1
  /\ new[k] = event
  /\ \A i \in 1 .. Len(old) + 1 :
       i # k => Before(i, k) \in 1 .. Len(old) /\ new[i] = old[Before(i, k)]
  /\ \A i \in 1 .. Len(old) : i < k <=> old[i].in <= event.in

\* A set of numbers up to n that contains every number below one of its own
\* is an interval.
LEMMA InitialSegment ==
  ASSUME NEW n \in Nat, NEW S \in SUBSET (1..n),
         \A i \in S : \A j \in 1..n : j <= i => j \in S
  PROVE  \E m \in 0..n : S = 1..m
<1> DEFINE Missing == {i \in 1 .. n + 1 : i \notin S}
<1>1. Missing \subseteq Nat /\ n + 1 \in Missing
  OBVIOUS
<1>2. PICK first \in Missing : \A i \in Missing : first <= i
  <2> HIDE DEF Missing
  <2> QED BY <1>1, LeastNumber
<1>4. ASSUME NEW i \in Missing PROVE ~ (i < first)
  BY <1>1, <1>2, <1>4
<1>5. first \in 1 .. n + 1 /\ first \notin S
  OBVIOUS
<1>6. \A i \in 1..n : i < first => i \in S
  BY <1>4
<1>7. \A i \in S : i < first
  <2> SUFFICES ASSUME NEW i \in S, ~ (i < first) PROVE FALSE
    OBVIOUS
  <2>1. i \in 1..n /\ first \in 1..n /\ first <= i
    BY <1>5
  <2> QED BY <2>1, <1>5
<1>8. S = 1 .. first - 1
  <2> HIDE DEF Missing
  <2>1. first \in Int /\ 1 <= first /\ first <= n + 1
    BY <1>5
  <2>2. ASSUME NEW i \in 1 .. first - 1 PROVE i \in 1..n /\ i < first
    BY <2>1
  <2>3. ASSUME NEW i \in 1..n, i < first PROVE i \in 1 .. first - 1
    BY <2>1, <2>3
  <2> QED BY <2>2, <2>3, <1>6, <1>7
<1> QED BY <1>5, <1>8

\* InsertAt counts positions from one.
LEMMA InsertAtFacts ==
  ASSUME NEW s, NEW e, NEW m \in Int
  PROVE  InsertAt(s, m + 1, e) = SubSeq(s, 1, m) \o <<e>> \o SubSeq(s, m + 1, Len(s))
<1> DEFINE k == m + 1
<1>1. k - 1 = m
  OBVIOUS
<1>2. InsertAt(s, k, e) = SubSeq(s, 1, k - 1) \o <<e>> \o SubSeq(s, k, Len(s))
  BY Zenon DEF InsertAt
<1> HIDE DEF k
<1>3. SubSeq(s, 1, k - 1) = SubSeq(s, 1, m)
  BY <1>1
<1>4. InsertAt(s, k, e) = SubSeq(s, 1, m) \o <<e>> \o SubSeq(s, k, Len(s))
  BY <1>2, <1>3
<1> QED BY <1>4 DEF k

\* Simulator::Schedule inserts behind every event that is not later.
LEMMA ScheduleInserts ==
  ASSUME NEW S, NEW list \in Seq(S), NEW event \in S,
         Timed(list), Sorted(list), event.in \in Nat
  PROVE  /\ Schedule(list, event) \in Seq(S)
         /\ \E k \in Nat : Inserted(Schedule(list, event), list, k, event)
<1> DEFINE n == Len(list)
           NotLater == {i \in DOMAIN list : list[i].in <= event.in}
<1>1. n \in Nat /\ DOMAIN list = 1..n
  BY LenProperties
<1>2. PICK m \in 0..n : NotLater = 1..m
  <2>1. NotLater \in SUBSET (1..n)
    BY <1>1
  <2>2. \A i \in NotLater : \A j \in 1..n : j <= i => j \in NotLater
    BY <1>1 DEF Sorted, Timed
  <2> HIDE DEF NotLater, n
  <2> QED BY <1>1, <2>1, <2>2, InitialSegment
<1>3. Cardinality(NotLater) = m
  <2>1. m \in Int /\ 1 \in Int /\ (1 > m => m = 0) /\ m - 1 + 1 = m
    BY <1>1, <1>2
  <2>2. Cardinality(1..m) = IF 1 > m THEN 0 ELSE m - 1 + 1
    BY <2>1, FS_Interval
  <2> HIDE DEF NotLater
  <2> QED BY <1>2, <2>1, <2>2
<1> DEFINE left == SubSeq(list, 1, m)
           right == SubSeq(list, m + 1, n)
<1>4. Schedule(list, event) = left \o <<event>> \o right
  <2>1. Schedule(list, event) = InsertAt(list, Cardinality(NotLater) + 1, event)
    BY Zenon DEF Schedule
  <2>2. m \in Int
    BY <1>2
  <2> HIDE DEF NotLater
  <2> QED BY <1>3, <2>1, <2>2, InsertAtFacts
<1>5. /\ left \in Seq(S) /\ Len(left) = m
      /\ \A i \in 1..m : left[i] = list[i]
  <2>1. \A i \in 1..m : list[i] \in S
    BY <1>1, <1>2, ElementOfSeq
  <2>2. m \in Int /\ 1 \in Int
    BY <1>1, <1>2
  <2>3. /\ left \in Seq(S)
        /\ Len(left) = IF 1 <= m THEN m - 1 + 1 ELSE 0
        /\ \A i \in 1 .. m - 1 + 1 : left[i] = list[1 + i - 1]
    BY <2>1, <2>2, SubSeqProperties
  <2> HIDE DEF left
  <2> QED BY <2>3, <2>2, <1>1, <1>2
<1>6. /\ right \in Seq(S) /\ Len(right) = n - m
      /\ \A i \in 1 .. n - m : right[i] = list[m + i]
  <2>1. m + 1 \in Int /\ n \in Int /\ \A i \in m + 1 .. n : list[i] \in S
    BY <1>1, <1>2, ElementOfSeq
  <2>2. /\ right \in Seq(S)
        /\ Len(right) = IF m + 1 <= n THEN n - (m + 1) + 1 ELSE 0
        /\ \A i \in 1 .. n - (m + 1) + 1 : right[i] = list[m + 1 + i - 1]
    BY <2>1, SubSeqProperties
  <2> HIDE DEF right, n
  <2> QED BY <2>2, <2>1, <1>1, <1>2
<1>7. <<event>> \in Seq(S) /\ Len(<<event>>) = 1 /\ <<event>>[1] = event
  OBVIOUS
<1> HIDE DEF left, right
<1> DEFINE upTo == left \o <<event>>
<1>8. /\ upTo \in Seq(S) /\ Len(upTo) = m + 1
      /\ \A i \in 1..m : upTo[i] = list[i]
      /\ upTo[m + 1] = event
  BY <1>5, <1>7, <1>2, ConcatProperties
<1> HIDE DEF upTo
<1>9. /\ upTo \o right \in Seq(S) /\ Len(upTo \o right) = n + 1
      /\ \A i \in 1 .. m + 1 : (upTo \o right)[i] = upTo[i]
      /\ \A i \in m + 2 .. n + 1 : (upTo \o right)[i] = list[i - 1]
  <2>1. /\ upTo \o right \in Seq(S) /\ Len(upTo \o right) = Len(upTo) + Len(right)
        /\ \A i \in 1 .. Len(upTo) + Len(right) :
             (upTo \o right)[i] = IF i <= Len(upTo) THEN upTo[i] ELSE right[i - Len(upTo)]
    BY <1>6, <1>8, ConcatProperties
  <2>2. \A i \in m + 2 .. n + 1 : (upTo \o right)[i] = right[i - (m + 1)]
    BY <2>1, <1>8, <1>6, <1>1, <1>2
  <2>3. \A i \in m + 2 .. n + 1 : right[i - (m + 1)] = list[m + (i - (m + 1))]
    BY <1>6, <1>1, <1>2
  <2> QED BY <2>1, <2>2, <2>3, <1>8, <1>6, <1>1, <1>2
<1>10. Schedule(list, event) = upTo \o right
  BY <1>4 DEF upTo
<1>11. \A i \in 1..n : i < m + 1 <=> list[i].in <= event.in
  BY <1>1, <1>2
<1>12. Inserted(Schedule(list, event), list, m + 1, event)
  <2> HIDE DEF n
  <2>1. \A i \in 1 .. n + 1 : i # m + 1 =>
          Before(i, m + 1) \in 1..n /\ (upTo \o right)[i] = list[Before(i, m + 1)]
    BY <1>1, <1>2, <1>8, <1>9 DEF Before
  <2> QED BY <2>1, <1>1, <1>2, <1>8, <1>9, <1>10, <1>11 DEF Inserted, n
<1> QED BY <1>9, <1>10, <1>12, <1>2

\* Schedule keeps the event list in the order of time.
LEMMA InsertInOrder ==
  ASSUME NEW S, NEW old \in Seq(S), NEW new \in Seq(S), NEW event \in S, NEW k \in Nat,
         Timed(old), Sorted(old), event.in \in Nat, Inserted(new, old, k, event)
  PROVE  Sorted(new) /\ Timed(new)
<1>1. /\ Len(old) \in Nat /\ DOMAIN old = 1 .. Len(old)
      /\ DOMAIN new = 1 .. Len(old) + 1
  BY LenProperties DEF Inserted
<1>2. ASSUME NEW i \in DOMAIN new
      PROVE  /\ i # k => Before(i, k) \in DOMAIN old /\ new[i] = old[Before(i, k)]
             /\ new[k] = event
             /\ new[i].in \in Nat
  BY <1>1 DEF Inserted, Timed
<1>3. Timed(new)
  BY <1>2 DEF Timed
<1>4. SUFFICES ASSUME NEW i \in DOMAIN new, NEW j \in DOMAIN new, i <= j
               PROVE  new[i].in <= new[j].in
  BY <1>3 DEF Sorted
<1>5. \A m \in DOMAIN old : m < k <=> old[m].in <= event.in
  BY <1>1 DEF Inserted
<1>6. new[i].in \in Nat /\ new[j].in \in Nat /\ i \in Nat /\ j \in Nat
  BY <1>1, <1>2
<1>7. CASE i # k /\ j # k
  <2>1. Before(i, k) \in DOMAIN old /\ Before(j, k) \in DOMAIN old
        /\ new[i] = old[Before(i, k)] /\ new[j] = old[Before(j, k)]
    BY <1>2, <1>7
  <2>2. Before(i, k) <= Before(j, k)
    BY <1>4, <1>6, <1>7 DEF Before
  <2> QED BY <2>1, <2>2 DEF Sorted
<1>8. CASE i = k /\ j # k
  BY <1>1, <1>2, <1>4, <1>5, <1>6, <1>8 DEF Before, Timed
<1>9. CASE i # k /\ j = k
  BY <1>1, <1>2, <1>4, <1>5, <1>6, <1>9 DEF Before, Timed
<1> QED BY <1>6, <1>7, <1>8, <1>9

\* Where the elements are after an insertion.
LEMMA InsertMap ==
  ASSUME NEW old, NEW new, NEW event, NEW k, Len(old) \in Nat, Inserted(new, old, k, event)
  PROVE  /\ k \in 1 .. Len(new) /\ Len(new) = Len(old) + 1 /\ new[k] = event
         /\ \A i \in 1 .. Len(old) :
              /\ After(i, k) \in 1 .. Len(new) /\ After(i, k) # k
              /\ new[After(i, k)] = old[i]
              /\ After(i, k) < k <=> old[i].in <= event.in
         /\ \A i, j \in 1 .. Len(old) : i < j <=> After(i, k) < After(j, k)
         /\ \A p \in 1 .. Len(new) : p = k \/ \E i \in 1 .. Len(old) : p = After(i, k)
<1> DEFINE n == Len(old)
<1>1. /\ n \in Nat /\ k \in 1 .. n + 1 /\ Len(new) = n + 1 /\ new[k] = event
      /\ \A i \in 1 .. n + 1 : i # k => Before(i, k) \in 1..n /\ new[i] = old[Before(i, k)]
      /\ \A i \in 1..n : i < k <=> old[i].in <= event.in
  BY DEF Inserted
<1> HIDE DEF n
<1>2. ASSUME NEW i \in 1..n
      PROVE  /\ After(i, k) \in 1 .. n + 1 /\ After(i, k) # k
             /\ Before(After(i, k), k) = i /\ (After(i, k) < k <=> i < k)
  BY <1>1 DEF After, Before
<1>3. \A i, j \in 1..n : i < j <=> After(i, k) < After(j, k)
  BY <1>1 DEF After
<1>4. ASSUME NEW p \in 1 .. n + 1, p # k PROVE \E i \in 1..n : p = After(i, k)
  <2>1. Before(p, k) \in 1..n /\ p = After(Before(p, k), k)
    BY <1>1, <1>4 DEF After, Before
  <2> QED BY <2>1
<1> QED BY <1>1, <1>2, <1>3, <1>4 DEF n

\* The lists that appear when events are scheduled one after another.
ScheduledOneByOne(S, list, events, acc) ==
  /\ acc[0] = list
  /\ \A k \in 0 .. Len(events) : acc[k] \in Seq(S) /\ Timed(acc[k]) /\ Sorted(acc[k])
  /\ \A k \in 1 .. Len(events) : \E p \in Nat : Inserted(acc[k], acc[k - 1], p, events[k])

\* ScheduleAll makes its insertions one after another.
LEMMA ScheduleAllSteps ==
  ASSUME NEW S, NEW list \in Seq(S), NEW events \in Seq(S),
         Timed(list), Sorted(list), Timed(events)
  PROVE  \E acc :
           /\ ScheduledOneByOne(S, list, events, acc)
           /\ ScheduleAll(list, events) = acc[Len(events)]
<1> DEFINE n == Len(events)
           D == 1..n
           V == {l \in Seq(S) : Timed(l) /\ Sorted(l)}
           Put(g) == [s \in SUBSET D |->
                        IF s = {} THEN list
                        ELSE Schedule(g[s \ {Max(s)}], events[Max(s)])]
           put == CHOOSE g : g = Put(g)
           pick == [s \in SUBSET D |-> Max(s)]
           step == [e \in D \X V |-> Schedule(e[2], events[e[1]])]
<1>1. ScheduleAll(list, events) = put[D]
  <2>1. DOMAIN events = D
    BY LenProperties
  <2>2. ScheduleAll(list, events) =
          LET iter[s \in SUBSET DOMAIN events] ==
                IF s = {} THEN list
                ELSE Schedule(iter[s \ {Max(s)}], events[Max(s)])
          IN  iter[DOMAIN events]
    BY Zenon DEF ScheduleAll, FoldLeft, MapThenFoldSet
  <2> QED BY <2>1, <2>2, Zenon
<1>2. n \in Nat /\ \A i \in D : events[i] \in S /\ events[i].in \in Nat
  BY LenProperties, ElementOfSeq DEF Timed
<1>3. IsFiniteSet(D)
  <2>1. 1 \in Int /\ n \in Int
    BY <1>2
  <2> QED BY <2>1, FS_Interval
<1>4. list \in V
  OBVIOUS
<1> HIDE DEF n
<1>5. ASSUME NEW s \in SUBSET D, s # {} PROVE Max(s) \in s /\ \A y \in s : Max(s) >= y
  <2>1. s \in SUBSET (0..n)
    BY <1>2 DEF D
  <2> QED BY <2>1, <1>2, <1>5, MaxOfNumbers
<1>6. \A s \in SUBSET D : s # {} => pick[s] \in s
  BY <1>5
<1>7. ASSUME NEW l \in V, NEW x \in D
      PROVE  /\ Schedule(l, events[x]) \in V
             /\ \E p \in Nat : Inserted(Schedule(l, events[x]), l, p, events[x])
  <2>1. events[x] \in S /\ events[x].in \in Nat
    BY <1>2
  <2>2. l \in Seq(S) /\ Timed(l) /\ Sorted(l)
    OBVIOUS
  <2>3. PICK p \in Nat : Inserted(Schedule(l, events[x]), l, p, events[x])
    BY <2>1, <2>2, ScheduleInserts
  <2>4. Schedule(l, events[x]) \in Seq(S)
    BY <2>1, <2>2, ScheduleInserts
  <2>5. Sorted(Schedule(l, events[x])) /\ Timed(Schedule(l, events[x]))
    BY <2>1, <2>2, <2>3, <2>4, InsertInOrder
  <2> QED BY <2>3, <2>4, <2>5
<1> HIDE DEF D, V
<1>8. \A x \in D : \A v \in V :
        step[<<x, v>>] = Schedule(v, events[x]) /\ step[<<x, v>>] \in V
  BY <1>7
<1> HIDE DEF pick, step
<1>9. PICK g : Folded(D, V, list, pick, step, g)
  BY <1>3, <1>4, <1>6, <1>8, FoldExists
<1>10. g = Put(g)
  <2>1. ASSUME NEW s \in SUBSET D, s # {}
        PROVE  g[s] = Schedule(g[s \ {Max(s)}], events[Max(s)])
    <3>1. pick[s] \in D /\ g[s \ {pick[s]}] \in V
      BY <1>6, <1>9, <2>1 DEF Folded
    <3>2. g[s] = Schedule(g[s \ {pick[s]}], events[pick[s]])
      BY <1>8, <1>9, <2>1, <3>1 DEF Folded
    <3> QED BY <3>2 DEF pick
  <2>2. DOMAIN g = SUBSET D /\ g[{}] = list /\ g = [s \in SUBSET D |-> g[s]]
    BY <1>9 DEF Folded
  <2> QED BY <2>1, <2>2
<1>11. put = Put(put)
  <2> HIDE DEF Put
  <2> QED BY <1>10
<1> HIDE DEF put
<1>12. /\ put[{}] = list
       /\ \A s \in SUBSET D : s # {} =>
            put[s] = Schedule(put[s \ {Max(s)}], events[Max(s)])
  BY <1>11
<1> HIDE DEF Put
<1>13. \A s \in SUBSET D : put[s] \in V
  <2>1. ASSUME NEW s \in SUBSET D, s # {}, put[s \ {pick[s]}] \in V PROVE put[s] \in V
    <3>1. pick[s] \in D /\ pick[s] = Max(s)
      BY <2>1, <1>6 DEF pick
    <3>2. put[s] = Schedule(put[s \ {pick[s]}], events[pick[s]])
      BY <2>1, <3>1, <1>12
    <3> QED BY <2>1, <3>1, <3>2, <1>7
  <2>2. put[{}] \in V
    BY <1>4, <1>12
  <2> QED BY <1>3, <1>6, <2>1, <2>2, FoldTyped
<1> DEFINE acc == [k \in 0..n |-> put[1..k]]
<1>14. \A k \in 0..n : 1..k \in SUBSET D
  BY <1>2 DEF D
<1>15. \A k \in 0..n : acc[k] \in V
  BY <1>13, <1>14
<1>16. acc[0] = list
  <2>1. 1..0 = {} /\ 0 \in 0..n
    BY <1>2
  <2> QED BY <1>12, <2>1
<1>17. ASSUME NEW k \in 1..n
       PROVE  \E p \in Nat : Inserted(acc[k], acc[k - 1], p, events[k])
  <2>1. k \in 0..n /\ k - 1 \in 0..n /\ k \in 1..k /\ (1..k) \ {k} = 1 .. k - 1 /\ k \in D
    BY <1>2 DEF D
  <2>2. Max(1..k) = k
    <3>1. Max(1..k) \in 1..k /\ \A y \in 1..k : Max(1..k) >= y
      BY <1>5, <1>14, <2>1
    <3> QED BY <3>1, <2>1
  <2>3. acc[k] = Schedule(acc[k - 1], events[k])
    <3>1. 1..k \in SUBSET D /\ 1..k # {}
      BY <1>14, <2>1
    <3>2. put[1..k] = Schedule(put[(1..k) \ {Max(1..k)}], events[Max(1..k)])
      BY <1>12, <3>1
    <3> QED BY <3>2, <2>1, <2>2
  <2>4. acc[k - 1] \in V
    BY <1>15, <2>1
  <2> HIDE DEF acc
  <2> QED BY <2>1, <2>3, <2>4, <1>7
<1>18. acc[n] = put[D]
  BY <1>2 DEF D
<1> HIDE DEF acc
<1> QED BY <1>1, <1>15, <1>16, <1>17, <1>18 DEF V, n, ScheduledOneByOne

\* `new' is `old' with the first m of `events' in it: `a' says where the
\* elements of the old list are, and `b' where the events are.
Merged(new, old, events, m, a, b) ==
  /\ Len(new) = Len(old) + m
  /\ \A i \in 1 .. Len(old) : a[i] \in 1 .. Len(new) /\ new[a[i]] = old[i]
  /\ \A j \in 1..m : b[j] \in 1 .. Len(new) /\ new[b[j]] = events[j]
  /\ \A p \in 1 .. Len(new) :
       (\E i \in 1 .. Len(old) : p = a[i]) \/ (\E j \in 1..m : p = b[j])
  /\ \A i, j \in 1 .. Len(old) : i < j => a[i] < a[j]
  /\ \A i \in 1 .. Len(old), j \in 1..m :
       a[i] # b[j] /\ (a[i] < b[j] <=> old[i].in <= events[j].in)
  /\ \A i, j \in 1..m : i < j => b[i] # b[j] /\ (b[i] < b[j] <=> events[i].in <= events[j].in)

\* An event more.
LEMMA MergeOneMore ==
  ASSUME NEW old, NEW mid, NEW new, NEW events, NEW m \in Nat, NEW a, NEW b, NEW p,
         Len(old) \in Nat, Merged(mid, old, events, m, a, b),
         Inserted(new, mid, p, events[m + 1])
  PROVE  \E c, d : Merged(new, old, events, m + 1, c, d)
<1> DEFINE n == Len(old)
           l == Len(mid)
           c == [i \in 1..n |-> After(a[i], p)]
           d == [j \in 1 .. m + 1 |-> IF j = m + 1 THEN p ELSE After(b[j], p)]
<1>1. /\ n \in Nat /\ l = n + m /\ l \in Nat
      /\ \A i \in 1..n : a[i] \in 1..l /\ mid[a[i]] = old[i]
      /\ \A j \in 1..m : b[j] \in 1..l /\ mid[b[j]] = events[j]
      /\ \A q \in 1..l : (\E i \in 1..n : q = a[i]) \/ (\E j \in 1..m : q = b[j])
      /\ \A i, j \in 1..n : i < j => a[i] < a[j]
      /\ \A i \in 1..n, j \in 1..m :
           a[i] # b[j] /\ (a[i] < b[j] <=> old[i].in <= events[j].in)
      /\ \A i, j \in 1..m : i < j => b[i] # b[j] /\ (b[i] < b[j] <=> events[i].in <= events[j].in)
  BY DEF Merged
<1> DEFINE e == events[m + 1]
<1> HIDE DEF n, e
<1>2. /\ p \in 1 .. l + 1 /\ Len(new) = l + 1 /\ new[p] = e
      /\ \A i \in 1..l :
           /\ After(i, p) \in 1 .. l + 1 /\ After(i, p) # p
           /\ new[After(i, p)] = mid[i]
           /\ After(i, p) < p <=> mid[i].in <= e.in
      /\ \A i, j \in 1..l : i < j <=> After(i, p) < After(j, p)
      /\ \A q \in 1 .. l + 1 : q = p \/ \E i \in 1..l : q = After(i, p)
  <2>1. Inserted(new, mid, p, e) /\ Len(mid) \in Nat
    BY <1>1 DEF e
  <2>2. /\ p \in 1 .. Len(new) /\ Len(new) = l + 1 /\ new[p] = e
        /\ \A i \in 1..l :
             /\ After(i, p) \in 1 .. Len(new) /\ After(i, p) # p
             /\ new[After(i, p)] = mid[i]
             /\ After(i, p) < p <=> mid[i].in <= e.in
        /\ \A i, j \in 1..l : i < j <=> After(i, p) < After(j, p)
        /\ \A q \in 1 .. Len(new) : q = p \/ \E i \in 1..l : q = After(i, p)
    BY <2>1, InsertMap
  <2> QED BY <2>2
<1> HIDE DEF l
<1>3. \A i \in 1..n : c[i] = After(a[i], p)
  OBVIOUS
<1>4. \A j \in 1..m : j \in 1 .. m + 1 /\ d[j] = After(b[j], p)
  OBVIOUS
<1>5. d[m + 1] = p /\ m + 1 \in 1 .. m + 1
  OBVIOUS
<1>6. \A j \in 1 .. m + 1 : j = m + 1 \/ j \in 1..m
  OBVIOUS
<1> HIDE DEF c, d
<1>7. Len(new) = n + (m + 1)
  BY <1>1, <1>2
<1>8. ASSUME NEW i \in 1..n PROVE c[i] \in 1 .. l + 1 /\ new[c[i]] = old[i]
  <2>1. a[i] \in 1..l /\ mid[a[i]] = old[i] /\ c[i] = After(a[i], p)
    BY <1>1, <1>3
  <2> QED BY <2>1, <1>2
<1>9. ASSUME NEW j \in 1 .. m + 1 PROVE d[j] \in 1 .. l + 1 /\ new[d[j]] = events[j]
  <2>1. CASE j = m + 1
    BY <1>2, <1>5, <2>1 DEF e
  <2>2. CASE j \in 1..m
    <3>1. b[j] \in 1..l /\ mid[b[j]] = events[j] /\ d[j] = After(b[j], p)
      BY <1>1, <1>4, <2>2
    <3> QED BY <3>1, <1>2
  <2> QED BY <1>6, <2>1, <2>2
<1>10. ASSUME NEW q \in 1 .. l + 1
       PROVE  (\E i \in 1..n : q = c[i]) \/ (\E j \in 1 .. m + 1 : q = d[j])
  <2>1. CASE q = p
    BY <1>5, <2>1
  <2>2. ASSUME NEW r \in 1..l, q = After(r, p)
        PROVE  (\E i \in 1..n : q = c[i]) \/ (\E j \in 1 .. m + 1 : q = d[j])
    <3>1. CASE \E i \in 1..n : r = a[i]
      BY <1>3, <2>2, <3>1
    <3>2. CASE \E j \in 1..m : r = b[j]
      BY <1>4, <2>2, <3>2
    <3> QED BY <1>1, <3>1, <3>2
  <2> QED BY <1>2, <2>1, <2>2
<1>11. ASSUME NEW i \in 1..n, NEW j \in 1..n, i < j PROVE c[i] < c[j]
  <2>1. a[i] \in 1..l /\ a[j] \in 1..l /\ a[i] < a[j]
    BY <1>1, <1>11
  <2>2. After(a[i], p) < After(a[j], p)
    BY <1>2, <2>1
  <2>3. c[i] = After(a[i], p) /\ c[j] = After(a[j], p)
    BY <1>3
  <2> QED BY <2>2, <2>3
<1>a. \A x, y \in 1..l : x # y => After(x, p) # After(y, p)
  <2> SUFFICES ASSUME NEW x \in 1..l, NEW y \in 1..l, x # y PROVE After(x, p) # After(y, p)
    OBVIOUS
  <2>1. x \in Nat /\ y \in Nat /\ p \in Nat
    BY <1>1, <1>2
  <2> QED BY <2>1 DEF After
<1>12. ASSUME NEW i \in 1..n, NEW j \in 1 .. m + 1
       PROVE  c[i] # d[j] /\ (c[i] < d[j] <=> old[i].in <= events[j].in)
  <2>1. CASE j = m + 1
    <3>1. a[i] \in 1..l /\ mid[a[i]] = old[i]
      BY <1>1
    <3>2. After(a[i], p) # p /\ (After(a[i], p) < p <=> mid[a[i]].in <= e.in)
      BY <1>2, <3>1
    <3> QED BY <1>3, <1>5, <2>1, <3>1, <3>2 DEF e
  <2>2. CASE j \in 1..m
    <3>1. /\ a[i] \in 1..l /\ b[j] \in 1..l /\ a[i] # b[j]
          /\ a[i] < b[j] <=> old[i].in <= events[j].in
      BY <1>1, <2>2
    <3>2. a[i] < b[j] <=> After(a[i], p) < After(b[j], p)
      BY <1>2, <3>1
    <3>3. After(a[i], p) # After(b[j], p)
      BY <1>a, <3>1
    <3> QED BY <1>3, <1>4, <2>2, <3>1, <3>2, <3>3
  <2> QED BY <1>6, <2>1, <2>2
<1>13. ASSUME NEW i \in 1 .. m + 1, NEW j \in 1 .. m + 1, i < j
       PROVE  d[i] # d[j] /\ (d[i] < d[j] <=> events[i].in <= events[j].in)
  <2>0. i \in 1..m
    BY <1>13
  <2>1. CASE j = m + 1
    <3>1. b[i] \in 1..l /\ mid[b[i]] = events[i]
      BY <1>1, <2>0
    <3>2. After(b[i], p) # p /\ (After(b[i], p) < p <=> mid[b[i]].in <= e.in)
      BY <1>2, <3>1
    <3> QED BY <1>4, <1>5, <2>0, <2>1, <3>1, <3>2 DEF e
  <2>2. CASE j \in 1..m
    <3>1. /\ b[i] \in 1..l /\ b[j] \in 1..l /\ b[i] # b[j]
          /\ b[i] < b[j] <=> events[i].in <= events[j].in
      BY <1>1, <1>13, <2>0, <2>2
    <3>2. b[i] < b[j] <=> After(b[i], p) < After(b[j], p)
      BY <1>2, <3>1
    <3>3. After(b[i], p) # After(b[j], p)
      BY <1>a, <3>1
    <3> QED BY <1>4, <2>0, <2>2, <3>1, <3>2, <3>3
  <2> QED BY <1>6, <2>1, <2>2
<1>14. Merged(new, old, events, m + 1, c, d)
  <2>1. Len(new) = l + 1
    BY <1>2
  <2> QED BY <2>1, <1>7, <1>8, <1>9, <1>10, <1>11, <1>12, <1>13 DEF Merged, n
<1> QED BY <1>14

\* ScheduleAll merges the events into the list.
LEMMA ScheduleAllMerges ==
  ASSUME NEW S, NEW list \in Seq(S), NEW events \in Seq(S),
         Timed(list), Sorted(list), Timed(events)
  PROVE  /\ ScheduleAll(list, events) \in Seq(S)
         /\ Timed(ScheduleAll(list, events)) /\ Sorted(ScheduleAll(list, events))
         /\ \E a, b : Merged(ScheduleAll(list, events), list, events, Len(events), a, b)
<1> DEFINE n == Len(events)
<1>0. PICK acc : ScheduledOneByOne(S, list, events, acc) /\ ScheduleAll(list, events) = acc[n]
  BY ScheduleAllSteps
<1>1. /\ acc[0] = list /\ ScheduleAll(list, events) = acc[n]
      /\ \A k \in 0..n : acc[k] \in Seq(S) /\ Timed(acc[k]) /\ Sorted(acc[k])
      /\ \A k \in 1..n : \E p \in Nat : Inserted(acc[k], acc[k - 1], p, events[k])
  BY <1>0 DEF ScheduledOneByOne
<1>2. n \in Nat /\ Len(list) \in Nat
  BY LenProperties
<1> HIDE DEF n
<1> DEFINE Unmerged == {k \in 0..n : ~ \E a, b : Merged(acc[k], list, events, k, a, b)}
<1>3. 0 \notin Unmerged
  <2> DEFINE a == [i \in 1 .. Len(list) |-> i]
  <2>1. Merged(list, list, events, 0, a, a)
    <3>1. \A i \in 1 .. Len(list) : a[i] = i
      OBVIOUS
    <3> HIDE DEF a
    <3> QED BY <3>1, <1>2 DEF Merged
  <2> QED BY <1>1, <2>1
<1>4. Unmerged = {}
  <2> SUFFICES ASSUME Unmerged # {} PROVE FALSE
    OBVIOUS
  <2>1. PICK k \in Unmerged : \A j \in Unmerged : k <= j
    <3>1. Unmerged \in SUBSET Nat
      BY <1>2
    <3> HIDE DEF Unmerged
    <3> QED BY <3>1, LeastNumber
  <2>2. k \in 1..n /\ k - 1 \in 0..n /\ k - 1 \in Nat /\ k - 1 + 1 = k
    <3>1. k \in 0..n
      OBVIOUS
    <3>2. k # 0
      <4> HIDE DEF Unmerged
      <4> QED BY <1>3
    <3> QED BY <3>1, <3>2, <1>2
  <2>3. k - 1 \notin Unmerged
    <3> HIDE DEF Unmerged
    <3> QED BY <2>1, <2>2
  <2>4. PICK a, b : Merged(acc[k - 1], list, events, k - 1, a, b)
    BY <2>2, <2>3
  <2>5. PICK p \in Nat : Inserted(acc[k], acc[k - 1], p, events[k])
    BY <1>1, <2>2
  <2>6. \E c, d : Merged(acc[k], list, events, k - 1 + 1, c, d)
    <3>1. Inserted(acc[k], acc[k - 1], p, events[k - 1 + 1])
      BY <2>2, <2>5
    <3> HIDE DEF Unmerged
    <3> QED BY <3>1, <1>2, <2>2, <2>4, MergeOneMore
  <2> QED BY <2>2, <2>6
<1>5. n \in 0..n
  BY <1>2
<1>6. \E a, b : Merged(acc[n], list, events, n, a, b)
  BY <1>4, <1>5
<1> QED BY <1>1, <1>5, <1>6 DEF n

\* Time passes for all events alike, and the first stays the first.
LEMMA LaterInOrder ==
  ASSUME NEW S, NEW list \in Seq(S), Timed(list), Sorted(list), list # <<>>
  PROVE  LET later == Later(list, Head(list).in) IN
         /\ later = [i \in DOMAIN list |-> [list[i] EXCEPT !.in = @ - Head(list).in]]
         /\ Head(list).in \in Nat
         /\ \A i \in DOMAIN list : list[i].in - Head(list).in \in Nat
<1>1. Head(list) = list[1] /\ 1 \in DOMAIN list /\ DOMAIN list = 1 .. Len(list)
  BY LenProperties, HeadTailProperties
<1>2. \A i \in DOMAIN list : list[1].in <= list[i].in /\ list[i].in \in Nat
  BY <1>1 DEF Sorted, Timed
<1> QED BY <1>1, <1>2 DEF Later

-----------------------------------------------------------------------------
(* The elements of a list that are in a set, in their order.               *)

Enumerates(p, m, list, T) ==
  /\ m \in Nat
  /\ \A k \in 1..m : p[k] \in 1 .. Len(list) /\ list[p[k]] \in T
  /\ \A k, l \in 1..m : k < l => p[k] < p[l]
  /\ \A i \in 1 .. Len(list) : list[i] \in T => \E k \in 1..m : i = p[k]

\* r enumerates what p and q do: first the old elements, then the events.
EnumeratesBoth(r, new, p, x, old, q, y, events, T) ==
  /\ Enumerates(r, x + y, new, T)
  /\ \A k \in 1..x : new[r[k]] = old[p[k]]
  /\ \A k \in 1..y : new[r[x + k]] = events[q[k]]

\* r enumerates what p does without the head of the list, which is one of
\* them, or is none of them.
EnumeratesRest(r, p, m, list, T) ==
  /\ Enumerates(r, m - 1, Tail(list), T)
  /\ \A k \in 1 .. m - 1 : Tail(list)[r[k]] = list[p[k + 1]]
EnumeratesOthers(r, p, m, list, T) ==
  /\ Enumerates(r, m, Tail(list), T)
  /\ \A k \in 1..m : Tail(list)[r[k]] = list[p[k]]

\* Merging in events that are not earlier puts those of the set at the end.
LEMMA EnumerateMerged ==
  ASSUME NEW old, NEW new, NEW events, NEW a, NEW b, NEW T, NEW p, NEW q, NEW x, NEW y,
         Len(old) \in Nat, Len(events) \in Nat,
         Merged(new, old, events, Len(events), a, b),
         Enumerates(p, x, old, T), Enumerates(q, y, events, T),
         \A k \in 1..x, l \in 1..y : old[p[k]].in <= events[q[l]].in,
         \A k, l \in 1..y : k < l => events[q[k]].in <= events[q[l]].in
  PROVE  \E r : EnumeratesBoth(r, new, p, x, old, q, y, events, T)
<1> DEFINE n == Len(old)
           m == Len(events)
           r == [k \in 1 .. x + y |-> IF k <= x THEN a[p[k]] ELSE b[q[k - x]]]
<1>1. /\ Len(new) = n + m /\ n \in Nat /\ m \in Nat
      /\ \A i \in 1..n : a[i] \in 1 .. n + m /\ new[a[i]] = old[i]
      /\ \A j \in 1..m : b[j] \in 1 .. n + m /\ new[b[j]] = events[j]
      /\ \A i \in 1 .. n + m : (\E j \in 1..n : i = a[j]) \/ (\E j \in 1..m : i = b[j])
      /\ \A i, j \in 1..n : i < j => a[i] < a[j]
      /\ \A i \in 1..n, j \in 1..m : old[i].in <= events[j].in => a[i] < b[j]
      /\ \A i, j \in 1..m : i < j /\ events[i].in <= events[j].in => b[i] < b[j]
  <2>1. Len(new) = n + m
    BY DEF Merged
  <2> HIDE DEF n, m
  <2> QED BY <2>1 DEF Merged, n, m
<1>2. /\ x \in Nat
      /\ \A k \in 1..x : p[k] \in 1..n /\ old[p[k]] \in T
      /\ \A k, l \in 1..x : k < l => p[k] < p[l]
      /\ \A i \in 1..n : old[i] \in T => \E k \in 1..x : i = p[k]
  BY DEF Enumerates
<1>3. /\ y \in Nat
      /\ \A k \in 1..y : q[k] \in 1..m /\ events[q[k]] \in T
      /\ \A k, l \in 1..y : k < l => q[k] < q[l]
      /\ \A i \in 1..m : events[i] \in T => \E k \in 1..y : i = q[k]
  BY DEF Enumerates
<1> HIDE DEF n, m
<1>4. ASSUME NEW k \in 1..x PROVE k \in 1 .. x + y /\ r[k] = a[p[k]]
  BY <1>2, <1>3
<1>5. ASSUME NEW k \in 1..y PROVE x + k \in 1 .. x + y /\ r[x + k] = b[q[k]]
  <2>1. x + k \in 1 .. x + y /\ ~ (x + k <= x) /\ x + k - x = k
    BY <1>2, <1>3
  <2>2. \A i \in 1 .. x + y : ~ (i <= x) => r[i] = b[q[i - x]]
    OBVIOUS
  <2> DEFINE z == x + k
  <2>3. z \in 1 .. x + y /\ ~ (z <= x) /\ z - x = k
    BY <1>2, <1>3, <2>1
  <2> HIDE DEF r, z
  <2>4. r[z] = b[q[z - x]]
    BY <2>2, <2>3
  <2> QED BY <2>1, <2>3, <2>4 DEF z
<1>6. ASSUME NEW k \in 1 .. x + y
      PROVE  k \in 1..x \/ \E j \in 1..y : k = x + j
  <2> SUFFICES ASSUME k \notin 1..x PROVE \E j \in 1..y : k = x + j
    OBVIOUS
  <2>1. k - x \in 1..y /\ k = x + (k - x)
    BY <1>2, <1>3
  <2> QED BY <2>1, Zenon
<1> HIDE DEF r
<1>7. ASSUME NEW k \in 1..x
      PROVE  r[k] \in 1 .. n + m /\ new[r[k]] = old[p[k]] /\ new[r[k]] \in T
  <2>1. p[k] \in 1..n /\ old[p[k]] \in T /\ r[k] = a[p[k]]
    BY <1>2, <1>4
  <2> QED BY <2>1, <1>1
<1>8. ASSUME NEW k \in 1..y
      PROVE  r[x + k] \in 1 .. n + m /\ new[r[x + k]] = events[q[k]] /\ new[r[x + k]] \in T
  <2>1. q[k] \in 1..m /\ events[q[k]] \in T /\ r[x + k] = b[q[k]]
    BY <1>3, <1>5
  <2> QED BY <2>1, <1>1
<1>9. ASSUME NEW k \in 1 .. x + y, NEW l \in 1 .. x + y, k < l PROVE r[k] < r[l]
  <2>1. CASE k \in 1..x /\ l \in 1..x
    <3>1. p[k] \in 1..n /\ p[l] \in 1..n /\ p[k] < p[l]
      BY <1>2, <1>9, <2>1
    <3> QED BY <3>1, <1>1, <1>4, <2>1
  <2>2. ASSUME k \in 1..x, NEW j \in 1..y, l = x + j PROVE r[k] < r[l]
    <3>1. p[k] \in 1..n /\ q[j] \in 1..m /\ old[p[k]].in <= events[q[j]].in
      BY <1>2, <1>3, <2>2
    <3> QED BY <3>1, <1>1, <1>4, <1>5, <2>2
  <2>3. ASSUME NEW i \in 1..y, k = x + i, NEW j \in 1..y, l = x + j PROVE r[k] < r[l]
    <3>1. i < j
      BY <1>2, <1>9, <2>3
    <3>2. q[i] \in 1..m /\ q[j] \in 1..m /\ q[i] < q[j] /\ events[q[i]].in <= events[q[j]].in
      BY <1>3, <3>1
    <3> QED BY <3>2, <1>1, <1>5, <2>3
  <2>4. ~ (l \in 1..x /\ \E j \in 1..y : k = x + j)
    BY <1>2, <1>9
  <2> QED BY <1>6, <2>1, <2>2, <2>3, <2>4
<1>10. ASSUME NEW i \in 1 .. n + m, new[i] \in T PROVE \E k \in 1 .. x + y : i = r[k]
  <2>1. ASSUME NEW j \in 1..n, i = a[j] PROVE \E k \in 1 .. x + y : i = r[k]
    <3>1. old[j] \in T
      BY <1>1, <1>10, <2>1
    <3>2. PICK k \in 1..x : j = p[k]
      BY <1>2, <3>1
    <3> QED BY <1>4, <2>1, <3>2
  <2>2. ASSUME NEW j \in 1..m, i = b[j] PROVE \E k \in 1 .. x + y : i = r[k]
    <3>1. events[j] \in T
      BY <1>1, <1>10, <2>2
    <3>2. PICK k \in 1..y : j = q[k]
      BY <1>3, <3>1
    <3> QED BY <1>5, <2>2, <3>2
  <2> QED BY <1>1, <2>1, <2>2
<1>11. x + y \in Nat
  BY <1>2, <1>3
<1>12. \A k \in 1 .. x + y : r[k] \in 1 .. n + m /\ new[r[k]] \in T
  BY <1>6, <1>7, <1>8
<1>13. Enumerates(r, x + y, new, T)
  BY <1>1, <1>9, <1>10, <1>11, <1>12 DEF Enumerates
<1> QED BY <1>7, <1>8, <1>13 DEF EnumeratesBoth

\* Without the head, when the head is one of them.
LEMMA EnumerateRest ==
  ASSUME NEW S, NEW list \in Seq(S), list # <<>>, NEW T, NEW p, NEW m,
         Enumerates(p, m, list, T), Head(list) \in T
  PROVE  /\ m > 0 /\ p[1] = 1
         /\ \E r : EnumeratesRest(r, p, m, list, T)
<1> DEFINE n == Len(list)
           t == Tail(list)
           r == [k \in 1 .. m - 1 |-> p[k + 1] - 1]
<1>1. /\ n \in Nat /\ n > 0 /\ Head(list) = list[1] /\ Len(t) = n - 1
      /\ \A i \in 1 .. n - 1 : t[i] = list[i + 1]
  BY LenProperties, HeadTailProperties, EmptySeq
<1> HIDE DEF n, t
<1>2. /\ m \in Nat
      /\ \A k \in 1..m : p[k] \in 1..n /\ list[p[k]] \in T
      /\ \A k, l \in 1..m : k < l => p[k] < p[l]
      /\ \A i \in 1..n : list[i] \in T => \E k \in 1..m : i = p[k]
  BY DEF Enumerates, n
<1>3. m > 0 /\ p[1] = 1
  <2>1. PICK k \in 1..m : 1 = p[k]
    <3>1. 1 \in 1..n
      BY <1>1
    <3> QED BY <3>1, <1>1, <1>2
  <2>2. 1 \in 1..m /\ k \in Nat /\ m \in Nat
    BY <1>2
  <2>3. ~ (1 < k)
    <3> SUFFICES ASSUME 1 < k PROVE FALSE
      OBVIOUS
    <3>1. p[1] < p[k] /\ p[1] \in 1..n
      BY <1>2, <2>2
    <3> QED BY <2>1, <3>1
  <2>4. k = 1
    BY <2>2, <2>3
  <2> QED BY <2>1, <2>2, <2>4
<1>4. ASSUME NEW k \in 1 .. m - 1
      PROVE  /\ k + 1 \in 1..m /\ p[k + 1] \in 2..n
             /\ r[k] = p[k + 1] - 1 /\ r[k] \in 1 .. n - 1 /\ t[r[k]] = list[p[k + 1]]
  <2>1. k + 1 \in 1..m /\ 1 \in 1..m /\ 1 < k + 1
    BY <1>2
  <2>2. p[k + 1] \in 1..n /\ p[1] < p[k + 1]
    BY <1>2, <2>1
  <2>3. p[k + 1] \in 2..n /\ p[k + 1] - 1 \in 1 .. n - 1 /\ p[k + 1] - 1 + 1 = p[k + 1]
    BY <1>1, <1>3, <2>2
  <2> QED BY <1>1, <2>1, <2>3
<1>5. ASSUME NEW k \in 1 .. m - 1, NEW l \in 1 .. m - 1, k < l PROVE r[k] < r[l]
  <2>1. k + 1 \in 1..m /\ l + 1 \in 1..m /\ k + 1 < l + 1
    BY <1>4, <1>5
  <2>2. p[k + 1] < p[l + 1] /\ p[k + 1] \in Nat /\ p[l + 1] \in Nat
    BY <1>2, <2>1
  <2> QED BY <1>4, <2>2
<1>6. ASSUME NEW i \in 1 .. n - 1, t[i] \in T PROVE \E k \in 1 .. m - 1 : i = r[k]
  <2>1. i + 1 \in 1..n /\ list[i + 1] \in T
    BY <1>1, <1>6
  <2>2. PICK k \in 1..m : i + 1 = p[k]
    BY <1>2, <2>1
  <2>3. k # 1
    BY <1>3, <2>2
  <2>4. k - 1 \in 1 .. m - 1 /\ k - 1 + 1 = k
    BY <1>2, <2>3
  <2>5. i = r[k - 1]
    BY <1>4, <2>2, <2>4
  <2> QED BY <2>4, <2>5
<1> HIDE DEF r
<1>7. Enumerates(r, m - 1, t, T)
  <2>1. m - 1 \in Nat
    BY <1>2, <1>3
  <2>2. \A k \in 1 .. m - 1 : r[k] \in 1 .. n - 1 /\ t[r[k]] \in T
    BY <1>2, <1>4
  <2> QED BY <1>1, <1>5, <1>6, <2>1, <2>2 DEF Enumerates
<1> QED BY <1>3, <1>4, <1>7 DEF t, EnumeratesRest

\* Without the head, when the head is none of them.
LEMMA EnumerateOthers ==
  ASSUME NEW S, NEW list \in Seq(S), list # <<>>, NEW T, NEW p, NEW m,
         Enumerates(p, m, list, T), Head(list) \notin T
  PROVE  \E r : EnumeratesOthers(r, p, m, list, T)
<1> DEFINE n == Len(list)
           t == Tail(list)
           r == [k \in 1..m |-> p[k] - 1]
<1>1. /\ n \in Nat /\ n > 0 /\ Head(list) = list[1] /\ Len(t) = n - 1
      /\ \A i \in 1 .. n - 1 : t[i] = list[i + 1]
  BY LenProperties, HeadTailProperties, EmptySeq
<1> HIDE DEF n, t
<1>2. /\ m \in Nat
      /\ \A k \in 1..m : p[k] \in 1..n /\ list[p[k]] \in T
      /\ \A k, l \in 1..m : k < l => p[k] < p[l]
      /\ \A i \in 1..n : list[i] \in T => \E k \in 1..m : i = p[k]
  BY DEF Enumerates, n
<1>3. ASSUME NEW k \in 1..m
      PROVE  r[k] = p[k] - 1 /\ r[k] \in 1 .. n - 1 /\ t[r[k]] = list[p[k]]
  <2>1. p[k] \in 1..n /\ p[k] # 1
    BY <1>1, <1>2
  <2>2. p[k] - 1 \in 1 .. n - 1 /\ p[k] - 1 + 1 = p[k]
    BY <1>1, <2>1
  <2> QED BY <1>1, <2>2
<1>4. ASSUME NEW k \in 1..m, NEW l \in 1..m, k < l PROVE r[k] < r[l]
  <2>1. p[k] < p[l] /\ p[k] \in Nat /\ p[l] \in Nat
    BY <1>2, <1>4
  <2> QED BY <1>3, <2>1
<1>5. ASSUME NEW i \in 1 .. n - 1, t[i] \in T PROVE \E k \in 1..m : i = r[k]
  <2>1. i + 1 \in 1..n /\ list[i + 1] \in T
    BY <1>1, <1>5
  <2>2. PICK k \in 1..m : i + 1 = p[k]
    BY <1>2, <2>1
  <2> QED BY <1>3, <2>2
<1> HIDE DEF r
<1>6. Enumerates(r, m, t, T)
  <2>1. \A k \in 1..m : r[k] \in 1 .. n - 1 /\ t[r[k]] \in T
    BY <1>2, <1>3
  <2> QED BY <1>1, <1>2, <1>4, <1>5, <2>1 DEF Enumerates
<1> QED BY <1>3, <1>6 DEF t, EnumeratesOthers

\* A list with the same elements of the set at the same places.
LEMMA EnumerateSame ==
  ASSUME NEW list, NEW new, NEW T, NEW p, NEW m, Enumerates(p, m, list, T),
         Len(new) = Len(list),
         \A i \in 1 .. Len(list) : list[i] \in T <=> new[i] \in T
  PROVE  Enumerates(p, m, new, T)
BY DEF Enumerates

\* Of two lists, one behind the other.
LEMMA EnumerateConcat ==
  ASSUME NEW S, NEW s \in Seq(S), NEW t \in Seq(S), NEW T, NEW p, NEW q, NEW x, NEW y,
         Enumerates(p, x, s, T), Enumerates(q, y, t, T)
  PROVE  \E r : EnumeratesBoth(r, s \o t, p, x, s, q, y, t, T)
<1> DEFINE n == Len(s)
           m == Len(t)
           u == s \o t
           r == [k \in 1 .. x + y |-> IF k <= x THEN p[k] ELSE n + q[k - x]]
<1>1. /\ n \in Nat /\ m \in Nat /\ Len(u) = n + m
      /\ \A i \in 1..n : i \in 1 .. n + m /\ u[i] = s[i]
      /\ \A i \in 1..m : n + i \in 1 .. n + m /\ u[n + i] = t[i]
  <2>1. n \in Nat /\ m \in Nat
    BY LenProperties
  <2>2. /\ Len(u) = n + m
        /\ \A i \in 1 .. n + m : u[i] = IF i <= n THEN s[i] ELSE t[i - n]
    BY ConcatProperties
  <2> HIDE DEF n, m, u
  <2>3. ASSUME NEW i \in 1..m PROVE n + i \in 1 .. n + m /\ u[n + i] = t[i]
    <3> DEFINE z == n + i
    <3>1. z \in 1 .. n + m /\ ~ (z <= n) /\ z - n = i
      BY <2>1
    <3> HIDE DEF z
    <3>2. u[z] = t[i]
      BY <3>1, <2>2
    <3> QED BY <3>1, <3>2 DEF z
  <2> QED BY <2>1, <2>2, <2>3
<1>2. /\ x \in Nat
      /\ \A k \in 1..x : p[k] \in 1..n /\ s[p[k]] \in T
      /\ \A k, l \in 1..x : k < l => p[k] < p[l]
      /\ \A i \in 1..n : s[i] \in T => \E k \in 1..x : i = p[k]
  BY DEF Enumerates
<1>3. /\ y \in Nat
      /\ \A k \in 1..y : q[k] \in 1..m /\ t[q[k]] \in T
      /\ \A k, l \in 1..y : k < l => q[k] < q[l]
      /\ \A i \in 1..m : t[i] \in T => \E k \in 1..y : i = q[k]
  BY DEF Enumerates
<1> HIDE DEF n, m, u
<1>4. ASSUME NEW k \in 1..x PROVE k \in 1 .. x + y /\ r[k] = p[k]
  BY <1>2, <1>3
<1>5. ASSUME NEW k \in 1..y PROVE x + k \in 1 .. x + y /\ r[x + k] = n + q[k]
  <2>1. \A i \in 1 .. x + y : ~ (i <= x) => r[i] = n + q[i - x]
    OBVIOUS
  <2> DEFINE z == x + k
  <2>2. z \in 1 .. x + y /\ ~ (z <= x) /\ z - x = k
    BY <1>2, <1>3
  <2> HIDE DEF r, z
  <2>3. r[z] = n + q[z - x]
    BY <2>1, <2>2
  <2> QED BY <2>2, <2>3 DEF z
<1>6. ASSUME NEW k \in 1 .. x + y
      PROVE  k \in 1..x \/ \E j \in 1..y : k = x + j
  <2> SUFFICES ASSUME k \notin 1..x PROVE \E j \in 1..y : k = x + j
    OBVIOUS
  <2>1. k - x \in 1..y /\ k = x + (k - x)
    BY <1>2, <1>3
  <2> QED BY <2>1, Zenon
<1>a. \A i \in 1 .. n + m : i \in 1..n \/ \E j \in 1..m : i = n + j
  <2> SUFFICES ASSUME NEW i \in 1 .. n + m, i \notin 1..n PROVE \E j \in 1..m : i = n + j
    OBVIOUS
  <2>1. i - n \in 1..m /\ i = n + (i - n)
    BY <1>1
  <2> QED BY <2>1, Zenon
<1> HIDE DEF r
<1>7. ASSUME NEW k \in 1..x
      PROVE  r[k] \in 1..n /\ r[k] \in 1 .. n + m /\ u[r[k]] = s[p[k]] /\ u[r[k]] \in T
  BY <1>1, <1>2, <1>4
<1>8. ASSUME NEW k \in 1..y
      PROVE  r[x + k] \in 1 .. n + m /\ u[r[x + k]] = t[q[k]] /\ u[r[x + k]] \in T
  <2>1. q[k] \in 1..m /\ t[q[k]] \in T
    BY <1>3
  <2>2. n + q[k] \in 1 .. n + m /\ u[n + q[k]] = t[q[k]]
    BY <1>1, <2>1
  <2>3. r[x + k] = n + q[k]
    BY <1>5
  <2> QED BY <2>1, <2>2, <2>3
<1>9. ASSUME NEW k \in 1 .. x + y, NEW l \in 1 .. x + y, k < l PROVE r[k] < r[l]
  <2>1. CASE k \in 1..x /\ l \in 1..x
    BY <1>2, <1>4, <1>9, <2>1
  <2>2. ASSUME k \in 1..x, NEW j \in 1..y, l = x + j PROVE r[k] < r[l]
    <3>1. p[k] \in 1..n /\ q[j] \in 1..m
      BY <1>2, <1>3, <2>2
    <3> QED BY <3>1, <1>1, <1>4, <1>5, <2>2
  <2>3. ASSUME NEW i \in 1..y, k = x + i, NEW j \in 1..y, l = x + j PROVE r[k] < r[l]
    <3>1. i < j
      BY <1>2, <1>9, <2>3
    <3>2. q[i] \in 1..m /\ q[j] \in 1..m /\ q[i] < q[j]
      BY <1>3, <3>1
    <3> QED BY <3>2, <1>1, <1>5, <2>3
  <2>4. ~ (l \in 1..x /\ \E j \in 1..y : k = x + j)
    BY <1>2, <1>9
  <2> QED BY <1>6, <2>1, <2>2, <2>3, <2>4
<1>10. ASSUME NEW i \in 1 .. n + m, u[i] \in T PROVE \E k \in 1 .. x + y : i = r[k]
  <2>1. CASE i \in 1..n
    <3>1. PICK k \in 1..x : i = p[k]
      BY <1>1, <1>2, <1>10, <2>1
    <3> QED BY <1>4, <3>1
  <2>2. ASSUME NEW j \in 1..m, i = n + j PROVE \E k \in 1 .. x + y : i = r[k]
    <3>1. t[j] \in T
      BY <1>1, <1>10, <2>2
    <3>2. PICK k \in 1..y : j = q[k]
      BY <1>3, <3>1
    <3> QED BY <1>5, <2>2, <3>2
  <2> QED BY <1>a, <2>1, <2>2
<1>11. x + y \in Nat
  BY <1>2, <1>3
<1>12. \A k \in 1 .. x + y : r[k] \in 1 .. n + m /\ u[r[k]] \in T
  BY <1>6, <1>7, <1>8
<1>13. Enumerates(r, x + y, u, T)
  BY <1>1, <1>9, <1>10, <1>11, <1>12 DEF Enumerates
<1>14. EnumeratesBoth(r, u, p, x, s, q, y, t, T)
  BY <1>7, <1>8, <1>13 DEF EnumeratesBoth
<1> QED BY <1>14 DEF u

\* The k-th of them is at the position up to which there are k.
LEMMA EnumerateCounts ==
  ASSUME NEW list, Len(list) \in Nat, NEW T, NEW p, NEW m, Enumerates(p, m, list, T)
  PROVE  /\ Cardinality({i \in 1 .. Len(list) : list[i] \in T}) = m
         /\ \A k \in 1..m :
              Cardinality({i \in 1 .. Len(list) : list[i] \in T /\ i <= p[k]}) = k
<1> DEFINE n == Len(list)
<1>1. /\ m \in Nat
      /\ \A k \in 1..m : p[k] \in 1..n /\ list[p[k]] \in T
      /\ \A k, l \in 1..m : k < l => p[k] < p[l]
      /\ \A i \in 1..n : list[i] \in T => \E k \in 1..m : i = p[k]
  BY DEF Enumerates
<1>2. n \in Nat
  OBVIOUS
<1> HIDE DEF n
<1>3. ASSUME NEW k \in 0..m, NEW U, U = {p[j] : j \in 1..k}
      PROVE  Cardinality(U) = k
  <2> DEFINE g == [j \in 1..k |-> p[j]]
  <2>1. \A j \in 1..k : j \in 1..m
    BY <1>1
  <2>2. \A i, j \in 1..k : g[i] = g[j] => i = j
    <3> SUFFICES ASSUME NEW i \in 1..k, NEW j \in 1..k, i # j PROVE p[i] # p[j]
      OBVIOUS
    <3>1. (i < j \/ j < i) /\ p[i] \in Nat /\ p[j] \in Nat
      BY <1>1, <2>1
    <3>2. (i < j => p[i] < p[j]) /\ (j < i => p[j] < p[i])
      BY <1>1, <2>1
    <3> QED BY <3>1, <3>2
  <2>3. g \in Bijection(1..k, U)
    BY <1>3, <2>2 DEF Bijection, Injection, Surjection, IsInjective
  <2>4. Cardinality(1..k) = k /\ IsFiniteSet(1..k)
    <3>1. 1 \in Int /\ k \in Int /\ (1 > k => k = 0) /\ k - 1 + 1 = k
      BY <1>1
    <3>2. Cardinality(1..k) = (IF 1 > k THEN 0 ELSE k - 1 + 1)
      BY <3>1, FS_Interval
    <3>3. IsFiniteSet(1..k)
      BY <3>1, FS_Interval
    <3> QED BY <3>1, <3>2, <3>3
  <2> HIDE DEF g
  <2>5. ExistsBijection(1..k, U) /\ IsFiniteSet(1..k)
    BY <2>3, <2>4 DEF ExistsBijection
  <2>6. Cardinality(U) = Cardinality(1..k)
    BY <2>5, FS_Bijection
  <2> QED BY <2>4, <2>6
<1>4. {i \in 1..n : list[i] \in T} = {p[j] : j \in 1..m}
  BY <1>1
<1>5. ASSUME NEW k \in 1..m
      PROVE  {i \in 1..n : list[i] \in T /\ i <= p[k]} = {p[j] : j \in 1..k}
  <2>1. \A j \in 1..m : j <= k <=> p[j] <= p[k]
    <3> SUFFICES ASSUME NEW j \in 1..m PROVE j <= k <=> p[j] <= p[k]
      OBVIOUS
    <3>1. p[j] \in Nat /\ p[k] \in Nat /\ j \in Nat /\ k \in Nat
      BY <1>1
    <3>2. (j < k => p[j] < p[k]) /\ (k < j => p[k] < p[j])
      BY <1>1
    <3> QED BY <3>1, <3>2
  <2>2. \A j \in 1..k : j \in 1..m /\ j <= k
    BY <1>1
  <2>3. \A j \in 1..m : j <= k => j \in 1..k
    BY <1>1
  <2> QED BY <1>1, <2>1, <2>2, <2>3
<1>6. m \in 0..m /\ \A k \in 1..m : k \in 0..m
  BY <1>1
<1> QED BY <1>3, <1>4, <1>5, <1>6 DEF n

-----------------------------------------------------------------------------
(* Sums.                                                                   *)

\* The sum over any set of positions, whichever element is taken out first.
LEMMA SumFolds ==
  ASSUME NEW seq \in Seq(Nat)
  PROVE  \E g \in [SUBSET DOMAIN seq -> Nat] :
           /\ SumSeq(seq) = g[DOMAIN seq]
           /\ g[{}] = 0
           /\ \A s \in SUBSET DOMAIN seq : \A i \in s : g[s] = seq[i] + g[s \ {i}]
<1> DEFINE S == DOMAIN seq
           Sum(g) == [s \in SUBSET S |->
                        IF s = {} THEN 0
                        ELSE seq[CHOOSE x \in s : TRUE] + g[s \ {CHOOSE x \in s : TRUE}]]
           sum == CHOOSE g : g = Sum(g)
           pick == [s \in SUBSET S |-> CHOOSE x \in s : TRUE]
           step == [p \in S \X Nat |-> seq[p[1]] + p[2]]
<1>1. SumSeq(seq) = sum[S]
  BY Zenon DEF SumSeq, FoldSeq, FoldFunction, FoldFunctionOnSet, MapThenFoldSet
<1>2. IsFiniteSet(S) /\ S = 1 .. Len(seq) /\ Len(seq) \in Nat
  BY LenProperties, FS_Interval
<1>3. \A i \in S : seq[i] \in Nat
  BY <1>2, ElementOfSeq
<1> HIDE DEF S
<1>4. \A s \in SUBSET S : s # {} => pick[s] \in s
  OBVIOUS
<1>5. \A x \in S : \A v \in Nat : step[<<x, v>>] = seq[x] + v /\ step[<<x, v>>] \in Nat
  BY <1>3
<1> HIDE DEF pick, step
<1>0. IsFiniteSet(S)
  BY <1>2
<1>6. PICK g : Folded(S, Nat, 0, pick, step, g)
  BY <1>0, <1>4, <1>5, FoldExists
<1>7. g = Sum(g)
  <2>1. ASSUME NEW s \in SUBSET S, s # {}
        PROVE  g[s] = seq[CHOOSE x \in s : TRUE] + g[s \ {CHOOSE x \in s : TRUE}]
    <3>1. pick[s] \in S /\ g[s \ {pick[s]}] \in Nat
      BY <1>4, <1>6, <2>1 DEF Folded
    <3>2. g[s] = seq[pick[s]] + g[s \ {pick[s]}]
      BY <1>5, <1>6, <2>1, <3>1 DEF Folded
    <3> QED BY <3>2 DEF pick
  <2>2. DOMAIN g = SUBSET S /\ g[{}] = 0 /\ g = [s \in SUBSET S |-> g[s]]
    BY <1>6 DEF Folded
  <2> QED BY <2>1, <2>2
<1>8. sum = Sum(sum)
  <2> HIDE DEF Sum
  <2> QED BY <1>7
<1> HIDE DEF sum
<1>9. /\ sum[{}] = 0 /\ DOMAIN sum = SUBSET S
      /\ \A s \in SUBSET S : s # {} => sum[s] = seq[pick[s]] + sum[s \ {pick[s]}]
  BY <1>8 DEF pick
<1> HIDE DEF Sum
<1>10. \A s \in SUBSET S : sum[s] \in Nat
  <2>1. ASSUME NEW s \in SUBSET S, s # {}, sum[s \ {pick[s]}] \in Nat PROVE sum[s] \in Nat
    BY <2>1, <1>3, <1>4, <1>9
  <2>2. sum[{}] \in Nat
    BY <1>9
  <2> QED BY <1>0, <1>4, <2>1, <2>2, FoldTyped
<1> DEFINE Free(s) == \A i \in s : sum[s] = seq[i] + sum[s \ {i}]
           Bad == {s \in SUBSET S : ~ Free(s)}
           Sizes == {Cardinality(s) : s \in Bad}
<1> HIDE DEF Free
<1>11. Bad = {}
  <2> SUFFICES ASSUME Bad # {} PROVE FALSE
    OBVIOUS
  <2>1. PICK n \in Sizes : \A m \in Sizes : n <= m
    <3>1. Sizes \in SUBSET Nat /\ Sizes # {}
      <4> HIDE DEF Bad
      <4>1. \A s \in Bad : Cardinality(s) \in Nat
        <5>1. Bad \subseteq SUBSET S
          BY DEF Bad
        <5> QED BY <1>0, <5>1, FoldSets
      <4> QED BY <4>1
    <3> HIDE DEF Sizes
    <3> QED BY <3>1, LeastNumber
  <2>2. PICK s \in Bad : n = Cardinality(s)
    OBVIOUS
  <2>3. PICK i \in s : sum[s] # seq[i] + sum[s \ {i}]
    BY DEF Free
  <2> DEFINE x == pick[s]
  <2>4. s \in SUBSET S /\ s # {} /\ x \in s /\ i # x
    BY <1>4, <1>9, <2>3
  <2>5. sum[s] = seq[x] + sum[s \ {x}]
    BY <1>9, <2>4
  <2> HIDE DEF x
  <2>6. /\ s \ {x} \in SUBSET S /\ Cardinality(s \ {x}) = n - 1
        /\ s \ {i} \in SUBSET S /\ Cardinality(s \ {i}) = n - 1 /\ n \in Nat
    <3> HIDE DEF Bad
    <3> QED BY <1>0, <2>2, <2>4, FoldSets
  <2>7. Free(s \ {x}) /\ Free(s \ {i})
    <3>1. ~ (n <= n - 1)
      BY <2>6
    <3>2. s \ {x} \notin Bad /\ s \ {i} \notin Bad
      BY <2>1, <2>6, <3>1
    <3> QED BY <2>6, <3>2
  <2>8. sum[s \ {x}] = seq[i] + sum[(s \ {x}) \ {i}]
    BY <2>4, <2>7 DEF Free
  <2>9. sum[s \ {i}] = seq[x] + sum[(s \ {i}) \ {x}]
    BY <2>4, <2>7 DEF Free
  <2>10. (s \ {x}) \ {i} = (s \ {i}) \ {x} /\ (s \ {x}) \ {i} \in SUBSET S
    OBVIOUS
  <2>11. seq[i] \in Nat /\ seq[x] \in Nat /\ sum[(s \ {x}) \ {i}] \in Nat
    BY <1>3, <1>10, <2>4, <2>10
  <2> DEFINE a == seq[i]
             b == seq[x]
             c == sum[(s \ {x}) \ {i}]
  <2>12. sum[s \ {x}] = a + c /\ sum[s \ {i}] = b + c
    BY <2>8, <2>9, <2>10
  <2>13. a \in Nat /\ b \in Nat /\ c \in Nat
    BY <2>11
  <2>14. sum[s] = b + sum[s \ {x}] /\ sum[s] # a + sum[s \ {i}]
    BY <2>3, <2>5
  <2> HIDE DEF a, b, c
  <2> QED BY <2>12, <2>13, <2>14
<1>12. sum \in [SUBSET S -> Nat]
  BY <1>8, <1>10 DEF Sum
<1> QED BY <1>1, <1>9, <1>11, <1>12 DEF S, Free

\* The sums of the initial parts of a sequence.
Sums(seq, P) ==
  /\ P \in [0 .. Len(seq) -> Nat] /\ P[0] = 0
  /\ \A k \in 1 .. Len(seq) : P[k] = P[k - 1] + seq[k]

\* What follows the first m elements of s begins with t.
PartOf(t, s, m) == m + Len(t) <= Len(s) /\ \A j \in 1 .. Len(t) : t[j] = s[m + j]

\* `new' is `old' with x put at k.
Inserts(new, old, k, x) ==
  /\ Len(new) = Len(old) + 1 /\ k \in 1 .. Len(old) + 1 /\ new[k] = x
  /\ \A i \in 1 .. k - 1 : new[i] = old[i]
  /\ \A i \in k .. Len(old) : new[i + 1] = old[i]

\* Every sequence has these sums, and SumSeq is the last of them.
LEMMA SumsExist ==
  ASSUME NEW seq \in Seq(Nat)
  PROVE  \E P : Sums(seq, P) /\ SumSeq(seq) = P[Len(seq)]
<1> DEFINE n == Len(seq)
<1>1. n \in Nat /\ DOMAIN seq = 1..n
  BY LenProperties
<1>2. PICK g \in [SUBSET DOMAIN seq -> Nat] :
        /\ SumSeq(seq) = g[DOMAIN seq]
        /\ g[{}] = 0
        /\ \A s \in SUBSET DOMAIN seq : \A i \in s : g[s] = seq[i] + g[s \ {i}]
  BY SumFolds
<1> HIDE DEF n
<1> DEFINE P == [k \in 0..n |-> g[1..k]]
<1>3. ASSUME NEW k \in 0..n PROVE 1..k \in SUBSET DOMAIN seq
  BY <1>1
<1>4. P \in [0..n -> Nat]
  BY <1>2, <1>3
<1>5. P[0] = 0
  <2>1. 1..0 = {} /\ 0 \in 0..n
    BY <1>1
  <2> QED BY <1>2, <2>1
<1>6. ASSUME NEW k \in 1..n PROVE P[k] = P[k - 1] + seq[k]
  <2>1. k \in 0..n /\ k - 1 \in 0..n /\ k \in 1..k /\ (1..k) \ {k} = 1 .. k - 1
    BY <1>1
  <2>2. g[1..k] = seq[k] + g[1 .. k - 1]
    <3>1. g[1..k] = seq[k] + g[(1..k) \ {k}]
      BY <1>2, <1>3, <2>1
    <3> QED BY <3>1, <2>1
  <2>3. P[k] = g[1..k] /\ P[k - 1] = g[1 .. k - 1]
    BY <2>1
  <2>4. seq[k] \in Nat /\ P[k - 1] \in Nat
    BY <1>1, <1>4, <2>1, ElementOfSeq
  <2> HIDE DEF P
  <2>5. P[k] = seq[k] + P[k - 1]
    BY <2>2, <2>3, Zenon
  <2> QED BY <2>4, <2>5
<1>7. P[n] = SumSeq(seq)
  BY <1>1, <1>2
<1> QED BY <1>4, <1>5, <1>6, <1>7 DEF Sums, n

\* Initial parts that agree have the same sums.
LEMMA SumsAgree ==
  ASSUME NEW s, NEW t, NEW P, NEW Q, Sums(s, P), Sums(t, Q), NEW n \in Nat,
         Len(s) \in Nat, Len(t) \in Nat, n <= Len(s), n <= Len(t),
         \A k \in 1..n : s[k] = t[k]
  PROVE  P[n] = Q[n]
<1> DEFINE Differ == {k \in 0..n : P[k] # Q[k]}
<1> SUFFICES Differ = {}
  OBVIOUS
<1> SUFFICES ASSUME Differ # {} PROVE FALSE
  OBVIOUS
<1>1. PICK k \in Differ : \A m \in Differ : k <= m
  <2>1. Differ \in SUBSET Nat
    OBVIOUS
  <2> HIDE DEF Differ
  <2> QED BY <2>1, LeastNumber
<1>2. k \in 1..n /\ k - 1 \in 0..n
  BY DEF Sums
<1>3. P[k - 1] = Q[k - 1]
  <2>1. k - 1 \notin Differ
    <3> HIDE DEF Differ
    <3> QED BY <1>1, <1>2
  <2> QED BY <1>2, <2>1
<1>4. P[k] = P[k - 1] + s[k] /\ Q[k] = Q[k - 1] + t[k] /\ s[k] = t[k]
  BY <1>2 DEF Sums
<1> QED BY <1>3, <1>4

\* Nothing adds up to zero.
LEMMA SumEmpty == SumSeq(<<>>) = 0
<1>1. <<>> \in Seq(Nat) /\ Len(<<>>) = 0
  OBVIOUS
<1> QED BY <1>1, SumsExist DEF Sums

\* A sum of naturals is a natural.
LEMMA SumIsNat ==
  ASSUME NEW seq \in Seq(Nat)
  PROVE  SumSeq(seq) \in Nat
BY SumsExist, LenProperties DEF Sums

\* A sequence that is one longer.
LEMMA SumsOneMore ==
  ASSUME NEW s, NEW t, NEW P, NEW Q, Sums(s, P), Sums(t, Q), NEW n \in Nat,
         Len(s) = n, Len(t) = n + 1, \A k \in 1..n : s[k] = t[k]
  PROVE  Q[n + 1] = P[n] + t[n + 1]
<1>1. P[n] = Q[n]
  BY SumsAgree
<1>2. \A k \in 1 .. n + 1 : Q[k] = Q[k - 1] + t[k]
  BY DEF Sums
<1>3. n + 1 \in 1 .. n + 1 /\ n + 1 - 1 = n
  OBVIOUS
<1> QED BY <1>1, <1>2, <1>3

\* So is its sum.
LEMMA SumOneMore ==
  ASSUME NEW s \in Seq(Nat), NEW t \in Seq(Nat), Len(t) = Len(s) + 1,
         \A k \in 1 .. Len(s) : s[k] = t[k]
  PROVE  SumSeq(t) = SumSeq(s) + t[Len(t)]
<1>1. PICK P : Sums(s, P) /\ SumSeq(s) = P[Len(s)]
  BY SumsExist
<1>2. PICK Q : Sums(t, Q) /\ SumSeq(t) = Q[Len(t)]
  BY SumsExist
<1>3. Len(s) \in Nat
  BY LenProperties
<1> DEFINE n == Len(s)
<1>4. n \in Nat /\ Len(s) = n /\ Len(t) = n + 1 /\ \A k \in 1..n : s[k] = t[k]
  BY <1>3, Zenon
<1>5. Sums(s, P) /\ Sums(t, Q)
  BY <1>1, <1>2, Zenon
<1> HIDE DEF n
<1>6. Q[n + 1] = P[n] + t[n + 1]
  BY <1>4, <1>5, SumsOneMore, SMT
<1>7. SumSeq(s) = P[n] /\ SumSeq(t) = Q[n + 1] /\ t[Len(t)] = t[n + 1]
  BY <1>1, <1>2, <1>4, Zenon
<1> QED BY <1>6, <1>7, Zenon

\* A sequence with an element more.
LEMMA SumAppend ==
  ASSUME NEW s \in Seq(Nat), NEW e \in Nat
  PROVE  SumSeq(Append(s, e)) = SumSeq(s) + e
<1>1. /\ Append(s, e) \in Seq(Nat) /\ Len(Append(s, e)) = Len(s) + 1
      /\ \A k \in 1 .. Len(s) : Append(s, e)[k] = s[k]
      /\ Append(s, e)[Len(s) + 1] = e
  BY AppendProperties
<1>2. SumSeq(Append(s, e)) = SumSeq(s) + Append(s, e)[Len(Append(s, e))]
  BY <1>1, SumOneMore
<1> QED BY <1>1, <1>2

\* A part of a sequence adds what the sums differ by.
LEMMA SumsShifted ==
  ASSUME NEW s \in Seq(Nat), NEW t \in Seq(Nat), NEW P, NEW Q, Sums(s, P), Sums(t, Q),
         NEW m \in Nat, PartOf(t, s, m)
  PROVE  P[m + Len(t)] = P[m] + Q[Len(t)]
<1> USE DEF PartOf
<1> DEFINE n == Len(s)
           l == Len(t)
<1>1. n \in Nat /\ l \in Nat /\ m + l <= n /\ \A j \in 1..l : t[j] \in Nat
  BY LenProperties, ElementOfSeq
<1>2. P \in [0..n -> Nat] /\ \A k \in 1..n : P[k] = P[k - 1] + s[k]
  BY DEF Sums
<1>3. Q \in [0..l -> Nat] /\ Q[0] = 0 /\ \A k \in 1..l : Q[k] = Q[k - 1] + t[k]
  BY DEF Sums
<1>4. \A j \in 1..l : t[j] = s[m + j]
  OBVIOUS
<1> HIDE DEF n, l
<1>5. \A j \in 0..l : m + j \in 0..n /\ P[m + j] \in Nat /\ Q[j] \in Nat
  BY <1>1, <1>2, <1>3
<1> DEFINE Bad == {j \in 0..l : P[m + j] # P[m] + Q[j]}
<1>6. Bad = {}
  <2> SUFFICES ASSUME Bad # {} PROVE FALSE
    OBVIOUS
  <2>1. PICK j \in Bad : \A i \in Bad : j <= i
    <3>1. Bad \in SUBSET Nat
      OBVIOUS
    <3> HIDE DEF Bad
    <3> QED BY <3>1, LeastNumber
  <2>2. j # 0
    <3>1. m + 0 = m /\ 0 \in 0..l
      BY <1>1
    <3>2. P[m] \in Nat /\ P[m + 0] = P[m]
      BY <1>5, <3>1
    <3> QED BY <1>3, <3>2
  <2>3. j \in 1..l /\ j - 1 \in 0..l /\ m + j \in 1..n /\ m + (j - 1) = m + j - 1
    BY <1>1, <1>5, <2>2
  <2>4. j - 1 \notin Bad
    <3> HIDE DEF Bad
    <3> QED BY <2>1, <2>3
  <2>5. P[m + j - 1] = P[m] + Q[j - 1]
    BY <2>3, <2>4
  <2>6. P[m + j] = P[m + j - 1] + t[j] /\ Q[j] = Q[j - 1] + t[j]
    BY <1>2, <1>3, <1>4, <2>3
  <2>7. P[m] \in Nat /\ Q[j - 1] \in Nat /\ t[j] \in Nat
    <3>1. 0 \in 0..l /\ m + 0 = m
      BY <1>1
    <3> QED BY <1>1, <1>5, <2>3, <3>1
  <2>8. (P[m] + Q[j - 1]) + t[j] = P[m] + (Q[j - 1] + t[j])
    <3> DEFINE u == P[m]
               v == Q[j - 1]
               w == t[j]
    <3> HIDE DEF Bad
    <3>1. u \in Nat /\ v \in Nat /\ w \in Nat
      BY <2>7
    <3> HIDE DEF u, v, w
    <3>2. (u + v) + w = u + (v + w)
      BY <3>1
    <3> QED BY <3>2 DEF u, v, w
  <2>9. P[m + j] = P[m] + Q[j]
    BY <2>5, <2>6, <2>8
  <2>10. P[m + j] # P[m] + Q[j]
    OBVIOUS
  <2> QED BY <2>9, <2>10
<1>7. l \in 0..l
  BY <1>1
<1>8. P[m + l] = P[m] + Q[l]
  BY <1>6, <1>7
<1> QED BY <1>8 DEF l

\* One sequence after the other.
LEMMA SumConcat ==
  ASSUME NEW s \in Seq(Nat), NEW t \in Seq(Nat)
  PROVE  SumSeq(s \o t) = SumSeq(s) + SumSeq(t)
<1> DEFINE both == s \o t
<1>1. /\ both \in Seq(Nat) /\ Len(both) = Len(s) + Len(t)
      /\ \A i \in 1 .. Len(s) + Len(t) :
           both[i] = IF i <= Len(s) THEN s[i] ELSE t[i - Len(s)]
  BY ConcatProperties
<1> HIDE DEF both
<1>2. Len(s) \in Nat /\ Len(t) \in Nat
  BY LenProperties
<1>3. PICK P : Sums(both, P) /\ SumSeq(both) = P[Len(both)]
  BY <1>1, SumsExist
<1>4. PICK Q : Sums(s, Q) /\ SumSeq(s) = Q[Len(s)]
  BY SumsExist
<1>5. PICK R : Sums(t, R) /\ SumSeq(t) = R[Len(t)]
  BY SumsExist
<1>6. /\ Len(s) <= Len(both) /\ Len(s) <= Len(s) /\ Len(both) \in Nat
      /\ \A k \in 1 .. Len(s) : s[k] = both[k]
      /\ \A j \in 1 .. Len(t) : t[j] = both[Len(s) + j]
  <2> DEFINE n == Len(s)
             l == Len(t)
  <2>1. n \in Nat /\ l \in Nat
    BY <1>2
  <2>2. Len(both) = n + l /\ \A i \in 1 .. n + l : both[i] = IF i <= n THEN s[i] ELSE t[i - n]
    BY <1>1
  <2> HIDE DEF n, l
  <2>3. \A k \in 1..n : k \in 1 .. n + l /\ k <= n
    BY <2>1
  <2>4. \A j \in 1..l : n + j \in 1 .. n + l /\ ~ (n + j <= n) /\ (n + j) - n = j
    BY <2>1
  <2>5. \A k \in 1..n : s[k] = both[k]
    BY <2>2, <2>3
  <2>6. \A j \in 1..l : t[j] = both[n + j]
    BY <2>2, <2>4
  <2>7. n <= Len(both) /\ Len(both) \in Nat /\ n <= n
    BY <2>1, <2>2
  <2> QED BY <2>5, <2>6, <2>7 DEF n, l
<1>7. Q[Len(s)] = P[Len(s)]
  BY <1>2, <1>3, <1>4, <1>6, SumsAgree
<1>8. Len(s) + Len(t) <= Len(both)
  BY <1>1, <1>2
<1>a. PartOf(t, both, Len(s))
  BY <1>6, <1>8 DEF PartOf
<1>9. P[Len(s) + Len(t)] = P[Len(s)] + R[Len(t)]
  BY <1>1, <1>2, <1>3, <1>5, <1>a, SumsShifted
<1> QED BY <1>1, <1>3, <1>4, <1>5, <1>7, <1>9 DEF both

\* A sequence cut in two.
LEMMA SumSplit ==
  ASSUME NEW s \in Seq(Nat), NEW m \in 0 .. Len(s)
  PROVE  /\ SubSeq(s, 1, m) \in Seq(Nat) /\ SubSeq(s, m + 1, Len(s)) \in Seq(Nat)
         /\ SumSeq(s) = SumSeq(SubSeq(s, 1, m)) + SumSeq(SubSeq(s, m + 1, Len(s)))
<1> DEFINE n == Len(s)
           a == SubSeq(s, 1, m)
           b == SubSeq(s, m + 1, n)
<1>1. n \in Nat /\ m \in Nat /\ m <= n /\ \A i \in 1..n : s[i] \in Nat
  BY LenProperties, ElementOfSeq
<1>2. a \in Seq(Nat) /\ Len(a) = m /\ \A i \in 1..m : a[i] = s[i]
  <2>1. \A i \in 1..m : s[i] \in Nat
    BY <1>1
  <2>2. /\ a \in Seq(Nat) /\ Len(a) = (IF 1 <= m THEN m - 1 + 1 ELSE 0)
        /\ \A i \in 1 .. m - 1 + 1 : a[i] = s[1 + i - 1]
    BY <1>1, <2>1, SubSeqProperties
  <2> QED BY <1>1, <2>2
<1>3. b \in Seq(Nat) /\ Len(b) = n - m /\ \A j \in 1 .. n - m : b[j] = s[m + j]
  <2>1. \A i \in m + 1 .. n : s[i] \in Nat
    BY <1>1
  <2>2. /\ b \in Seq(Nat) /\ Len(b) = (IF m + 1 <= n THEN n - (m + 1) + 1 ELSE 0)
        /\ \A j \in 1 .. n - (m + 1) + 1 : b[j] = s[(m + 1) + j - 1]
    BY <1>1, <2>1, SubSeqProperties
  <2>3. /\ n - (m + 1) + 1 = n - m /\ \A j \in 1 .. n - m : (m + 1) + j - 1 = m + j
        /\ IF m + 1 <= n THEN TRUE ELSE n - m = 0
    BY <1>1
  <2> HIDE DEF b
  <2>4. \A j \in 1 .. n - m : b[j] = s[(m + 1) + j - 1]
    BY <2>2, <2>3
  <2>5. Len(b) = n - m
    BY <2>2, <2>3
  <2> QED BY <2>2, <2>3, <2>4, <2>5
<1> HIDE DEF a, b
<1>4. a \o b = s
  <2>1. /\ a \o b \in Seq(Nat) /\ Len(a \o b) = m + (n - m)
        /\ \A i \in 1 .. m + (n - m) : (a \o b)[i] = IF i <= m THEN a[i] ELSE b[i - m]
    <3>1. /\ a \o b \in Seq(Nat) /\ Len(a \o b) = Len(a) + Len(b)
          /\ \A i \in 1 .. Len(a) + Len(b) :
               (a \o b)[i] = IF i <= Len(a) THEN a[i] ELSE b[i - Len(a)]
      BY <1>2, <1>3, ConcatProperties
    <3> QED BY <3>1, <1>2, <1>3
  <2>2. m + (n - m) = n
    BY <1>1
  <2>3. ASSUME NEW i \in 1..n PROVE (a \o b)[i] = s[i]
    <3>1. CASE i <= m
      BY <1>2, <2>1, <2>2, <3>1
    <3>2. CASE ~ (i <= m)
      <4>1. i - m \in 1 .. n - m /\ m + (i - m) = i
        BY <1>1, <3>2
      <4> QED BY <1>3, <2>1, <2>2, <3>2, <4>1
    <3> QED BY <3>1, <3>2
  <2> QED BY <2>1, <2>2, <2>3, SeqEqual
<1>5. SumSeq(a \o b) = SumSeq(a) + SumSeq(b)
  BY <1>2, <1>3, SumConcat
<1> QED BY <1>2, <1>3, <1>4, <1>5 DEF a, b, n

\* What is left of a sequence when its first elements are gone.
LEMMA SumSuffix ==
  ASSUME NEW s \in Seq(Nat), NEW m \in 1 .. Len(s) + 1
  PROVE  SumSeq(SubSeq(s, m, Len(s))) <= SumSeq(s)
<1> DEFINE k == m - 1
<1>1. k \in 0 .. Len(s) /\ k + 1 = m
  BY LenProperties
<1> HIDE DEF k
<1>2. /\ SubSeq(s, 1, k) \in Seq(Nat) /\ SubSeq(s, m, Len(s)) \in Seq(Nat)
      /\ SumSeq(s) = SumSeq(SubSeq(s, 1, k)) + SumSeq(SubSeq(s, m, Len(s)))
  BY <1>1, SumSplit
<1>3. SumSeq(SubSeq(s, 1, k)) \in Nat /\ SumSeq(SubSeq(s, m, Len(s))) \in Nat
  BY <1>2, SumIsNat
<1> QED BY <1>2, <1>3

\* A sequence without its head.
LEMMA SumTail ==
  ASSUME NEW s \in Seq(Nat), s # <<>>
  PROVE  Tail(s) \in Seq(Nat) /\ Head(s) \in Nat /\ SumSeq(s) = Head(s) + SumSeq(Tail(s))
<1>1. Tail(s) \in Seq(Nat) /\ Head(s) \in Nat
  BY HeadTailProperties
<1>2. <<>> \in Seq(Nat) /\ <<Head(s)>> = Append(<<>>, Head(s)) /\ SumSeq(<<>>) = 0
  BY EmptySeq, SumEmpty
<1>3. SumSeq(<<Head(s)>>) = Head(s)
  <2>1. SumSeq(Append(<<>>, Head(s))) = SumSeq(<<>>) + Head(s)
    BY <1>1, <1>2, SumAppend
  <2> QED BY <1>1, <1>2, <2>1
<1>4. <<Head(s)>> \in Seq(Nat) /\ s = <<Head(s)>> \o Tail(s)
  BY <1>1
<1>5. SumSeq(<<Head(s)>> \o Tail(s)) = SumSeq(<<Head(s)>>) + SumSeq(Tail(s))
  BY <1>1, <1>4, SumConcat
<1> QED BY <1>1, <1>3, <1>4, <1>5

\* A sequence with an element put in.
LEMMA SumInserted ==
  ASSUME NEW old \in Seq(Nat), NEW new \in Seq(Nat), NEW x \in Nat, NEW k \in Nat,
         Inserts(new, old, k, x)
  PROVE  SumSeq(new) = SumSeq(old) + x
<1> DEFINE n == Len(old)
           rest == SubSeq(old, k, n)
<1>1. /\ n \in Nat /\ Len(new) = n + 1 /\ k \in 1 .. n + 1 /\ new[k] = x
      /\ \A i \in 1..n : old[i] \in Nat
      /\ \A i \in 1 .. k - 1 : new[i] = old[i]
      /\ \A i \in k..n : new[i + 1] = old[i]
  BY LenProperties, ElementOfSeq DEF Inserts
<1>2. /\ rest \in Seq(Nat) /\ Len(rest) = n - k + 1
      /\ \A j \in 1 .. n - k + 1 : rest[j] = old[k + j - 1]
  <2>1. \A i \in k..n : old[i] \in Nat
    BY <1>1
  <2>2. /\ rest \in Seq(Nat) /\ Len(rest) = (IF k <= n THEN n - k + 1 ELSE 0)
        /\ \A j \in 1 .. n - k + 1 : rest[j] = old[k + j - 1]
    BY <1>1, <2>1, SubSeqProperties
  <2> QED BY <1>1, <2>2
<1>3. PICK P : Sums(new, P) /\ SumSeq(new) = P[n + 1]
  BY <1>1, SumsExist
<1>4. PICK Q : Sums(old, Q) /\ SumSeq(old) = Q[n]
  BY SumsExist
<1>5. PICK R : Sums(rest, R)
  BY <1>2, SumsExist
<1> DEFINE l == n - k + 1
           m == k - 1
<1>6. /\ l \in Nat /\ m \in Nat /\ m <= n /\ m <= n + 1 /\ m + l = n /\ k + l = n + 1
      /\ \A j \in 1..l : k + j - 1 = m + j /\ k + j - 1 \in k..n /\ (k + j - 1) + 1 = k + j
  BY <1>1
<1>7. (\A j \in 1..m : new[j] = old[j]) /\ k - 1 = m /\ l = n - k + 1
  BY <1>1
<1> HIDE DEF rest, l, m
<1>8. (\A j \in 1..l : rest[j] = old[m + j]) /\ (\A j \in 1..l : rest[j] = new[k + j])
  <2> SUFFICES ASSUME NEW j \in 1..l PROVE rest[j] = old[m + j] /\ rest[j] = new[k + j]
    OBVIOUS
  <2>1. /\ k + j - 1 = m + j /\ k + j - 1 \in k..n /\ (k + j - 1) + 1 = k + j
    BY <1>6
  <2>2. rest[j] = old[k + j - 1]
    BY <1>2, <1>7
  <2>3. new[(k + j - 1) + 1] = old[k + j - 1]
    BY <1>1, <2>1
  <2> QED BY <2>1, <2>2, <2>3
<1>9. Len(old) = n /\ Len(new) = n + 1 /\ Len(rest) = l /\ n + 1 \in Nat
  BY <1>1, <1>2, <1>7
<1>10. P[m] = Q[m]
  <2>1. m <= Len(new) /\ m <= Len(old) /\ Len(new) \in Nat /\ Len(old) \in Nat
    BY <1>1, <1>6, <1>9
  <2> QED BY <1>3, <1>4, <1>6, <1>7, <2>1, SumsAgree
<1>11. P[k] = P[m] + x
  <2>1. k \in 1 .. Len(new)
    BY <1>1
  <2>2. P[k] = P[k - 1] + new[k]
    BY <1>3, <2>1 DEF Sums
  <2> QED BY <1>1, <1>7, <2>2
<1>12. Q[n] = Q[m] + R[l]
  <2>1. m + Len(rest) <= Len(old) /\ \A j \in 1 .. Len(rest) : rest[j] = old[m + j]
    BY <1>1, <1>6, <1>8, <1>9
  <2>2. Q[m + Len(rest)] = Q[m] + R[Len(rest)]
    <3>1. /\ rest \in Seq(Nat) /\ Sums(old, Q) /\ Sums(rest, R) /\ m \in Nat
          /\ PartOf(rest, old, m)
      BY <1>2, <1>4, <1>5, <1>6, <2>1 DEF PartOf
    <3> QED BY <3>1, SumsShifted
  <2> QED BY <1>6, <1>9, <2>2
<1>13. P[n + 1] = P[k] + R[l]
  <2>1. k + Len(rest) <= Len(new) /\ \A j \in 1 .. Len(rest) : rest[j] = new[k + j]
    BY <1>1, <1>6, <1>8, <1>9
  <2>2. P[k + Len(rest)] = P[k] + R[Len(rest)]
    <3>1. rest \in Seq(Nat) /\ Sums(new, P) /\ Sums(rest, R) /\ PartOf(rest, new, k)
      BY <1>2, <1>3, <1>5, <2>1 DEF PartOf
    <3> QED BY <3>1, SumsShifted
  <2> QED BY <1>6, <1>9, <2>2
<1>14. Q[m] \in Nat /\ R[l] \in Nat
  <2>1. m \in 0..n /\ l \in 0..l
    BY <1>1, <1>6
  <2>2. Q \in [0..n -> Nat] /\ R \in [0..l -> Nat]
    BY <1>4, <1>5, <1>9 DEF Sums
  <2> QED BY <2>1, <2>2
<1>15. SumSeq(new) = (Q[m] + x) + R[l] /\ SumSeq(old) = Q[m] + R[l]
  BY <1>3, <1>4, <1>10, <1>11, <1>12, <1>13
<1>16. (Q[m] + x) + R[l] = (Q[m] + R[l]) + x
  <2> DEFINE u == Q[m]
             v == R[l]
  <2>1. u \in Nat /\ v \in Nat
    BY <1>14
  <2> HIDE DEF u, v
  <2>2. (u + x) + v = (u + v) + x
    BY <2>1
  <2> QED BY <2>2 DEF u, v
<1> QED BY <1>15, <1>16

\* Elements that are not greater add up to no more.
LEMMA SumMonotone ==
  ASSUME NEW s \in Seq(Nat), NEW t \in Seq(Nat), Len(s) = Len(t),
         \A k \in 1 .. Len(s) : s[k] <= t[k]
  PROVE  SumSeq(s) <= SumSeq(t)
<1> DEFINE n == Len(s)
<1>1. n \in Nat /\ Len(t) = n /\ \A k \in 1..n : s[k] \in Nat /\ t[k] \in Nat /\ s[k] <= t[k]
  BY LenProperties, ElementOfSeq
<1>2. PICK P : Sums(s, P) /\ SumSeq(s) = P[n]
  BY SumsExist
<1>3. PICK Q : Sums(t, Q) /\ SumSeq(t) = Q[n]
  BY SumsExist
<1>4. /\ P \in [0..n -> Nat] /\ P[0] = 0 /\ \A k \in 1..n : P[k] = P[k - 1] + s[k]
      /\ Q \in [0..n -> Nat] /\ Q[0] = 0 /\ \A k \in 1..n : Q[k] = Q[k - 1] + t[k]
  BY <1>2, <1>3 DEF Sums
<1> HIDE DEF n
<1> DEFINE Bad == {k \in 0..n : P[k] > Q[k]}
<1>5. Bad = {}
  <2> SUFFICES ASSUME Bad # {} PROVE FALSE
    OBVIOUS
  <2>1. PICK k \in Bad : \A j \in Bad : k <= j
    <3>1. Bad \in SUBSET Nat
      OBVIOUS
    <3> HIDE DEF Bad
    <3> QED BY <3>1, LeastNumber
  <2>2. k # 0
    BY <1>1, <1>4
  <2>3. k \in 1..n /\ k - 1 \in 0..n
    BY <1>1, <2>2
  <2>4. k - 1 \notin Bad
    <3> HIDE DEF Bad
    <3> QED BY <2>1, <2>3
  <2>5. ~ (P[k - 1] > Q[k - 1]) /\ P[k] > Q[k]
    BY <2>3, <2>4
  <2>6. P[k] = P[k - 1] + s[k] /\ Q[k] = Q[k - 1] + t[k]
    BY <1>4, <2>3
  <2>7. P[k - 1] \in Nat /\ Q[k - 1] \in Nat /\ s[k] \in Nat /\ t[k] \in Nat /\ s[k] <= t[k]
    BY <1>1, <1>4, <2>3
  <2> QED BY <2>5, <2>6, <2>7
<1>6. n \in 0..n /\ n \notin Bad
  BY <1>1, <1>5
<1>7. P[n] \in Nat /\ Q[n] \in Nat /\ ~ (P[n] > Q[n])
  BY <1>4, <1>6
<1> QED BY <1>2, <1>3, <1>7

\* Elements that are not smaller than b add up to as many times b.
LEMMA SumAtLeast ==
  ASSUME NEW s \in Seq(Nat), NEW b \in Nat, \A k \in 1 .. Len(s) : b <= s[k]
  PROVE  b * Len(s) <= SumSeq(s)
<1> DEFINE n == Len(s)
<1>1. n \in Nat /\ \A k \in 1..n : s[k] \in Nat
  BY LenProperties, ElementOfSeq
<1>2. PICK P : Sums(s, P) /\ SumSeq(s) = P[n]
  BY SumsExist
<1>3. P \in [0..n -> Nat] /\ P[0] = 0 /\ \A k \in 1..n : P[k] = P[k - 1] + s[k]
  BY <1>2 DEF Sums
<1>4. \A k \in 1..n : b <= s[k]
  OBVIOUS
<1> HIDE DEF n
<1> DEFINE Less == {k \in 0..n : P[k] < b * k}
<1>5. Less = {}
  <2> SUFFICES ASSUME Less # {} PROVE FALSE
    OBVIOUS
  <2>1. PICK k \in Less : \A j \in Less : k <= j
    <3>1. Less \in SUBSET Nat
      OBVIOUS
    <3> HIDE DEF Less
    <3> QED BY <3>1, LeastNumber
  <2>2. k # 0
    BY <1>1, <1>3
  <2>3. k \in 1..n /\ k - 1 \in 0..n
    BY <1>1, <2>2
  <2>4. k - 1 \notin Less
    <3> HIDE DEF Less
    <3> QED BY <2>1, <2>3
  <2>5. ~ (P[k - 1] < b * (k - 1)) /\ P[k] < b * k
    BY <2>3, <2>4
  <2>6. b * k = b * (k - 1) + b
    BY <2>3, Z3
  <2>7. P[k] = P[k - 1] + s[k] /\ b <= s[k] /\ s[k] \in Nat /\ P[k - 1] \in Nat
    BY <1>1, <1>3, <1>4, <2>3
  <2> DEFINE x == b * (k - 1)
  <2>8. x \in Int
    BY <2>3, Z3
  <2> HIDE DEF x
  <2> QED BY <2>5, <2>6, <2>7, <2>8 DEF x
<1>6. n \in 0..n /\ n \notin Less
  BY <1>1, <1>5
<1>7. P[n] \in Nat /\ b * n \in Int
  BY <1>1, <1>3, Z3
<1> QED BY <1>2, <1>6, <1>7 DEF n

\* The sum of multiples is the multiple of the sum.
LEMMA SumScaled ==
  ASSUME NEW s \in Seq(Nat), NEW t \in Seq(Nat), NEW c \in Nat, Len(t) = Len(s),
         \A k \in 1 .. Len(s) : t[k] = s[k] * c
  PROVE  SumSeq(t) = SumSeq(s) * c
<1> DEFINE n == Len(s)
<1>1. n \in Nat /\ \A k \in 1..n : s[k] \in Nat
  BY LenProperties, ElementOfSeq
<1>2. PICK P : Sums(s, P) /\ SumSeq(s) = P[n]
  BY SumsExist
<1>3. PICK Q : Sums(t, Q) /\ SumSeq(t) = Q[n]
  BY SumsExist
<1>4. P \in [0..n -> Nat] /\ P[0] = 0 /\ \A k \in 1..n : P[k] = P[k - 1] + s[k]
  BY <1>2 DEF Sums
<1>5. Q \in [0..n -> Nat] /\ Q[0] = 0 /\ \A k \in 1..n : Q[k] = Q[k - 1] + t[k]
  BY <1>3 DEF Sums
<1>6. \A k \in 1..n : t[k] = s[k] * c
  OBVIOUS
<1> HIDE DEF n
<1> DEFINE Off == {k \in 0..n : Q[k] # P[k] * c}
<1>7. Off = {}
  <2> SUFFICES ASSUME Off # {} PROVE FALSE
    OBVIOUS
  <2>1. PICK k \in Off : \A j \in Off : k <= j
    <3>1. Off \in SUBSET Nat
      OBVIOUS
    <3> HIDE DEF Off
    <3> QED BY <3>1, LeastNumber
  <2>2. k # 0
    BY <1>1, <1>4, <1>5
  <2>3. k \in 1..n /\ k - 1 \in 0..n
    BY <1>1, <2>2
  <2>4. k - 1 \notin Off
    <3> HIDE DEF Off
    <3> QED BY <2>1, <2>3
  <2>5. Q[k - 1] = P[k - 1] * c /\ Q[k] # P[k] * c
    BY <2>3, <2>4
  <2>6. P[k] = P[k - 1] + s[k] /\ Q[k] = Q[k - 1] + s[k] * c
    BY <1>4, <1>5, <1>6, <2>3
  <2>7. P[k - 1] \in Nat /\ s[k] \in Nat
    BY <1>1, <1>4, <2>3
  <2>8. (P[k - 1] + s[k]) * c = P[k - 1] * c + s[k] * c
    <3>1. \A x, y, z \in Nat : (x + y) * z = x * z + y * z
      OBVIOUS
    <3> HIDE DEF Off
    <3> QED BY <2>7, <3>1
  <2> QED BY <2>5, <2>6, <2>8
<1>8. n \in 0..n
  BY <1>1
<1>9. Q[n] = P[n] * c
  BY <1>7, <1>8
<1> QED BY <1>2, <1>3, <1>9

\* Elements that lie one behind the other, the k-th of them ending at b[k].
LEMMA SumPlaced ==
  ASSUME NEW s \in Seq(Nat), NEW b, \A k \in 1 .. Len(s) : b[k] \in Nat /\ s[k] <= b[k],
         \A k \in 2 .. Len(s) : b[k - 1] + s[k] <= b[k], Len(s) > 0
  PROVE  SumSeq(s) <= b[Len(s)]
<1> DEFINE n == Len(s)
<1>1. n \in Nat /\ n > 0 /\ \A k \in 1..n : s[k] \in Nat
  BY LenProperties, ElementOfSeq
<1>2. PICK P : Sums(s, P) /\ SumSeq(s) = P[n]
  BY SumsExist
<1>3. P \in [0..n -> Nat] /\ P[0] = 0 /\ \A k \in 1..n : P[k] = P[k - 1] + s[k]
  BY <1>2 DEF Sums
<1>4. /\ \A k \in 1..n : b[k] \in Nat /\ s[k] <= b[k]
      /\ \A k \in 2..n : b[k - 1] + s[k] <= b[k]
  OBVIOUS
<1> HIDE DEF n
<1> DEFINE More == {k \in 1..n : ~ (P[k] <= b[k])}
<1>5. More = {}
  <2> SUFFICES ASSUME More # {} PROVE FALSE
    OBVIOUS
  <2>1. PICK k \in More : \A j \in More : k <= j
    <3>1. More \in SUBSET Nat
      OBVIOUS
    <3> HIDE DEF More
    <3> QED BY <3>1, LeastNumber
  <2>2. k \in 1..n /\ ~ (P[k] <= b[k]) /\ k - 1 \in 0..n
    BY <1>1
  <2>3. P[k] = P[k - 1] + s[k] /\ P[k - 1] \in Nat /\ s[k] \in Nat /\ b[k] \in Nat
    BY <1>1, <1>3, <1>4, <2>2
  <2>4. CASE k = 1
    BY <1>3, <1>4, <2>2, <2>3, <2>4
  <2>5. CASE k # 1
    <3>1. k \in 2..n /\ k - 1 \in 1..n
      BY <1>1, <2>2, <2>5
    <3>2. k - 1 \notin More
      <4> HIDE DEF More
      <4> QED BY <2>1, <3>1
    <3>3. P[k - 1] <= b[k - 1] /\ b[k - 1] + s[k] <= b[k] /\ b[k - 1] \in Nat
      BY <1>4, <3>1, <3>2
    <3> QED BY <2>2, <2>3, <3>3
  <2> QED BY <2>4, <2>5
<1>6. n \in 1..n /\ n \notin More
  <2>1. n \in 1..n
    BY <1>1
  <2> HIDE DEF More
  <2> QED BY <1>5, <2>1
<1>7. P[n] <= b[n]
  BY <1>6
<1> HIDE DEF More
<1> QED BY <1>2, <1>7 DEF n

-----------------------------------------------------------------------------
(* What the events of a list carry.                                        *)

\* The weights of the elements of a list, and what they add up to.
Weights(list, w) == [i \in DOMAIN list |-> w[list[i]]]
TotalWeight(list, w) == SumSeq(Weights(list, w))

\* Weights are numbers.
LEMMA WeightFacts ==
  ASSUME NEW S, NEW list \in Seq(S), NEW w \in [S -> Nat]
  PROVE  /\ Weights(list, w) \in Seq(Nat) /\ Len(Weights(list, w)) = Len(list)
         /\ \A i \in 1 .. Len(list) : Weights(list, w)[i] = w[list[i]]
         /\ TotalWeight(list, w) \in Nat
<1> DEFINE n == Len(list)
           ws == Weights(list, w)
<1>1. n \in Nat /\ DOMAIN list = 1..n /\ \A i \in 1..n : list[i] \in S
  BY LenProperties, ElementOfSeq
<1>2. ws = [i \in 1..n |-> w[list[i]]]
  BY <1>1 DEF Weights
<1> HIDE DEF n, ws
<1>3. ws \in [1..n -> Nat]
  BY <1>1, <1>2
<1>4. ws \in Seq(Nat) /\ Len(ws) = n
  BY <1>1, <1>3, SeqDef, LenProperties
<1>5. SumSeq(ws) \in Nat
  BY <1>4, SumIsNat
<1>6. \A i \in 1..n : ws[i] = w[list[i]]
  BY <1>2
<1> QED BY <1>4, <1>5, <1>6 DEF TotalWeight, n, ws

\* An event more.
LEMMA WeightInserted ==
  ASSUME NEW S, NEW old \in Seq(S), NEW new \in Seq(S), NEW event \in S, NEW w \in [S -> Nat],
         NEW k \in Nat, Inserted(new, old, k, event)
  PROVE  TotalWeight(new, w) = TotalWeight(old, w) + w[event]
<1> DEFINE n == Len(old)
           a == Weights(old, w)
           b == Weights(new, w)
<1>1. /\ a \in Seq(Nat) /\ Len(a) = n /\ \A i \in 1..n : a[i] = w[old[i]]
      /\ b \in Seq(Nat) /\ Len(b) = Len(new) /\ \A i \in 1 .. Len(new) : b[i] = w[new[i]]
  BY WeightFacts
<1>2. /\ Len(new) = n + 1 /\ k \in 1 .. n + 1 /\ new[k] = event
      /\ \A i \in 1 .. n + 1 : i # k => new[i] = old[Before(i, k)]
  BY DEF Inserted
<1>3. n \in Nat /\ w[event] \in Nat
  BY LenProperties
<1> HIDE DEF n, a, b
<1>4. ASSUME NEW i \in 1 .. k - 1 PROVE b[i] = a[i]
  <2>1. i \in 1 .. n + 1 /\ i \in 1..n /\ i # k /\ Before(i, k) = i
    BY <1>2, <1>3 DEF Before
  <2>2. new[i] = old[i]
    BY <2>1, <1>2
  <2>3. b[i] = w[new[i]] /\ a[i] = w[old[i]]
    BY <2>1, <1>1, <1>2
  <2> QED BY <2>2, <2>3
<1>5. ASSUME NEW i \in k..n PROVE b[i + 1] = a[i]
  <2>1. i + 1 \in 1 .. n + 1 /\ i \in 1..n /\ i + 1 # k /\ Before(i + 1, k) = i
    BY <1>2, <1>3 DEF Before
  <2>2. new[i + 1] = old[i]
    BY <2>1, <1>2
  <2>3. b[i + 1] = w[new[i + 1]] /\ a[i] = w[old[i]]
    BY <2>1, <1>1, <1>2
  <2> QED BY <2>2, <2>3
<1>6. Inserts(b, a, k, w[event])
  BY <1>1, <1>2, <1>4, <1>5 DEF Inserts
<1>7. SumSeq(b) = SumSeq(a) + w[event]
  BY <1>1, <1>3, <1>6, SumInserted
<1> QED BY <1>7 DEF TotalWeight, a, b

\* The event in front less.
LEMMA WeightTail ==
  ASSUME NEW S, NEW list \in Seq(S), list # <<>>, NEW w \in [S -> Nat]
  PROVE  TotalWeight(list, w) = w[Head(list)] + TotalWeight(Tail(list), w)
<1> DEFINE a == Weights(list, w)
           b == Weights(Tail(list), w)
           n == Len(list)
<1>1. /\ Tail(list) \in Seq(S) /\ Len(Tail(list)) = n - 1 /\ Head(list) = list[1]
      /\ \A i \in 1 .. n - 1 : Tail(list)[i] = list[i + 1]
  BY HeadTailProperties
<1>2. n \in Nat /\ n > 0
  BY EmptySeq
<1>3. /\ a \in Seq(Nat) /\ Len(a) = n /\ \A i \in 1..n : a[i] = w[list[i]]
      /\ b \in Seq(Nat) /\ Len(b) = n - 1 /\ \A i \in 1 .. n - 1 : b[i] = w[Tail(list)[i]]
  <2>1. a \in Seq(Nat) /\ Len(a) = n /\ \A i \in 1..n : a[i] = w[list[i]]
    BY WeightFacts
  <2>2. Tail(list) \in Seq(S)
    BY <1>1
  <2>3. /\ b \in Seq(Nat) /\ Len(b) = Len(Tail(list))
        /\ \A i \in 1 .. Len(Tail(list)) : b[i] = w[Tail(list)[i]]
    BY <2>2, WeightFacts
  <2> QED BY <2>1, <2>3, <1>1
<1> HIDE DEF a, b, n
<1>4. a # <<>>
  <2>1. Len(<<>>) = 0
    OBVIOUS
  <2> QED BY <1>2, <1>3, <2>1
<1>5. /\ Tail(a) \in Seq(Nat) /\ Len(Tail(a)) = n - 1 /\ Head(a) = a[1]
      /\ \A i \in 1 .. n - 1 : Tail(a)[i] = a[i + 1]
  BY <1>3, <1>4, HeadTailProperties
<1>6. Tail(a) = b
  <2>1. ASSUME NEW i \in 1 .. n - 1 PROVE Tail(a)[i] = b[i]
    <3>1. i + 1 \in 1..n
      BY <1>2
    <3>2. Tail(a)[i] = a[i + 1] /\ a[i + 1] = w[list[i + 1]]
      BY <3>1, <1>3, <1>5
    <3>3. b[i] = w[Tail(list)[i]] /\ Tail(list)[i] = list[i + 1]
      BY <1>1, <1>3
    <3> QED BY <3>2, <3>3
  <2> QED BY <2>1, <1>3, <1>5, SeqEqual
<1>7. Head(a) = w[Head(list)]
  <2>1. 1 \in 1..n
    BY <1>2
  <2> QED BY <2>1, <1>1, <1>3, <1>5
<1>8. SumSeq(a) = Head(a) + SumSeq(Tail(a))
  BY <1>3, <1>4, SumTail
<1> QED BY <1>6, <1>7, <1>8 DEF TotalWeight, a, b

\* Several events more.
LEMMA WeightScheduled ==
  ASSUME NEW S, NEW list \in Seq(S), NEW events \in Seq(S),
         Timed(list), Sorted(list), Timed(events), NEW w \in [S -> Nat]
  PROVE  TotalWeight(ScheduleAll(list, events), w) = TotalWeight(list, w) + TotalWeight(events, w)
<1> DEFINE n == Len(events)
<1>1. PICK acc : ScheduledOneByOne(S, list, events, acc) /\ ScheduleAll(list, events) = acc[n]
  BY ScheduleAllSteps
<1> DEFINE ws == Weights(events, w)
<1>0. ws \in Seq(Nat) /\ Len(ws) = n /\ \A k \in 1..n : ws[k] = w[events[k]]
  BY WeightFacts
<1>2. PICK P : Sums(ws, P) /\ TotalWeight(events, w) = P[n]
  <2>1. \E P : Sums(ws, P) /\ SumSeq(ws) = P[Len(ws)]
    <3> HIDE DEF ws
    <3> QED BY <1>0, SumsExist
  <2> QED BY <2>1, <1>0 DEF TotalWeight
<1>3. n \in Nat /\ \A k \in 1..n : events[k] \in S
  BY LenProperties, ElementOfSeq
<1>4. /\ acc[0] = list /\ \A k \in 0..n : acc[k] \in Seq(S)
      /\ \A k \in 1..n : \E p \in Nat : Inserted(acc[k], acc[k - 1], p, events[k])
  BY <1>1 DEF ScheduledOneByOne
<1>5. /\ P \in [0..n -> Nat] /\ P[0] = 0
      /\ \A k \in 1..n : P[k] = P[k - 1] + w[events[k]]
  <2> HIDE DEF ws
  <2> QED BY <1>0, <1>2 DEF Sums
<1>6. TotalWeight(list, w) \in Nat /\ \A k \in 1..n : w[events[k]] \in Nat
  BY <1>3, WeightFacts
<1> HIDE DEF n, ws
<1> DEFINE Bad == {k \in 0..n : TotalWeight(acc[k], w) # TotalWeight(list, w) + P[k]}
<1>7. Bad = {}
  <2> SUFFICES ASSUME Bad # {} PROVE FALSE
    OBVIOUS
  <2>1. PICK k \in Bad : \A j \in Bad : k <= j
    <3>1. Bad \in SUBSET Nat
      OBVIOUS
    <3> HIDE DEF Bad
    <3> QED BY <3>1, LeastNumber
  <2>2. k # 0
    <3>1. TotalWeight(list, w) + 0 = TotalWeight(list, w)
      BY <1>6
    <3> QED BY <1>4, <1>5, <3>1
  <2>3. k \in 1..n /\ k - 1 \in 0..n /\ k \in 0..n
    BY <1>3, <2>2
  <2>4. k - 1 \notin Bad
    <3> HIDE DEF Bad
    <3> QED BY <2>1, <2>3
  <2>5. TotalWeight(acc[k - 1], w) = TotalWeight(list, w) + P[k - 1]
    BY <2>3, <2>4
  <2>6. TotalWeight(acc[k], w) = TotalWeight(acc[k - 1], w) + w[events[k]]
    <3>1. PICK p \in Nat : Inserted(acc[k], acc[k - 1], p, events[k])
      BY <1>4, <2>3
    <3>2. acc[k] \in Seq(S) /\ acc[k - 1] \in Seq(S) /\ events[k] \in S
      BY <1>3, <1>4, <2>3
    <3> QED BY <3>1, <3>2, WeightInserted
  <2>7. P[k] = P[k - 1] + w[events[k]] /\ P[k - 1] \in Nat /\ w[events[k]] \in Nat
    BY <1>5, <1>6, <2>3
  <2>8. (TotalWeight(list, w) + P[k - 1]) + w[events[k]] = TotalWeight(list, w) + (P[k - 1] + w[events[k]])
    BY <1>6, <2>7, AddThree, Zenon
  <2>9. TotalWeight(acc[k], w) # TotalWeight(list, w) + P[k]
    OBVIOUS
  <2> QED BY <2>5, <2>6, <2>7, <2>8, <2>9, Zenon
<1>8. n \in 0..n
  BY <1>3
<1>9. TotalWeight(acc[n], w) = TotalWeight(list, w) + P[n]
  BY <1>7, <1>8
<1> QED BY <1>1, <1>2, <1>9 DEF n

\* Events that carry nothing.
LEMMA WeightZero ==
  ASSUME NEW S, NEW list \in Seq(S), NEW w \in [S -> Nat],
         \A i \in 1 .. Len(list) : w[list[i]] = 0
  PROVE  TotalWeight(list, w) = 0
<1> DEFINE n == Len(list)
<1>1. n \in Nat
  BY LenProperties
<1> DEFINE ws == Weights(list, w)
<1>0. ws \in Seq(Nat) /\ Len(ws) = n /\ \A k \in 1..n : ws[k] = 0
  BY WeightFacts
<1>2. PICK P : Sums(ws, P) /\ TotalWeight(list, w) = P[n]
  <2>1. \E P : Sums(ws, P) /\ SumSeq(ws) = P[Len(ws)]
    <3> HIDE DEF ws
    <3> QED BY <1>0, SumsExist
  <2> QED BY <2>1, <1>0 DEF TotalWeight
<1>3. P \in [0..n -> Nat] /\ P[0] = 0 /\ \A k \in 1..n : P[k] = P[k - 1] + 0
  <2> HIDE DEF ws
  <2> QED BY <1>0, <1>2 DEF Sums
<1> HIDE DEF n, ws
<1> DEFINE Bad == {k \in 0..n : P[k] # 0}
<1>4. Bad = {}
  <2> SUFFICES ASSUME Bad # {} PROVE FALSE
    OBVIOUS
  <2>1. PICK k \in Bad : \A j \in Bad : k <= j
    <3>1. Bad \in SUBSET Nat
      OBVIOUS
    <3> HIDE DEF Bad
    <3> QED BY <3>1, LeastNumber
  <2>2. k \in 1..n /\ k - 1 \in 0..n /\ P[k] # 0
    BY <1>1, <1>3
  <2>3. k - 1 \notin Bad
    <3> HIDE DEF Bad
    <3> QED BY <2>1, <2>2
  <2> QED BY <1>3, <2>2, <2>3
<1>5. n \in 0..n
  BY <1>1
<1> QED BY <1>2, <1>4, <1>5

\* One list after the other.
LEMMA WeightConcat ==
  ASSUME NEW S, NEW s \in Seq(S), NEW t \in Seq(S), NEW w \in [S -> Nat]
  PROVE  TotalWeight(s \o t, w) = TotalWeight(s, w) + TotalWeight(t, w)
<1> DEFINE a == Weights(s, w)
           b == Weights(t, w)
           c == Weights(s \o t, w)
           n == Len(s)
           m == Len(t)
<1>1. a \in Seq(Nat) /\ Len(a) = n /\ \A i \in 1..n : a[i] = w[s[i]]
  BY WeightFacts
<1>2. b \in Seq(Nat) /\ Len(b) = m /\ \A i \in 1..m : b[i] = w[t[i]]
  BY WeightFacts
<1>3. /\ s \o t \in Seq(S) /\ Len(s \o t) = n + m
      /\ \A i \in 1 .. n + m : (s \o t)[i] = IF i <= n THEN s[i] ELSE t[i - n]
  BY ConcatProperties
<1>4. c \in Seq(Nat) /\ Len(c) = n + m /\ \A i \in 1 .. n + m : c[i] = w[(s \o t)[i]]
  <2>1. s \o t \in Seq(S)
    BY <1>3
  <2>2. /\ c \in Seq(Nat) /\ Len(c) = Len(s \o t)
        /\ \A i \in 1 .. Len(s \o t) : c[i] = w[(s \o t)[i]]
    BY <2>1, WeightFacts
  <2> QED BY <2>2, <1>3
<1>5. n \in Nat /\ m \in Nat
  BY LenProperties
<1> HIDE DEF a, b, c, n, m
<1>6. /\ a \o b \in Seq(Nat) /\ Len(a \o b) = n + m
      /\ \A i \in 1 .. n + m : (a \o b)[i] = IF i <= n THEN a[i] ELSE b[i - n]
  <2>1. /\ a \o b \in Seq(Nat) /\ Len(a \o b) = Len(a) + Len(b)
        /\ \A i \in 1 .. Len(a) + Len(b) :
             (a \o b)[i] = IF i <= Len(a) THEN a[i] ELSE b[i - Len(a)]
    BY <1>1, <1>2, ConcatProperties
  <2> QED BY <2>1, <1>1, <1>2
<1>7. ASSUME NEW i \in 1 .. n + m PROVE c[i] = (a \o b)[i]
  <2>1. CASE i <= n
    <3>1. i \in 1..n
      BY <2>1, <1>5
    <3>2. (s \o t)[i] = s[i] /\ (a \o b)[i] = a[i]
      BY <2>1, <1>3, <1>6
    <3> QED BY <3>1, <3>2, <1>1, <1>4
  <2>2. CASE ~ (i <= n)
    <3>1. i - n \in 1..m
      BY <2>2, <1>5
    <3>2. (s \o t)[i] = t[i - n] /\ (a \o b)[i] = b[i - n]
      BY <2>2, <1>3, <1>6
    <3> QED BY <3>1, <3>2, <1>2, <1>4
  <2> QED BY <2>1, <2>2
<1>8. c = a \o b
  BY <1>4, <1>6, <1>7, SeqEqual
<1>9. SumSeq(a \o b) = SumSeq(a) + SumSeq(b)
  BY <1>1, <1>2, SumConcat
<1> QED BY <1>8, <1>9 DEF TotalWeight, a, b, c

\* One element.
LEMMA WeightOfOne ==
  ASSUME NEW S, NEW x \in S, NEW w \in [S -> Nat]
  PROVE  TotalWeight(<<x>>, w) = w[x]
<1>1. <<x>> \in Seq(S) /\ <<x>> # <<>> /\ Head(<<x>>) = x /\ Tail(<<x>>) = <<>>
  OBVIOUS
<1>2. TotalWeight(<<x>>, w) = w[Head(<<x>>)] + TotalWeight(Tail(<<x>>), w)
  BY <1>1, WeightTail
<1>3. TotalWeight(<<>>, w) = 0
  <2>1. <<>> \in Seq(S) /\ \A i \in 1 .. Len(<<>>) : w[<<>>[i]] = 0
    OBVIOUS
  <2> QED BY <2>1, WeightZero
<1>4. w[x] \in Nat
  OBVIOUS
<1> QED BY <1>1, <1>2, <1>3, <1>4

\* An element more at the end.
LEMMA WeightAppend ==
  ASSUME NEW S, NEW s \in Seq(S), NEW x \in S, NEW w \in [S -> Nat]
  PROVE  TotalWeight(Append(s, x), w) = TotalWeight(s, w) + w[x]
<1>1. Append(s, x) = s \o <<x>> /\ <<x>> \in Seq(S)
  BY AppendIsConcat
<1>2. TotalWeight(s \o <<x>>, w) = TotalWeight(s, w) + TotalWeight(<<x>>, w)
  BY <1>1, WeightConcat
<1> QED BY <1>1, <1>2, WeightOfOne

\* Lists whose elements carry the same.
LEMMA WeightSame ==
  ASSUME NEW S, NEW s \in Seq(S), NEW t \in Seq(S), Len(s) = Len(t), NEW w \in [S -> Nat],
         \A i \in 1 .. Len(s) : w[s[i]] = w[t[i]]
  PROVE  TotalWeight(s, w) = TotalWeight(t, w)
<1> DEFINE a == Weights(s, w)
           b == Weights(t, w)
<1>1. a \in Seq(Nat) /\ Len(a) = Len(s) /\ \A i \in 1 .. Len(s) : a[i] = w[s[i]]
  BY WeightFacts
<1>2. b \in Seq(Nat) /\ Len(b) = Len(t) /\ \A i \in 1 .. Len(t) : b[i] = w[t[i]]
  BY WeightFacts
<1> HIDE DEF a, b
<1>3. Len(a) = Len(b) /\ \A i \in 1 .. Len(a) : a[i] = b[i]
  BY <1>1, <1>2
<1>4. a = b
  BY <1>1, <1>2, <1>3, SeqEqual
<1> QED BY <1>4 DEF TotalWeight, a, b

-----------------------------------------------------------------------------
(* Amounts dealt out to rooms, and sequences put together.                 *)

\* What holds of zero and of each number with the one before it, holds of all.
LEMMA CountUp ==
  ASSUME NEW n \in Nat, NEW T, 0 \in T, \A k \in 1..n : k - 1 \in T => k \in T
  PROVE  \A k \in 0..n : k \in T
<1> DEFINE Missing == {k \in 0..n : k \notin T}
<1> SUFFICES ASSUME Missing # {} PROVE FALSE
  OBVIOUS
<1>1. PICK k \in Missing : \A j \in Missing : k <= j
  <2>1. Missing \in SUBSET Nat
    OBVIOUS
  <2> HIDE DEF Missing
  <2> QED BY <2>1, LeastNumber
<1>2. k \in 1..n /\ k - 1 \in 0..n /\ k \notin T
  OBVIOUS
<1>3. k - 1 \notin Missing
  <2> HIDE DEF Missing
  <2> QED BY <1>1, <1>2
<1> QED BY <1>2, <1>3

\* Sequences added element by element.
LEMMA SumAdded ==
  ASSUME NEW s \in Seq(Nat), NEW t \in Seq(Nat), NEW u \in Seq(Nat),
         Len(t) = Len(s), Len(u) = Len(s), \A k \in 1 .. Len(s) : u[k] = s[k] + t[k]
  PROVE  SumSeq(u) = SumSeq(s) + SumSeq(t)
<1> DEFINE n == Len(s)
<1>1. n \in Nat /\ \A k \in 1..n : s[k] \in Nat /\ t[k] \in Nat
  BY LenProperties, ElementOfSeq
<1>2. PICK P : Sums(s, P) /\ SumSeq(s) = P[n]
  BY SumsExist
<1>3. PICK Q : Sums(t, Q) /\ SumSeq(t) = Q[n]
  BY SumsExist
<1>4. PICK R : Sums(u, R) /\ SumSeq(u) = R[n]
  BY SumsExist
<1>5. /\ P \in [0..n -> Nat] /\ P[0] = 0 /\ \A k \in 1..n : P[k] = P[k - 1] + s[k]
      /\ Q \in [0..n -> Nat] /\ Q[0] = 0 /\ \A k \in 1..n : Q[k] = Q[k - 1] + t[k]
      /\ R \in [0..n -> Nat] /\ R[0] = 0 /\ \A k \in 1..n : R[k] = R[k - 1] + (s[k] + t[k])
  BY <1>2, <1>3, <1>4 DEF Sums
<1> HIDE DEF n
<1> DEFINE T == {k \in 0..n : R[k] = P[k] + Q[k]}
<1>6. 0 \in T
  BY <1>1, <1>5
<1>7. ASSUME NEW k \in 1..n, k - 1 \in T PROVE k \in T
  <2>1. k - 1 \in 0..n /\ k \in 0..n
    BY <1>1
  <2>2. R[k - 1] = P[k - 1] + Q[k - 1]
    BY <1>7
  <2>3. /\ R[k] = R[k - 1] + (s[k] + t[k]) /\ P[k] = P[k - 1] + s[k] /\ Q[k] = Q[k - 1] + t[k]
        /\ P[k - 1] \in Nat /\ Q[k - 1] \in Nat /\ s[k] \in Nat /\ t[k] \in Nat
    BY <1>1, <1>5, <2>1
  <2> HIDE DEF T
  <2>4. R[k] = P[k] + Q[k]
    <3> DEFINE a == P[k - 1]
               b == Q[k - 1]
               c == s[k]
               e == t[k]
    <3>1. a \in Nat /\ b \in Nat /\ c \in Nat /\ e \in Nat
      BY <2>3
    <3>2. R[k] = (a + b) + (c + e) /\ P[k] = a + c /\ Q[k] = b + e
      BY <2>2, <2>3
    <3> HIDE DEF a, b, c, e
    <3> QED BY <3>1, <3>2
  <2> QED BY <2>1, <2>4 DEF T
<1>8. \A k \in 0..n : k \in T
  <2> HIDE DEF T
  <2> QED BY <1>1, <1>6, <1>7, CountUp
<1>9. n \in 0..n
  BY <1>1
<1> QED BY <1>2, <1>3, <1>4, <1>8, <1>9

\* What is between one cut and the next adds up to the last cut.
LEMMA SumBetween ==
  ASSUME NEW u \in Seq(Nat), NEW cut, \A k \in 0 .. Len(u) : cut[k] \in Nat, cut[0] = 0,
         \A k \in 1 .. Len(u) : cut[k] = cut[k - 1] + u[k]
  PROVE  SumSeq(u) = cut[Len(u)]
<1> DEFINE n == Len(u)
<1>1. n \in Nat
  BY LenProperties
<1>2. PICK P : Sums(u, P) /\ SumSeq(u) = P[n]
  BY SumsExist
<1>3. P[0] = 0 /\ \A k \in 1..n : P[k] = P[k - 1] + u[k]
  BY <1>2 DEF Sums
<1>4. cut[0] = 0 /\ \A k \in 1..n : cut[k] = cut[k - 1] + u[k]
  OBVIOUS
<1> HIDE DEF n
<1> DEFINE Same == {k \in 0..n : P[k] = cut[k]}
<1>5. 0 \in Same
  BY <1>1, <1>3, <1>4
<1>6. ASSUME NEW k \in 1..n, k - 1 \in Same PROVE k \in Same
  <2>1. P[k - 1] = cut[k - 1] /\ k \in 0..n
    BY <1>1, <1>6
  <2> QED BY <1>3, <1>4, <2>1
<1>7. \A k \in 0..n : k \in Same
  <2> HIDE DEF Same
  <2> QED BY <1>1, <1>5, <1>6, CountUp
<1>8. n \in 0..n
  BY <1>1
<1> QED BY <1>2, <1>7, <1>8 DEF n

\* The sum of an initial part is the sum up to there.
LEMMA SumOfPart ==
  ASSUME NEW s \in Seq(Nat), NEW P, Sums(s, P), NEW k \in 0 .. Len(s)
  PROVE  SubSeq(s, 1, k) \in Seq(Nat) /\ SumSeq(SubSeq(s, 1, k)) = P[k]
<1> DEFINE a == SubSeq(s, 1, k)
<1>1. Len(s) \in Nat /\ k \in Nat /\ k <= Len(s) /\ \A i \in 1 .. Len(s) : s[i] \in Nat
  BY LenProperties, ElementOfSeq
<1>2. a \in Seq(Nat) /\ Len(a) = k /\ \A i \in 1..k : a[i] = s[i]
  <2>1. \A i \in 1..k : s[i] \in Nat
    BY <1>1
  <2>2. /\ a \in Seq(Nat) /\ Len(a) = (IF 1 <= k THEN k - 1 + 1 ELSE 0)
        /\ \A i \in 1 .. k - 1 + 1 : a[i] = s[1 + i - 1]
    BY <1>1, <2>1, SubSeqProperties
  <2> QED BY <1>1, <2>2
<1> HIDE DEF a
<1>3. PICK Q : Sums(a, Q) /\ SumSeq(a) = Q[Len(a)]
  BY <1>2, SumsExist
<1>4. Q[k] = P[k]
  BY <1>1, <1>2, <1>3, SumsAgree
<1> QED BY <1>2, <1>3, <1>4 DEF a

\* Each room is given at most what it holds, and together they are given the
\* amount, unless they are all full.
LEMMA DealtFacts ==
  ASSUME NEW rooms \in Seq(Nat), NEW amount \in Nat
  PROVE  /\ Dealt(rooms, amount) \in Seq(Nat) /\ Len(Dealt(rooms, amount)) = Len(rooms)
         /\ \A i \in 1 .. Len(rooms) : Dealt(rooms, amount)[i] <= rooms[i]
         /\ Undealt(rooms, amount) \in Nat
         /\ SumSeq(Dealt(rooms, amount)) + Undealt(rooms, amount) = amount
         /\ SumSeq(rooms) >= amount => Undealt(rooms, amount) = 0
<1> DEFINE n == Len(rooms)
           d == Dealt(rooms, amount)
           Rest(p) == IF p < amount THEN amount - p ELSE 0
<1>1. n \in Nat /\ DOMAIN rooms = 1..n /\ \A i \in 1..n : rooms[i] \in Nat
  BY LenProperties, ElementOfSeq
<1>2. PICK P : Sums(rooms, P) /\ SumSeq(rooms) = P[n]
  BY SumsExist
<1>3. P \in [0..n -> Nat] /\ P[0] = 0 /\ \A k \in 1..n : P[k] = P[k - 1] + rooms[k]
  BY <1>2 DEF Sums
<1>4. ASSUME NEW p \in Nat PROVE Max({amount - p, 0}) = Rest(p)
  <2> DEFINE a == amount - p
  <2>1. a \in Int /\ 0 \in Int
    OBVIOUS
  <2> HIDE DEF a
  <2>2. Max({a, 0}) \in {a, 0} /\ Max({a, 0}) >= a /\ Max({a, 0}) >= 0
    BY <2>1, MaxOfTwo
  <2>3. Max({a, 0}) = IF a > 0 THEN a ELSE 0
    BY <2>1, <2>2
  <2>4. (IF a > 0 THEN a ELSE 0) = Rest(p)
    BY DEF a
  <2> QED BY <2>3, <2>4 DEF a
<1>5. ASSUME NEW k \in 0..n PROVE Undealt(SubSeq(rooms, 1, k), amount) = Rest(P[k])
  <2>1. SumSeq(SubSeq(rooms, 1, k)) = P[k] /\ P[k] \in Nat
    BY <1>2, <1>3, SumOfPart
  <2> QED BY <1>4, <2>1 DEF Undealt
<1>6. Undealt(rooms, amount) = Rest(P[n])
  <2>1. P[n] \in Nat /\ SumSeq(rooms) = P[n]
    BY <1>1, <1>2, <1>3
  <2> QED BY <1>4, <2>1 DEF Undealt
<1>7. ASSUME NEW i \in 1..n
      PROVE  d[i] = IF rooms[i] <= Rest(P[i - 1]) THEN rooms[i] ELSE Rest(P[i - 1])
  <2>1. i - 1 \in 0..n
    BY <1>1
  <2>2. d[i] = Min({rooms[i], Rest(P[i - 1])})
    BY <1>1, <1>5, <2>1 DEF Dealt
  <2>3. rooms[i] \in Nat /\ P[i - 1] \in Nat
    BY <1>1, <1>3, <2>1
  <2> DEFINE x == rooms[i]
             y == Rest(P[i - 1])
  <2>4. x \in Int /\ y \in Int
    BY <2>3
  <2>5. d[i] = Min({x, y})
    BY <2>2
  <2> HIDE DEF d, x, y
  <2>6. d[i] = IF x <= y THEN x ELSE y
    <3>1. Min({x, y}) \in {x, y} /\ Min({x, y}) <= x /\ Min({x, y}) <= y
      BY <2>4, MinOfTwo
    <3> HIDE DEF Rest
    <3>2. Min({x, y}) = IF x <= y THEN x ELSE y
      BY <2>4, <3>1
    <3> QED BY <2>5, <3>2
  <2> QED BY <2>6 DEF x, y
<1>8. d = [i \in 1..n |-> d[i]]
  BY <1>1 DEF Dealt
<1>9. ASSUME NEW i \in 1..n PROVE d[i] \in Nat /\ d[i] <= rooms[i]
  <2>1. P[i - 1] \in Nat /\ rooms[i] \in Nat
    <3>1. i - 1 \in 0..n
      BY <1>1
    <3> QED BY <1>1, <1>3, <3>1
  <2> HIDE DEF d
  <2> QED BY <1>7, <2>1
<1> HIDE DEF d
<1>10. d \in Seq(Nat) /\ Len(d) = n
  <2>1. d \in [1..n -> Nat]
    BY <1>8, <1>9
  <2> QED BY <1>1, <2>1, SeqDef, LenProperties
<1>11. PICK Q : Sums(d, Q) /\ SumSeq(d) = Q[n]
  BY <1>10, SumsExist
<1>12. Q \in [0..n -> Nat] /\ Q[0] = 0 /\ \A k \in 1..n : Q[k] = Q[k - 1] + d[k]
  BY <1>10, <1>11 DEF Sums
<1> HIDE DEF n
<1> DEFINE T == {k \in 0..n : Q[k] + Rest(P[k]) = amount}
<1>13. 0 \in T
  BY <1>1, <1>3, <1>12
<1>14. ASSUME NEW k \in 1..n, k - 1 \in T PROVE k \in T
  <2>1. k - 1 \in 0..n /\ k \in 0..n
    BY <1>1
  <2>2. Q[k - 1] + Rest(P[k - 1]) = amount
    BY <1>14
  <2>3. /\ Q[k] = Q[k - 1] + d[k] /\ P[k] = P[k - 1] + rooms[k]
        /\ Q[k - 1] \in Nat /\ P[k - 1] \in Nat /\ rooms[k] \in Nat
    BY <1>1, <1>3, <1>12, <2>1
  <2>4. d[k] = IF rooms[k] <= Rest(P[k - 1]) THEN rooms[k] ELSE Rest(P[k - 1])
    BY <1>7
  <2> HIDE DEF T
  <2>5. Q[k] + Rest(P[k]) = amount
    <3> DEFINE a == P[k - 1]
               b == Q[k - 1]
               c == rooms[k]
               e == d[k]
    <3>1. a \in Nat /\ b \in Nat /\ c \in Nat
      BY <2>3
    <3>2. /\ P[k] = a + c /\ Q[k] = b + e /\ b + Rest(a) = amount
          /\ e = IF c <= Rest(a) THEN c ELSE Rest(a)
      BY <2>2, <2>3, <2>4
    <3> HIDE DEF a, b, c, e
    <3> QED BY <3>1, <3>2
  <2> QED BY <2>1, <2>5 DEF T
<1>15. n \in 0..n /\ \A k \in 0..n : k \in T
  <2>1. n \in 0..n
    BY <1>1
  <2> HIDE DEF T
  <2> QED BY <2>1, <1>1, <1>13, <1>14, CountUp
<1>16. Q[n] + Rest(P[n]) = amount /\ P[n] \in Nat
  BY <1>3, <1>15
<1> QED BY <1>2, <1>6, <1>9, <1>10, <1>11, <1>16 DEF n, d

\* The weights of the sequences in a sequence.
WeightsOf(seqs, w) == [i \in DOMAIN seqs |-> TotalWeight(seqs[i], w)]

\* The weight of sequences put together is the sum of their weights.
LEMMA WeightFlatten ==
  ASSUME NEW S, NEW seqs \in Seq(Seq(S)), Len(seqs) > 0, NEW w \in [S -> Nat]
  PROVE  TotalWeight(FlattenSeq(seqs), w) = SumSeq(WeightsOf(seqs, w))
<1> DEFINE n == Len(seqs)
           t == WeightsOf(seqs, w)
<1>0. n \in Nat /\ DOMAIN seqs = 1..n /\ \A i \in 1..n : seqs[i] \in Seq(S)
  BY LenProperties, ElementOfSeq
<1>1. /\ n \in Nat /\ \A i \in 1..n : seqs[i] \in Seq(S)
      /\ \A i \in 1..n : t[i] = TotalWeight(seqs[i], w)
      /\ t \in Seq(Nat) /\ Len(t) = n
  <2>1. t = [i \in 1..n |-> TotalWeight(seqs[i], w)]
    BY <1>0 DEF WeightsOf
  <2>2. \A i \in 1..n : TotalWeight(seqs[i], w) \in Nat
    BY <1>0, WeightFacts
  <2> HIDE DEF t, n
  <2>3. t \in [1..n -> Nat]
    BY <2>1, <2>2
  <2> QED BY <1>0, <2>1, <2>3, SeqDef, LenProperties
<1> HIDE DEF t
<1>2. PICK F : Flattened(S, seqs, n, F) /\ FlattenSeq(seqs) = F[n]
  BY FlattenSteps
<1>3. /\ F[0] = <<>> /\ \A i \in 0..n : F[i] \in Seq(S)
      /\ \A i \in 1..n : F[i] = F[i - 1] \o seqs[i]
  BY <1>2 DEF Flattened
<1>4. PICK P : Sums(t, P) /\ SumSeq(t) = P[n]
  BY <1>1, SumsExist
<1>5. P[0] = 0 /\ \A k \in 1..n : P[k] = P[k - 1] + t[k]
  BY <1>1, <1>4 DEF Sums
<1> HIDE DEF n
<1> DEFINE T == {k \in 0..n : TotalWeight(F[k], w) = P[k]}
<1>6. 0 \in T
  <2>1. TotalWeight(<<>>, w) = 0
    BY SumEmpty DEF TotalWeight, Weights
  <2>2. 0 \in 0..n
    BY <1>1
  <2> QED BY <1>3, <1>5, <2>1, <2>2
<1>7. ASSUME NEW k \in 1..n, k - 1 \in T PROVE k \in T
  <2>1. k - 1 \in 0..n /\ k \in 0..n
    BY <1>1
  <2>2. TotalWeight(F[k - 1], w) = P[k - 1]
    BY <1>7
  <2>3. F[k - 1] \in Seq(S) /\ seqs[k] \in Seq(S) /\ F[k] = F[k - 1] \o seqs[k]
    BY <1>1, <1>3, <2>1
  <2>4. TotalWeight(F[k], w) = TotalWeight(F[k - 1], w) + TotalWeight(seqs[k], w)
    <3>1. TotalWeight(F[k - 1] \o seqs[k], w)
            = TotalWeight(F[k - 1], w) + TotalWeight(seqs[k], w)
      BY <2>3, WeightConcat
    <3> QED BY <2>3, <3>1
  <2>5. TotalWeight(seqs[k], w) = t[k] /\ P[k] = P[k - 1] + t[k]
    BY <1>1, <1>5
  <2> HIDE DEF T
  <2>6. TotalWeight(F[k], w) = P[k]
    BY <2>2, <2>4, <2>5
  <2> QED BY <2>1, <2>6 DEF T
<1>8. \A k \in 0..n : k \in T
  <2> HIDE DEF T
  <2> QED BY <1>1, <1>6, <1>7, CountUp
<1>9. n \in 0..n
  BY <1>1
<1>10. TotalWeight(F[n], w) = P[n]
  BY <1>8, <1>9
<1> QED BY <1>2, <1>4, <1>10 DEF n, t

\* Where the k-th of the sequences stands when all n are put together.
StandsIn(seqs, n, F, k) ==
  /\ Len(F[k - 1]) \in Nat /\ Len(F[k]) = Len(F[k - 1]) + Len(seqs[k])
  /\ Len(F[k]) <= Len(F[n]) /\ Len(F[n]) \in Nat
  /\ \A j \in 1 .. Len(seqs[k]) : F[n][Len(F[k - 1]) + j] = seqs[k][j]

\* Behind the ones before it.
LEMMA FlattenParts ==
  ASSUME NEW S, NEW seqs \in Seq(Seq(S)), NEW F, Flattened(S, seqs, Len(seqs), F),
         NEW k \in 1 .. Len(seqs)
  PROVE  StandsIn(seqs, Len(seqs), F, k)
<1> DEFINE n == Len(seqs)
<1>0. n \in Nat /\ k \in 1..n /\ \A i \in 1..n : seqs[i] \in Seq(S)
  BY LenProperties, ElementOfSeq
<1> HIDE DEF n
<1>1. /\ \A i \in 0..n : F[i] \in Seq(S) /\ Len(F[i]) \in Nat
      /\ \A i \in 1..n : F[i] = F[i - 1] \o seqs[i] /\ Len(seqs[i]) \in Nat
  BY <1>0, LenProperties DEF Flattened, n
<1>2. ASSUME NEW i \in 1..n
      PROVE  /\ i - 1 \in 0..n /\ i \in 0..n /\ Len(F[i]) = Len(F[i - 1]) + Len(seqs[i])
             /\ \A j \in 1 .. Len(F[i - 1]) : F[i][j] = F[i - 1][j]
             /\ \A j \in 1 .. Len(seqs[i]) : F[i][Len(F[i - 1]) + j] = seqs[i][j]
  <2> DEFINE f == F[i - 1]
             g == seqs[i]
  <2>1. i - 1 \in 0..n /\ i \in 0..n
    BY <1>0
  <2>2. f \in Seq(S) /\ g \in Seq(S) /\ Len(f) \in Nat /\ Len(g) \in Nat /\ F[i] = f \o g
    BY <1>0, <1>1, <2>1
  <2> HIDE DEF f, g
  <2>3. /\ Len(f \o g) = Len(f) + Len(g)
        /\ \A j \in 1 .. Len(f) + Len(g) :
             (f \o g)[j] = IF j <= Len(f) THEN f[j] ELSE g[j - Len(f)]
    BY <2>2, ConcatProperties
  <2>4. \A j \in 1 .. Len(f) : j \in 1 .. Len(f) + Len(g) /\ j <= Len(f)
    BY <2>2
  <2>5. \A j \in 1 .. Len(f) : F[i][j] = f[j]
    BY <2>2, <2>3, <2>4, Zenon
  <2>6. ASSUME NEW j \in 1 .. Len(g) PROVE F[i][Len(f) + j] = g[j]
    <3>1. /\ Len(f) + j \in 1 .. Len(f) + Len(g) /\ ~ (Len(f) + j <= Len(f))
          /\ (Len(f) + j) - Len(f) = j
      BY <2>2
    <3> QED BY <2>2, <2>3, <3>1
  <2> QED BY <2>1, <2>2, <2>3, <2>5, <2>6 DEF f, g
\* What stands at a place of F[k] stands there from then on.
<1> DEFINE d == n - k
           T == {i \in 0..d : /\ Len(F[k]) <= Len(F[k + i])
                              /\ \A j \in 1 .. Len(F[k]) : F[k + i][j] = F[k][j]}
<1>3. d \in Nat /\ k + d = n
  BY <1>0
<1>4. 0 \in T
  BY <1>0, <1>1
<1>5. ASSUME NEW i \in 1..d, i - 1 \in T PROVE i \in T
  <2> DEFINE q == k + i
             a == q - 1
  <2>1. q \in 1..n /\ a \in 0..n /\ k + (i - 1) = a /\ k \in 0..n
    BY <1>0
  <2>2. Len(F[k]) <= Len(F[a]) /\ \A j \in 1 .. Len(F[k]) : F[a][j] = F[k][j]
    <3>1. /\ Len(F[k]) <= Len(F[k + (i - 1)])
          /\ \A j \in 1 .. Len(F[k]) : F[k + (i - 1)][j] = F[k][j]
      BY <1>5
    <3> HIDE DEF a
    <3> QED BY <2>1, <3>1, Zenon
  <2>3. q \in 1..n => /\ Len(F[q]) = Len(F[a]) + Len(seqs[q])
                      /\ \A j \in 1 .. Len(F[a]) : F[q][j] = F[a][j]
    <3> HIDE DEF q
    <3> QED BY <1>2
  <2>4. Len(F[k]) \in Nat /\ Len(F[a]) \in Nat /\ Len(seqs[q]) \in Nat
    <3> HIDE DEF a, q
    <3> QED BY <1>1, <2>1
  <2>5. i \in 0..d
    BY <1>3
  <2> HIDE DEF a, q, d
  <2>6. Len(F[k]) <= Len(F[q])
    <3> DEFINE x == Len(F[k])
               y == Len(F[a])
               z == Len(seqs[q])
               w == Len(F[q])
    <3>1. x \in Nat /\ y \in Nat /\ z \in Nat /\ x <= y /\ w = y + z
      BY <2>1, <2>2, <2>3, <2>4
    <3> HIDE DEF x, y, z, w
    <3>2. x <= w
      BY <3>1
    <3> QED BY <3>2 DEF x, w
  <2>7. ASSUME NEW j \in 1 .. Len(F[k]) PROVE F[q][j] = F[k][j]
    <3>1. j \in 1 .. Len(F[a])
      BY <2>2, <2>4
    <3> QED BY <2>1, <2>2, <2>3, <3>1
  <2> QED BY <2>5, <2>6, <2>7 DEF q
<1>6. \A i \in 0..d : i \in T
  <2> HIDE DEF T, d
  <2> QED BY <1>3, <1>4, <1>5, CountUp
<1>7. Len(F[k]) <= Len(F[n]) /\ \A j \in 1 .. Len(F[k]) : F[n][j] = F[k][j]
  <2>1. d \in T
    <3>1. d \in 0..d
      BY <1>3
    <3> HIDE DEF d, T
    <3> QED BY <1>6, <3>1
  <2>2. Len(F[k]) <= Len(F[k + d]) /\ \A j \in 1 .. Len(F[k]) : F[k + d][j] = F[k][j]
    <3> HIDE DEF d
    <3> QED BY <2>1
  <2> HIDE DEF d
  <2> QED BY <1>3, <2>2, Zenon
<1>8. /\ Len(F[k]) = Len(F[k - 1]) + Len(seqs[k])
      /\ \A j \in 1 .. Len(seqs[k]) : F[k][Len(F[k - 1]) + j] = seqs[k][j]
  BY <1>0, <1>2
<1>9. Len(F[k - 1]) \in Nat /\ Len(seqs[k]) \in Nat /\ Len(F[n]) \in Nat /\ Len(F[k]) \in Nat
  <2>1. k - 1 \in 0..n /\ k \in 0..n /\ n \in 0..n
    BY <1>0
  <2> QED BY <1>1, <2>1
<1>10. ASSUME NEW j \in 1 .. Len(seqs[k]) PROVE F[n][Len(F[k - 1]) + j] = seqs[k][j]
  <2> DEFINE x == Len(F[k - 1])
             y == Len(seqs[k])
             w == Len(F[k])
  <2>1. x \in Nat /\ y \in Nat /\ w = x + y /\ j \in 1..y
    BY <1>8, <1>9
  <2>2. F[k][x + j] = seqs[k][j]
    BY <1>8
  <2>3. x + j \in 1..w
    <3> HIDE DEF x, y, w
    <3> QED BY <2>1
  <2>4. F[n][x + j] = F[k][x + j]
    BY <1>7, <2>3
  <2> QED BY <2>2, <2>4
<1> QED BY <1>7, <1>8, <1>9, <1>10 DEF StandsIn, n
=============================================================================
