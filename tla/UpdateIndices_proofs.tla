------------------------- MODULE UpdateIndices_proofs ------------------------
(****************************************************************************)
(* Proofs about the indices and the checks of virtual calls, for every set  *)
(* of linked programs and every word size their tables fit in.              *)
(****************************************************************************)
EXTENDS UpdateIndices, Layout_proofs, RangeCheck_proofs

------------------------------------------------------------------------------
(* The vptrs of a cloud                                                      *)

\* In an ordered cloud without an unused slot, neighbours have neighbouring vptrs.
LEMMA NextVptr ==
  ASSUME IInv, pc = "done", ~ program.interleave, NEW r \in roots, EvenlySpaced(r),
         NEW u \in DefinedIn(r), NEW w \in DefinedIn(r), Adjacent(r, u, w)
  PROVE  vptr[w] = vptr[u] + alignmentMap[r]
<1> USE DEF IInv
<1> DEFINE A == alignmentMap[r]
<1>1. ASSUME NEW y \in {u, w}
      PROVE  /\ y \in PlacedIn(r) /\ y \in CloudOf(r)
             /\ first(y) \in Nat /\ addrPt(y) \in Nat /\ last(y) \in Nat
             /\ first(y) < addrPt(y) /\ addrPt(y) <= last(y)
             /\ vptr[y] \in Nat /\ vptr[y] % A = 0
             /\ newIndex[<<y, first(y)>>] = vptr[y] + first(y) - addrPt(y)
             /\ newIndex[<<y, last(y)>>] = vptr[y] + last(y) - addrPt(y)
  <2>1. y \in VTables /\ y \in CloudOf(r) /\ y \in DefinedIn(r) /\ y \in PlacedIn(r)
    BY Clouds, AllPlaced DEF DefinedIn
  <2>2. /\ first(y) \in Nat /\ addrPt(y) \in Nat /\ last(y) \in Nat
        /\ first(y) < addrPt(y) /\ addrPt(y) <= last(y)
    BY <2>1, RegionFacts
  <2>3. /\ vptr[y] \in Nat /\ vptr[y] % A = 0 /\ prePadMap[y] = 0
        /\ vptr[y] = newIndex[<<y, addrPt(y) - prePadMap[y]>>]
    BY <2>1, VptrFacts
  <2>4. addrPt(y) - 0 = addrPt(y)
    BY <2>2
  <2>5. vptr[y] = newIndex[<<y, addrPt(y)>>]
    BY <2>3, <2>4
  <2>6. first(y) \in first(y) .. last(y) /\ last(y) \in first(y) .. last(y)
    BY <2>2
  <2>7. \A i \in first(y) .. last(y) :
          newIndex[<<y, i>>] = newIndex[<<y, addrPt(y)>>] + i - addrPt(y)
    BY <2>1 DEF OrderedInv
  <2>8. QED
    BY <2>1, <2>2, <2>3, <2>5, <2>6, <2>7
<1>2. /\ newIndex[<<u, last(u)>>] < newIndex[<<w, first(w)>>]
      /\ newIndex[<<w, first(w)>>] <= newIndex[<<u, last(u)>>] + A
  BY <1>1 DEF OrderedInv, Adjacent
<1>3. last(u) - addrPt(u) + 1 + addrPt(w) - first(w) <= A
  BY <1>1 DEF EvenlySpaced
<1>4. A \in Nat \ {0}
  BY VptrFacts
<1>5. PICK m \in Nat : vptr[u] = m * A
  BY <1>1, <1>4, Multiples
<1>6. PICK n \in Nat : vptr[w] = n * A
  BY <1>1, <1>4, Multiples
<1> HIDE DEF A
<1>7. m * A < n * A /\ n * A < m * A + A + A
  <2>1. m * A \in Nat /\ n * A \in Nat
    BY <1>1, <1>5, <1>6
  <2>2. /\ first(w) \in Nat /\ addrPt(w) \in Nat /\ first(w) < addrPt(w)
        /\ last(u) \in Nat /\ addrPt(u) \in Nat /\ addrPt(u) <= last(u)
        /\ newIndex[<<w, first(w)>>] = n * A + first(w) - addrPt(w)
        /\ newIndex[<<u, last(u)>>] = m * A + last(u) - addrPt(u)
    BY <1>1, <1>5, <1>6
  <2> DEFINE nA == n * A
             mA == m * A
  <2>3. nA \in Nat /\ mA \in Nat
    BY <2>1
  <2> HIDE DEF nA, mA
  <2>4. mA < nA /\ nA < mA + A + A
    BY <1>2, <1>3, <1>4, <2>2, <2>3 DEF nA, mA
  <2>5. QED
    BY <2>4 DEF nA, mA
<1>8. m * A + A + A = (m + 2) * A /\ m * A + A = (m + 1) * A
  BY <1>4
<1>9. m < n /\ n < m + 2
  <2>1. m + 2 \in Nat /\ n * A < (m + 2) * A
    BY <1>7, <1>8
  <2>2. QED
    BY <1>4, <1>7, <2>1, Multiples
<1>10. n = m + 1
  BY <1>9
<1>11. QED
  BY <1>5, <1>6, <1>8, <1>10 DEF A

\* The tables from one to another, when one more follows.
LEMMA OneMoreDefined ==
  ASSUME InputInv, NEW r \in roots, NEW i \in Nat, NEW x \in DefinedIn(r), NEW w \in DefinedIn(r),
         i <= Index(r, x), Adjacent(r, x, w), 0 < i
  PROVE  /\ DefinedAt(r, <<i, Index(r, w)>>) = DefinedAt(r, <<i, Index(r, x)>>) \cup {Index(r, x)}
         /\ IsFiniteSet(DefinedAt(r, <<i, Index(r, x)>>))
         /\ Cardinality(DefinedAt(r, <<i, Index(r, x)>>)) \in Nat
         /\ Cardinality(DefinedAt(r, <<i, Index(r, w)>>)) =
              Cardinality(DefinedAt(r, <<i, Index(r, x)>>)) + 1
<1> DEFINE n == Len(CloudOrder(r))
           at(k) == CloudOrder(r)[k]
           j == Index(r, x)
           l == Index(r, w)
           D(k) == {m \in i .. k - 1 : isDefined(at(m))}
<1>1. /\ n \in Nat /\ j \in 1 .. n /\ l \in 1 .. n /\ at(j) = x
      /\ \A k \in 1 .. n : at(k) \in CloudOf(r) /\ Index(r, at(k)) = k
  BY IndexFacts DEF DefinedIn
<1>2. /\ j < l
      /\ \A y \in DefinedIn(r) : ~ (j < Index(r, y) /\ Index(r, y) < l)
  BY DEF Adjacent
<1>3. \A k : DefinedAt(r, <<i, k>>) = D(k)
  BY DEF DefinedAt
<1>4. isDefined(at(j))
  BY <1>1 DEF DefinedIn
<1> HIDE DEF j, l
<1>5. \A k \in j + 1 .. l - 1 : ~ isDefined(at(k))
  <2>1. ASSUME NEW k \in j + 1 .. l - 1
        PROVE  ~ isDefined(at(k))
    <3>1. k \in 1 .. n /\ j < k /\ k < l
      BY <1>1
    <3>2. at(k) \in CloudOf(r) /\ Index(r, at(k)) = k
      BY <1>1, <3>1
    <3>3. QED
      BY <1>2, <3>1, <3>2 DEF DefinedIn
  <2>2. QED
    BY <2>1
<1>6. D(l) = D(j) \cup {j} /\ j \notin D(j)
  <2>1. \A k \in i .. l - 1 : k \in i .. j - 1 \/ k = j \/ k \in j + 1 .. l - 1
    BY <1>1
  <2>2. \A k \in i .. j - 1 : k \in i .. l - 1
    BY <1>1, <1>2
  <2>3. j \in i .. l - 1 /\ j \notin i .. j - 1
    BY <1>1, <1>2 DEF j
  <2> HIDE DEF at
  <2>4. QED
    BY <1>4, <1>5, <2>1, <2>2, <2>3
<1>7. IsFiniteSet(D(j))
  <2>1. IsFiniteSet(i .. j - 1)
    BY <1>1, FS_Interval
  <2>2. D(j) \in SUBSET (i .. j - 1)
    OBVIOUS
  <2>3. QED
    BY <2>1, <2>2, FS_Subset
<1> HIDE DEF D
<1>8. Cardinality(D(j)) \in Nat /\ Cardinality(D(j) \cup {j}) = Cardinality(D(j)) + 1
  BY <1>6, <1>7, FS_AddElement, FS_CardinalityType
<1>9. DefinedAt(r, <<i, l>>) = D(l) /\ DefinedAt(r, <<i, j>>) = D(j)
  BY <1>3
<1>10. /\ DefinedAt(r, <<i, l>>) = DefinedAt(r, <<i, j>>) \cup {j}
       /\ IsFiniteSet(DefinedAt(r, <<i, j>>))
       /\ Cardinality(DefinedAt(r, <<i, j>>)) \in Nat
       /\ Cardinality(DefinedAt(r, <<i, l>>)) = Cardinality(DefinedAt(r, <<i, j>>)) + 1
  BY <1>6, <1>7, <1>8, <1>9
<1>11. QED
  BY <1>10 DEF j, l

\* Without a pad or an unused slot, vptrs grow with the number of defined vtables.
LEMMA EvenDistance ==
  ASSUME IInv, pc = "done", NEW r \in roots, EvenlySpaced(r),
         NEW u \in DefinedIn(r), NEW w \in DefinedIn(r), Index(r, u) <= Index(r, w)
  PROVE  vptr[w] = vptr[u] +
           Cardinality(DefinedAt(r, <<Index(r, u), Index(r, w)>>)) * alignmentMap[r]
<1> USE DEF IInv
<1> DEFINE A == alignmentMap[r]
           n == Len(CloudOrder(r))
           i == Index(r, u)
           count(x) == Cardinality(DefinedAt(r, <<i, Index(r, x)>>))
           Bad == {x \in DefinedIn(r) : i <= Index(r, x) /\ vptr[x] # vptr[u] + count(x) * A}
<1>1. /\ A \in Nat \ {0} /\ vptr[u] \in Nat /\ vptr[w] \in Nat
      /\ program.interleave => A = 1
  BY VptrFacts
<1>2. /\ n \in Nat /\ i \in 1 .. n
      /\ \A x \in DefinedIn(r) : Index(r, x) \in 1 .. n
      /\ \A x, y \in DefinedIn(r) : Index(r, x) = Index(r, y) => x = y
  BY IndexFacts DEF DefinedIn
<1>3. CASE program.interleave
  <2>1. vptr[w] = vptr[u] + count(w)
    BY <1>3, VptrDistance DEF EvenlySpaced
  <2>2. DefinedAt(r, <<i, Index(r, w)>>) \in SUBSET (i .. Index(r, w) - 1)
    BY DEF DefinedAt
  <2>3. IsFiniteSet(i .. Index(r, w) - 1)
    BY <1>2, FS_Interval
  <2>4. count(w) \in Nat
    BY <2>2, <2>3, FS_Subset, FS_CardinalityType
  <2>5. count(w) * A = count(w)
    BY <1>1, <1>3, <2>4
  <2>6. QED
    BY <2>1, <2>5
<1>4. CASE ~ program.interleave
  <2> HIDE DEF A, n, i, count
  <2>1. SUFFICES ASSUME Bad # {}
                 PROVE  FALSE
    BY DEF i, count, A
  <2> DEFINE K == {Index(r, x) : x \in Bad}
  <2>2. K \subseteq Nat /\ K # {}
    BY <1>2, <2>1
  <2>3. PICK k \in K : \A y \in K : k <= y
    BY <2>2, LeastNat
  <2>4. PICK x \in Bad : k = Index(r, x)
    BY <2>3
  <2>5. x \in DefinedIn(r) /\ i <= Index(r, x) /\ vptr[x] # vptr[u] + count(x) * A
    BY <2>4
  <2>6. i # Index(r, x)
    <3>1. ASSUME i = Index(r, x)
          PROVE  FALSE
      <4>1. x = u
        BY <1>2, <2>5, <3>1 DEF i
      <4>2. DefinedAt(r, <<i, i>>) = {}
        <5>1. i .. i - 1 = {}
          BY <1>2
        <5>2. QED
          BY <5>1 DEF DefinedAt
      <4>3. count(x) = 0
        BY <3>1, <4>2, FS_EmptySet DEF count
      <4>4. QED
        BY <1>1, <2>5, <4>1, <4>3
    <3>2. QED
      BY <3>1
  <2> DEFINE before == {Index(r, y) : y \in {z \in DefinedIn(r) : Index(r, z) < k}}
  <2>7. before \in SUBSET (1 .. n) /\ i \in before
    <3>1. i < k
      BY <1>2, <2>4, <2>5, <2>6
    <3>2. QED
      BY <1>2, <3>1 DEF i
  <2>8. IsFiniteSet(before) /\ before \subseteq Int /\ before # {}
    <3>1. IsFiniteSet(1 .. n)
      BY <1>2, FS_Interval
    <3> HIDE DEF before
    <3>2. IsFiniteSet(before)
      BY <2>7, <3>1, FS_Subset
    <3>3. QED
      BY <2>7, <3>2
  <2> HIDE DEF before
  <2>9. Max(before) \in before /\ \A m \in before : m <= Max(before)
    BY <2>8, MaxOfFinite
  <2>10. PICK p \in DefinedIn(r) : Max(before) = Index(r, p) /\ Index(r, p) < k
    BY <2>9 DEF before
  <2>11. i <= Index(r, p)
    BY <2>7, <2>9, <2>10
  <2>12. Adjacent(r, p, x)
    <3>1. ASSUME NEW y \in DefinedIn(r), Index(r, p) < Index(r, y), Index(r, y) < Index(r, x)
          PROVE  FALSE
      <4>1. Index(r, y) \in before
        BY <2>4, <3>1 DEF before
      <4>2. Index(r, y) <= Index(r, p)
        BY <2>9, <2>10, <4>1
      <4>3. QED
        BY <1>2, <3>1, <4>2
    <3>2. QED
      BY <2>4, <2>10, <3>1 DEF Adjacent
  <2>13. vptr[x] = vptr[p] + A
    BY <1>4, <2>5, <2>12, NextVptr DEF A
  <2>14. p \notin Bad
    <3>1. p \in Bad => k <= Index(r, p)
      BY <2>3
    <3>2. QED
      BY <1>2, <2>4, <2>5, <2>10, <3>1
  <2>15. vptr[p] = vptr[u] + count(p) * A
    BY <2>11, <2>14
  <2>16. count(x) = count(p) + 1 /\ count(p) \in Nat
    BY <1>2, <2>5, <2>11, <2>12, OneMoreDefined DEF count
  <2>17. (count(p) + 1) * A = count(p) * A + A /\ count(p) * A \in Nat
    BY <1>1, <2>16
  <2>18. vptr[x] = vptr[u] + count(x) * A
    <3> DEFINE c == count(p) * A
    <3>1. c \in Nat /\ count(x) * A = c + A
      BY <2>16, <2>17
    <3>2. vptr[x] = vptr[u] + c + A
      BY <2>13, <2>15
    <3> HIDE DEF c
    <3>3. QED
      BY <1>1, <3>1, <3>2
  <2>19. QED
    BY <2>5, <2>18
<1>5. QED
  BY <1>3, <1>4

------------------------------------------------------------------------------
(* The ranges of a cloud                                                     *)

\* How many tables a run of the ranges holds, and where its vptrs begin.
Width(r, q) == Cardinality(DefinedAt(r, q))
Start(r, q) == vptr[CloudOrder(r)[Min(DefinedAt(r, q))]]
Runs(r, v)  == {p \in Coalesced(Below(r, v)) : DefinedAt(r, p) # {}}

LEMMA RunType ==
  ASSUME IInv, pc = "done", NEW r \in roots, NEW v \in CloudOf(r), NEW q \in Runs(r, v)
  PROVE  /\ Start(r, q) \in Nat /\ Start(r, q) % alignmentMap[r] = 0
         /\ Width(r, q) \in Nat \ {0} /\ Width(r, q) <= Cardinality(VTables)
<1> USE DEF IInv
<1> DEFINE D == DefinedAt(r, q)
           at(k) == CloudOrder(r)[k]
<1>1. /\ D # {} /\ IsFiniteSet(D) /\ Cardinality(D) \in Nat
      /\ Min(D) \in D
      /\ \A k \in D : at(k) \in DefinedIn(r) /\ Index(r, at(k)) = k
  BY RunFacts DEF Runs
<1> HIDE DEF D, at
<1>2. ASSUME NEW x \in DefinedIn(r)
      PROVE  vptr[x] \in Nat /\ vptr[x] % alignmentMap[r] = 0
  <2>1. vptr[x] \in Nat
    BY VptrFacts
  <2>2. CASE program.interleave
    <3>1. alignmentMap[r] = 1
      BY <2>2, VptrFacts
    <3>2. QED
      BY <2>1, <3>1
  <2>3. CASE ~ program.interleave
    BY <2>1, <2>3, VptrFacts
  <2>4. QED
    BY <2>2, <2>3
<1>3. Start(r, q) \in Nat /\ Start(r, q) % alignmentMap[r] = 0
  <2>1. at(Min(D)) \in DefinedIn(r)
    BY <1>1
  <2>2. vptr[at(Min(D))] \in Nat /\ vptr[at(Min(D))] % alignmentMap[r] = 0
    BY <1>2, <2>1
  <2>3. QED
    BY <2>2 DEF Start, D, at
<1>4. Cardinality(D) # 0
  BY <1>1, FS_EmptySet
<1>5. Cardinality(D) <= Cardinality(VTables)
  <2> DEFINE f == [k \in D |-> at(k)]
  <2>1. f \in Injection(D, VTables)
    <3>1. f \in [D -> VTables]
      BY <1>1, Clouds DEF DefinedIn
    <3>2. \A k, l \in D : f[k] = f[l] => k = l
      BY <1>1
    <3> HIDE DEF f
    <3>3. QED
      BY <3>1, <3>2, Zenon DEF Injection, IsInjective
  <2> HIDE DEF f
  <2>2. QED
    BY <2>1, InputFacts, FS_Injection
<1>6. QED
  BY <1>1, <1>3, <1>4, <1>5 DEF Width, D

\* Counted in alignments, no range is as wide as the address space.
LEMMA WordFacts ==
  ASSUME IInv, pc = "done", NEW r \in roots
  PROVE  /\ alignmentMap[r] \in Nat \ {0}
         /\ alignmentMap[r] * WORD_WIDTH \in Alignment
         /\ Cardinality(VTables) \in Nat
         /\ Cardinality(VTables) * (alignmentMap[r] * WORD_WIDTH) < WordSize
<1> USE DEF IInv
<1> DEFINE A == alignmentMap[r]
<1>1. r \in DOMAIN alignmentMap /\ A \in Nat \ {0}
  BY DEF CursorInv, TypeOK, PartialMap
<1>2. A \in Alignments(program)
  <2>1. CASE program.interleave
    BY <1>1, <2>1 DEF RankedInv, Alignments
  <2>2. CASE ~ program.interleave
    <3>1. A = RoundedSize(r)
      BY <1>1, <2>2 DEF OrderedInv
    <3>2. PICK v \in CloudOf(r) : RoundedSize(r) = RoundedUp(Size(v))
      BY RoundedSizeFits
    <3>3. v \in Described(program.metadata)
      BY <3>2, Clouds, InputFacts
    <3>4. QED
      BY <3>1, <3>2, <3>3 DEF Alignments, Size, last, first
  <2>3. QED
    BY <2>1, <2>2
<1>3. /\ A * WORD_WIDTH \in Alignment
      /\ Cardinality(VTables) * A * WORD_WIDTH < WordSize
  BY <1>2, AddressSpaceAssumption, InputFacts DEF InputInv
<1>4. Cardinality(VTables) \in Nat
  BY InputFacts, FS_CardinalityType
<1> HIDE DEF A
<1>5. Cardinality(VTables) * A * WORD_WIDTH = Cardinality(VTables) * (A * WORD_WIDTH)
  BY <1>1, <1>4 DEF WORD_WIDTH
<1>6. QED
  BY <1>1, <1>3, <1>4, <1>5 DEF A

\* Without pads or unused slots, the vptrs of a run follow each other.
LEMMA RunVptr ==
  ASSUME IInv, pc = "done", NEW r \in roots, EvenlySpaced(r),
         NEW v \in CloudOf(r), NEW q \in Runs(r, v), NEW k \in DefinedAt(r, q)
  PROVE  LET before == {l \in DefinedAt(r, q) : l < k} IN
         /\ IsFiniteSet(before) /\ Cardinality(before) \in Nat
         /\ Cardinality(before) < Width(r, q)
         /\ vptr[CloudOrder(r)[k]] = Start(r, q) + Cardinality(before) * alignmentMap[r]
<1> USE DEF IInv
<1> DEFINE D == DefinedAt(r, q)
           at(l) == CloudOrder(r)[l]
           before == {l \in D : l < k}
<1>1. /\ D \subseteq 1 .. Len(CloudOrder(r)) /\ IsFiniteSet(D) /\ Cardinality(D) \in Nat
      /\ Min(D) \in D /\ \A l \in D : Min(D) <= l
      /\ \A l \in D : at(l) \in DefinedIn(r) /\ Index(r, at(l)) = l
  BY RunFacts DEF Runs
<1>2. before = DefinedAt(r, <<Min(D), k>>)
  BY EarlierInRun DEF Runs
<1>3. k \in D /\ k \in Nat
  BY <1>1
<1> HIDE DEF D, at
<1>4. before \in SUBSET D /\ k \notin before
  BY <1>3
<1>5. /\ IsFiniteSet(before) /\ Cardinality(before) \in Nat
      /\ Cardinality(before) <= Cardinality(D) /\ Cardinality(before) # Cardinality(D)
  <2> HIDE DEF before
  <2>1. before # D
    BY <1>3, <1>4
  <2>2. QED
    BY <1>1, <1>4, <2>1, FS_Subset, FS_CardinalityType
<1>6. Min(D) <= k /\ at(Min(D)) \in DefinedIn(r) /\ at(k) \in DefinedIn(r)
      /\ Index(r, at(Min(D))) = Min(D) /\ Index(r, at(k)) = k
  BY <1>1, <1>3
<1>7. vptr[at(k)] = vptr[at(Min(D))] +
        Cardinality(DefinedAt(r, <<Index(r, at(Min(D))), Index(r, at(k))>>)) * alignmentMap[r]
  BY <1>6, EvenDistance
<1>8. vptr[at(k)] = vptr[at(Min(D))] + Cardinality(before) * alignmentMap[r]
  BY <1>2, <1>6, <1>7
<1>9. Cardinality(before) < Cardinality(D)
  BY <1>1, <1>5
<1>10. QED
  BY <1>5, <1>8, <1>9 DEF D, at, Start, Width

\* The ranges of a vtable are those runs.
LEMMA RangeOfRun ==
  ASSUME IInv, pc = "done", NEW r \in roots, NEW v \in CloudOf(r)
  PROVE  /\ \A q \in Runs(r, v) : [start |-> Start(r, q), width |-> Width(r, q)] \in memRangeMap[v]
         /\ \A m \in memRangeMap[v] :
              /\ \E q \in Runs(r, v) : m.start = Start(r, q) /\ m.width = Width(r, q)
              /\ m.start \in Nat /\ m.start % alignmentMap[r] = 0
              /\ m.width \in Nat \ {0} /\ m.width <= Cardinality(VTables)
<1>1. memRangeMap[v] = {[start |-> Start(r, q), width |-> Width(r, q)] : q \in Runs(r, v)}
  BY RangesOfRuns DEF Start, Width, Runs
<1>2. ASSUME NEW m \in memRangeMap[v]
      PROVE  /\ \E q \in Runs(r, v) : m.start = Start(r, q) /\ m.width = Width(r, q)
             /\ m.start \in Nat /\ m.start % alignmentMap[r] = 0
             /\ m.width \in Nat \ {0} /\ m.width <= Cardinality(VTables)
  <2>1. PICK q \in Runs(r, v) : m = [start |-> Start(r, q), width |-> Width(r, q)]
    BY <1>1
  <2>2. m.start = Start(r, q) /\ m.width = Width(r, q)
    BY <2>1
  <2>3. QED
    BY <2>2, RunType
<1>3. QED
  BY <1>1, <1>2

\* What derives from v and is defined has its vptr in a range of v.
LEMMA DefinedInRange ==
  ASSUME IInv, pc = "done", NEW r \in roots, EvenlySpaced(r), NEW v \in CloudOf(r),
         NEW w \in Descendants(v), isDefined(w)
  PROVE  \E m \in memRangeMap[v] : \E i \in 0 .. m.width - 1 :
           vptr[w] = m.start + i * alignmentMap[r]
<1> USE DEF IInv
<1>1. CloudOrder(r)[Index(r, w)] = w
  BY DescendantInRun
<1>2. PICK q \in Coalesced(Below(r, v)) : Index(r, w) \in DefinedAt(r, q)
  BY DescendantInRun
<1>3. q \in Runs(r, v)
  BY <1>2 DEF Runs
<1> DEFINE c == Cardinality({l \in DefinedAt(r, q) : l < Index(r, w)})
<1>4. c \in Nat /\ c < Width(r, q) /\ vptr[w] = Start(r, q) + c * alignmentMap[r]
  BY <1>1, <1>2, <1>3, RunVptr
<1> DEFINE m == [start |-> Start(r, q), width |-> Width(r, q)]
<1>5. m \in memRangeMap[v] /\ m.start = Start(r, q) /\ m.width = Width(r, q)
  BY <1>3, RangeOfRun
<1> HIDE DEF c, m
<1>6. c \in 0 .. m.width - 1
  <2>1. m.width \in Nat
    BY <1>3, <1>5, RunType
  <2>2. QED
    BY <1>4, <1>5, <2>1
<1>7. QED
  BY <1>4, <1>5, <1>6

\* A run of what derives from u lies in a run of what derives from v, if u does.
LEMMA RunNests ==
  ASSUME InputInv, NEW r \in roots, NEW v \in CloudOf(r), NEW u \in Descendants(v),
         NEW p \in Runs(r, u)
  PROVE  \E q \in Runs(r, v) : DefinedAt(r, p) \subseteq DefinedAt(r, q)
<1> DEFINE n == Len(CloudOrder(r))
           at(k) == CloudOrder(r)[k]
           a == Min(DefinedAt(r, p))
<1>1. /\ u \in CloudOf(r) /\ Descendants(u) \subseteq Descendants(v)
      /\ u \in VTables /\ v \in VTables /\ n \in Nat
  <2>1. u \in CloudOf(r) /\ n \in Nat
    BY CloudMembers, IndexFacts
  <2>2. u \in VTables /\ v \in VTables
    BY <2>1, Clouds
  <2>3. Descendants(u) = Derived(program.metadata, u)
        /\ Descendants(v) = Derived(program.metadata, v)
    BY <2>2, OrderFacts
  <2>4. Derived(program.metadata, u) \subseteq Derived(program.metadata, v)
    BY <2>3, DerivedLeast, DerivedClosed DEF ClosedUnderChildren
  <2>5. QED
    BY <2>1, <2>2, <2>3, <2>4
<1>2. Below(r, u) \subseteq Below(r, v) /\ Below(r, v) \in SUBSET (1 .. n)
      /\ Below(r, u) \in SUBSET (1 .. n)
  <2>1. Descendants(v) \subseteq CloudOf(r)
    BY CloudMembers
  <2>2. QED
    BY <1>1, <2>1, IndexFacts DEF Below
<1>3. p \in Coalesced(Below(r, u)) /\ DefinedAt(r, p) # {}
  BY DEF Runs
<1>4. /\ a \in DefinedAt(r, p) /\ at(a) \in Descendants(u) /\ isDefined(at(a))
      /\ Index(r, at(a)) = a
  BY <1>1, <1>3, RunFacts DEF DefinedIn
<1>5. PICK q \in Coalesced(Below(r, v)) : a \in DefinedAt(r, q)
  BY <1>1, <1>4, DescendantInRun
<1> HIDE DEF a
<1>6. /\ p[1] \in 1 .. n /\ p[2] \in 1 .. n + 1
      /\ \A i \in p[1] .. p[2] - 1 : i \in Below(r, v)
  <2> HIDE DEF n
  <2>1. QED
    BY <1>1, <1>2, <1>3, RunShape
<1>7. /\ q[1] \in 1 .. n /\ q[2] \in 1 .. n + 1
      /\ q[1] - 1 \notin Below(r, v) /\ q[2] \notin Below(r, v)
  <2> HIDE DEF n
  <2>1. QED
    BY <1>1, <1>2, RunShape
<1>8. a \in p[1] .. p[2] - 1 /\ a \in q[1] .. q[2] - 1
  BY <1>4, <1>5 DEF DefinedAt
<1> HIDE DEF n
<1>9. q[1] <= p[1] /\ p[2] <= q[2]
  <2>1. q[1] - 1 \notin p[1] .. p[2] - 1 /\ q[2] \notin p[1] .. p[2] - 1
    BY <1>6, <1>7
  <2>2. QED
    BY <1>1, <1>6, <1>7, <1>8, <2>1
<1>10. \A k \in p[1] .. p[2] - 1 : k \in q[1] .. q[2] - 1
  BY <1>1, <1>6, <1>7, <1>9
<1>11. DefinedAt(r, p) \subseteq DefinedAt(r, q)
  BY <1>10 DEF DefinedAt
<1>12. QED
  BY <1>5, <1>11 DEF Runs

\* So a range of u lies in one of v.
LEMMA RangeNests ==
  ASSUME IInv, pc = "done", NEW r \in roots, EvenlySpaced(r), NEW v \in CloudOf(r),
         NEW u \in Descendants(v), NEW m \in memRangeMap[u]
  PROVE  \E k \in memRangeMap[v] : \E j \in Nat :
           m.start = k.start + j * alignmentMap[r] /\ j + m.width <= k.width
<1> USE DEF IInv
<1>1. u \in CloudOf(r)
  BY CloudMembers
<1>2. PICK p \in Runs(r, u) : m.start = Start(r, p) /\ m.width = Width(r, p)
  BY <1>1, RangeOfRun
<1>3. PICK q \in Runs(r, v) : DefinedAt(r, p) \subseteq DefinedAt(r, q)
  BY RunNests
<1> DEFINE P == DefinedAt(r, p)
           Q == DefinedAt(r, q)
           a == Min(P)
           before == {l \in Q : l < a}
<1>4. P # {} /\ a \in P /\ (\A k \in P : a <= k) /\ P \subseteq 1 .. Len(CloudOrder(r))
  BY <1>1, RunFacts DEF Runs
<1>5. IsFiniteSet(Q) /\ Cardinality(Q) \in Nat
  BY RunFacts DEF Runs
<1>6. /\ IsFiniteSet(before) /\ Cardinality(before) \in Nat
      /\ vptr[CloudOrder(r)[a]] = Start(r, q) + Cardinality(before) * alignmentMap[r]
  <2>1. a \in Q
    BY <1>3, <1>4
  <2> HIDE DEF a
  <2>2. QED
    BY <2>1, RunVptr
<1>7. Start(r, p) = vptr[CloudOrder(r)[a]]
  BY DEF Start
<1> HIDE DEF P, Q, a
<1>8. before \cap P = {} /\ before \cup P \in SUBSET Q
  <2>1. \A k \in P : a <= k /\ k \in Nat /\ a \in Nat
    BY <1>4
  <2>2. \A k \in P : ~ (k < a)
    BY <2>1
  <2>3. QED
    BY <1>3, <2>2 DEF P, Q
<1> HIDE DEF before
<1>9. Cardinality(before) + Cardinality(P) <= Cardinality(Q)
  <2>1. IsFiniteSet(P) /\ Cardinality(P) \in Nat /\ Cardinality(before \cap P) = 0
    BY <1>5, <1>8, FS_Subset, FS_CardinalityType, FS_EmptySet
  <2>2. Cardinality(before \cup P) =
          Cardinality(before) + Cardinality(P) - Cardinality(before \cap P)
    BY <1>6, <2>1, FS_Union
  <2>3. Cardinality(before \cup P) <= Cardinality(Q)
    BY <1>5, <1>8, FS_Subset
  <2>4. QED
    BY <1>5, <1>6, <2>1, <2>2, <2>3
<1> DEFINE k == [start |-> Start(r, q), width |-> Width(r, q)]
<1>10. k \in memRangeMap[v] /\ k.start = Start(r, q) /\ k.width = Width(r, q)
  BY RangeOfRun
<1>11. Width(r, p) = Cardinality(P) /\ Width(r, q) = Cardinality(Q)
  BY DEF Width, P, Q
<1> HIDE DEF k
<1>12. /\ m.start = k.start + Cardinality(before) * alignmentMap[r]
       /\ Cardinality(before) + m.width <= k.width
  BY <1>2, <1>6, <1>7, <1>9, <1>10, <1>11
<1>13. QED
  BY <1>6, <1>10, <1>12


------------------------------------------------------------------------------
(* The inductive invariant                                                   *)

\* The passes whose loop has reached the use of c, or is behind it.
Reached(c, loop, later) == pass \in later \/ (pass = loop /\ c \notin uses)

Rewritten(c) ==
  Reached(c, "indices", {"checks", "subst indices", "subst checks", "linked"})
Lowered(c)  == Reached(c, "checks", {"subst indices", "subst checks", "linked"})
Constant(c) == Reached(c, "subst indices", {"subst checks", "linked"})

\* The index of c in the new layout.
NewIndex(c) ==
  LET v == <<class(c), 0>>
  IN  IF HasNewLayout(v) THEN translateVtblInd(v, oldIndex(c)) ELSE oldIndex(c)

PassInv ==
  /\ pass \in {"layout", "indices", "checks", "subst indices", "subst checks",
               "linked", "aborted"}
  /\ pass \notin {"layout", "aborted"} => pc = "done"
  /\ IF pass = "subst checks"
     THEN uses = UNION {{c} \X check[c].ranges : c \in Calls}
     ELSE uses \subseteq Calls

\* An index is the one of the layout from the first loop on; it has been found in
\* a table.
IndexInv ==
  /\ index \in [Calls -> [op : IndexOps, value : Int]]
  /\ pass # "aborted" =>
       \A c \in Calls :
         /\ index[c].value = IF Rewritten(c) THEN NewIndex(c) ELSE oldIndex(c)
         /\ Constant(c) => index[c].op = "constant"
         /\ Rewritten(c) /\ HasNewLayout(<<class(c), 0>>) =>
              IsTranslatable(<<class(c), 0>>, oldIndex(c))

\* A check has the ranges of its sub-vtable, each to be done, folded or tested.
CheckInv ==
  /\ DOMAIN check = Calls
  /\ \A c \in Calls :
       IF Lowered(c)
       THEN LET R == check[c].ranges  F == check[c].folded  T == check[c].tests IN
              /\ check[c] = [op |-> "sd_subst_check_range", vtbl |-> CheckedVTable(c),
                             ranges |-> R, folded |-> F, tests |-> T]
              /\ R \cup F \cup T = CheckRanges(CheckedVTable(c))
              /\ \A r \in F : validConstVptr(c, r)
              /\ pass = "linked" => R = {}
       ELSE check[c] = [op |-> "sd_get_checked_vptr"]

LinkInv == IInv /\ PassInv /\ IndexInv /\ CheckInv

\* What is known of a call.
LEMMA CallFacts ==
  ASSUME InputInv, NEW c \in Calls
  PROVE  /\ class(c) \in Class /\ precise(c) \in Class /\ oldIndex(c) \in Int
         /\ constants(c) \subseteq {w \in VTables : isDefined(w)}
         /\ knowsAbout(<<class(c), 0>>) => class(c) \in DOMAIN program.metadata
         /\ knowsAbout(<<class(c), 0>>) =>
              addrPt(<<class(c), 0>>) + oldIndex(c) \in
                first(<<class(c), 0>>) .. last(<<class(c), 0>>)
<1>1. IsCall(program, program.calls[c])
  BY CallsAssumption DEF InputInv, Calls
<1>2. VTables = Described(program.metadata)
  BY InputFacts
<1>3. class(c) \in Class /\ precise(c) \in Class /\ oldIndex(c) \in Int
  BY <1>1 DEF IsCall, class, precise, oldIndex
<1>4. constants(c) \subseteq {w \in VTables : isDefined(w)}
  BY <1>1, <1>2 DEF IsCall, constants, isDefined
<1>5. ASSUME knowsAbout(<<class(c), 0>>)
      PROVE  class(c) \in DOMAIN program.metadata
  <2>1. PICK d \in DOMAIN program.metadata : <<class(c), 0>> \in OwnVTables(program.metadata, d)
    BY <1>2, <1>5 DEF knowsAbout, Described
  <2>2. <<class(c), 0>>[1] = d
    BY <2>1, InputFacts, OwnVTableType
  <2>3. QED
    BY <2>1, <2>2
<1>6. class(c) \in DOMAIN program.metadata =>
        addrPt(<<class(c), 0>>) + oldIndex(c) \in
          first(<<class(c), 0>>) .. last(<<class(c), 0>>)
  BY <1>1 DEF IsCall, class, oldIndex, addrPt, first, last
<1>7. QED
  BY <1>3, <1>4, <1>5, <1>6

\* The ancestor of a vtable is the root of its cloud.
LEMMA AncestorFacts ==
  ASSUME InputInv, NEW v \in VTables
  PROVE  /\ Ancestor(v) \in roots /\ v \in CloudOf(Ancestor(v))
         /\ \A r \in roots : v \in CloudOf(r) => r = Ancestor(v)
<1>1. \E r \in roots : v \in CloudOf(r)
  BY Clouds
<1>2. Ancestor(v) \in roots /\ v \in CloudOf(Ancestor(v))
  BY <1>1 DEF Ancestor
<1>3. QED
  BY <1>2, Clouds

\* Inheritance is acyclic: what derives from a vtable has a class further down.
LEMMA DerivedDeeper ==
  ASSUME NEW md, IsMetadata(md),
         NEW depth \in [DOMAIN md -> 1 .. Cardinality(DOMAIN md)],
         \A x \in Described(md) : \A p \in Parents(md, x) \cap Described(md) :
           depth[p[1]] < depth[x[1]],
         NEW v \in Described(md), NEW w \in Derived(md, v)
  PROVE  w = v \/ depth[v[1]] < depth[w[1]]
<1> DEFINE S == {x \in Described(md) : x = v \/ depth[v[1]] < depth[x[1]]}
<1>1. v \in S
  OBVIOUS
<1>2. \A x \in Described(md) : x[1] \in DOMAIN md /\ depth[x[1]] \in Int
  <2>1. ASSUME NEW x \in Described(md)
        PROVE  x[1] \in DOMAIN md
    <3>1. PICK d \in DOMAIN md : x \in OwnVTables(md, d)
      BY DEF Described
    <3>2. x[1] = d
      BY <3>1, OwnVTableType
    <3>3. QED
      BY <3>1, <3>2
  <2>2. IsFiniteSet(DOMAIN md)
    BY DEF IsMetadata
  <2>3. Cardinality(DOMAIN md) \in Nat
    BY <2>2, FS_CardinalityType
  <2>4. QED
    BY <2>1, <2>3
<1>3. ClosedUnderChildren(md, S)
  <2>1. ASSUME NEW x \in S, NEW y \in Children(md, x)
        PROVE  y \in S
    <3>1. x \in Described(md) /\ y \in Described(md) /\ x \in Parents(md, y)
      BY DEF Children
    <3>2. depth[x[1]] < depth[y[1]]
      BY <3>1
    <3>3. x = v \/ depth[v[1]] < depth[x[1]]
      OBVIOUS
    <3>4. depth[v[1]] \in Int /\ depth[x[1]] \in Int /\ depth[y[1]] \in Int
      BY <1>2, <3>1
    <3>5. depth[v[1]] < depth[y[1]]
      BY <3>2, <3>3, <3>4
    <3>6. QED
      BY <3>1, <3>5
  <2>2. QED
    BY <2>1 DEF ClosedUnderChildren
<1> HIDE DEF S
<1>4. \A x \in S \cap Derived(md, v) : Children(md, x) \subseteq S
  BY <1>3 DEF ClosedUnderChildren
<1>5. Derived(md, v) \subseteq S
  BY <1>1, <1>4, DerivedLeast
<1>6. QED
  BY <1>5 DEF S

\* A class derives from its precise class only if they are the same.
LEMMA PreciseIsBelow ==
  ASSUME InputInv, NEW c \in Calls, knowsAbout(<<precise(c), 0>>), precise(c) # class(c)
  PROVE  SubVTables(class(c), precise(c)) = {}
<1> DEFINE md == program.metadata
           v == <<class(c), 0>>
           u == <<precise(c), 0>>
<1>1. SUFFICES ASSUME NEW w \in SubVTables(class(c), precise(c))
               PROVE  FALSE
  OBVIOUS
<1>2. IsMetadata(md) /\ VTables = Described(md)
  BY InputFacts
<1>3. u \in VTables /\ w \in VTables /\ w[1] = class(c) /\ w \in Descendants(u)
  BY DEF SubVTables, knowsAbout
<1>4. \A x \in VTables : x[1] \in DOMAIN md /\ x \in OwnVTables(md, x[1])
  <2>1. ASSUME NEW x \in VTables
        PROVE  x[1] \in DOMAIN md /\ x \in OwnVTables(md, x[1])
    <3>1. PICK d \in DOMAIN md : x \in OwnVTables(md, d)
      BY <1>2 DEF Described
    <3>2. x[1] = d
      BY <1>2, <3>1, OwnVTableType
    <3>3. QED
      BY <3>1, <3>2
  <2>2. QED
    BY <2>1
<1>5. class(c) \in DOMAIN md /\ precise(c) \in DOMAIN md
  <2>1. u[1] = precise(c)
    OBVIOUS
  <2>2. QED
    BY <1>3, <1>4, <2>1
<1>6. v \in VTables /\ v[1] = class(c)
  BY <1>2, <1>5, PrimaryVTable DEF Described
<1>7. PICK x \in OwnVTables(md, precise(c)) : x \in Derived(md, v)
  <2>1. IsCall(program, program.calls[c])
    BY CallsAssumption DEF InputInv, Calls
  <2>2. OwnVTables(md, precise(c)) \cap Derived(md, v) # {}
    BY <1>5, <2>1 DEF IsCall, class, precise
  <2>3. QED
    BY <2>2
<1>8. x[1] = precise(c)
  BY <1>2, <1>5, OwnVTableType
<1>9. w \in Derived(md, u)
  BY <1>3, OrderFacts
<1>10. PICK depth \in [DOMAIN md -> 1 .. Cardinality(DOMAIN md)] :
         \A y \in Described(md) : \A p \in Parents(md, y) \cap Described(md) :
           depth[p[1]] < depth[y[1]]
  BY <1>2 DEF IsMetadata
<1> HIDE DEF md, v, u
<1>11. x = v \/ depth[v[1]] < depth[x[1]]
  BY <1>2, <1>6, <1>7, <1>10, DerivedDeeper
<1>12. w = u \/ depth[u[1]] < depth[w[1]]
  BY <1>2, <1>3, <1>9, <1>10, DerivedDeeper
<1>13. u[1] = precise(c)
  BY DEF u
<1>14. depth[class(c)] < depth[precise(c)] /\ depth[precise(c)] < depth[class(c)]
  BY <1>3, <1>6, <1>8, <1>11, <1>12, <1>13
<1>15. depth[class(c)] \in Int /\ depth[precise(c)] \in Int
  <2>1. IsFiniteSet(DOMAIN md)
    BY <1>2 DEF IsMetadata
  <2>2. Cardinality(DOMAIN md) \in Nat
    BY <2>1, FS_CardinalityType
  <2>3. QED
    BY <1>5, <1>10, <2>2
<1>16. QED
  BY <1>14, <1>15

\* The sub-vtable of a check is the primary one of the class, or the only one of the
\* precise class that extends it.
LEMMA CheckedCases ==
  ASSUME InputInv, NEW c \in Calls
  PROVE  \/ CheckedVTable(c) = <<class(c), 0>>
         \/ /\ knowsAbout(<<class(c), 0>>)
            /\ SubVTables(precise(c), class(c)) = {CheckedVTable(c)}
<1> DEFINE v == <<class(c), 0>>
           up == SubVTables(precise(c), class(c))
           down == SubVTables(class(c), precise(c))
<1>1. CASE ~ knowsAbout(v) \/ precise(c) = class(c)
  BY <1>1 DEF CheckedVTable
<1>2. CASE knowsAbout(v) /\ precise(c) # class(c) /\ Cardinality(up) = 1
  <2>1. IsFiniteSet(up)
    <3>1. up \in SUBSET VTables
      BY DEF SubVTables
    <3> HIDE DEF up
    <3>2. QED
      BY <3>1, InputFacts, FS_Subset
  <2>2. PICK w : up = {w}
    BY <1>2, <2>1, FS_Singleton
  <2>3. (CHOOSE x \in up : TRUE) = w
    BY <2>2
  <2>4. CheckedVTable(c) = CHOOSE x \in up : TRUE
    BY <1>2 DEF CheckedVTable
  <2>5. QED
    BY <1>2, <2>2, <2>3, <2>4
<1>3. CASE knowsAbout(v) /\ precise(c) # class(c) /\ Cardinality(up) # 1
  <2>1. ~ (knowsAbout(<<precise(c), 0>>) /\ Cardinality(down) = 1)
    <3>1. ASSUME knowsAbout(<<precise(c), 0>>)
          PROVE  Cardinality(down) = 0
      BY <1>3, <3>1, PreciseIsBelow, FS_EmptySet
    <3>2. QED
      BY <3>1
  <2>2. QED
    BY <1>3, <2>1 DEF CheckedVTable
<1>4. QED
  BY <1>1, <1>2, <1>3

\* What it can be.
LEMMA CheckedVTableType ==
  ASSUME InputInv, NEW c \in Calls
  PROVE  /\ CheckedVTable(c) \in Class \X Nat
         /\ knowsAbout(<<class(c), 0>>) => CheckedVTable(c) \in Descendants(<<class(c), 0>>)
         /\ ~ knowsAbout(<<class(c), 0>>) => CheckedVTable(c) = <<class(c), 0>>
<1>1. CASE CheckedVTable(c) = <<class(c), 0>>
  <2>1. <<class(c), 0>> \in Class \X Nat
    BY CallFacts
  <2>2. QED
    BY <1>1, <2>1, OrderFacts DEF knowsAbout
<1>2. CASE knowsAbout(<<class(c), 0>>) /\ SubVTables(precise(c), class(c)) = {CheckedVTable(c)}
  <2>1. CheckedVTable(c) \in VTables /\ CheckedVTable(c) \in Descendants(<<class(c), 0>>)
    BY <1>2 DEF SubVTables
  <2>2. QED
    BY <1>2, <2>1, InputFacts DEF VTable
<1>3. QED
  BY <1>1, <1>2, CheckedCases

\* The ranges of a check are typed.
LEMMA CheckRangesType ==
  ASSUME IInv, pc = "done", NEW v
  PROVE  CheckRanges(v) \subseteq Ranges
<1> USE DEF IInv
<1>1. CASE ~ knowsAbout(v)
  BY <1>1 DEF CheckRanges
<1>2. CASE knowsAbout(v)
  <2> DEFINE a == Ancestor(v)
  <2>1. a \in roots /\ v \in CloudOf(a)
    BY <1>2, AncestorFacts DEF knowsAbout
  <2>2. alignmentMap[a] * WORD_WIDTH \in Alignment
    BY <2>1, WordFacts
  <2>3. ASSUME NEW m \in memRangeMap[v]
        PROVE  m.start * WORD_WIDTH \in Nat /\ m.width \in Nat \ {0}
    <3>1. m.start \in Nat /\ m.width \in Nat \ {0}
      BY <2>1, RangeOfRun
    <3>2. QED
      BY <3>1 DEF WORD_WIDTH
  <2>4. QED
    BY <1>2, <2>1, <2>2, <2>3 DEF CheckRanges, Ranges
<1>3. QED
  BY <1>1, <1>2

\* An index that is translated is a number.
LEMMA NewIndexIsInt ==
  ASSUME IInv, pc = "done", NEW c \in Calls,
         HasNewLayout(<<class(c), 0>>) => IsTranslatable(<<class(c), 0>>, oldIndex(c))
  PROVE  NewIndex(c) \in Int
<1> USE DEF IInv
<1> DEFINE v == <<class(c), 0>>
           u == Translated(v)
           k == oldIndex(c)
<1>1. k \in Int
  BY CallFacts
<1>2. CASE ~ HasNewLayout(v)
  BY <1>1, <1>2 DEF NewIndex
<1>3. CASE HasNewLayout(v)
  <2>1. PICK w \in Descendants(v) : v \in VTables /\ isDefined(w)
    BY <1>3 DEF HasNewLayout, knowsAbout
  <2>2. v \in CloudOf(Ancestor(v)) /\ Ancestor(v) \in roots
    BY <2>1, AncestorFacts
  <2>3. u \in VTables /\ isDefined(u)
    BY <2>1, <2>2, TranslatedFacts
  <2>4. /\ first(u) \in Nat /\ addrPt(u) \in Nat /\ last(u) \in Nat
        /\ first(u) < addrPt(u) /\ addrPt(u) <= last(u)
        /\ prePadMap[u] \in Nat /\ prePadMap \in [VTables -> Nat]
    BY <2>3, RegionFacts DEF TypeOK
  <2>5. addrPt(u) + k \in first(u) .. last(u)
    BY <1>3 DEF IsTranslatable
  <2>6. translateVtblInd(v, k) = newIndex[<<u, addrPt(u) + k - prePadMap[u]>>]
                                  - newIndex[<<u, addrPt(u) - prePadMap[u]>>]
    <3> HIDE DEF u, k
    <3>1. u = Translated(v)
      BY DEF u
    <3>2. QED
      BY <1>1, <2>3, <2>4, <3>1, TranslatedDistance
  <2>7. u \in Placed
    BY <2>3, AllPlaced
  <2> HIDE DEF u, k
  <2>8. /\ addrPt(u) + k - prePadMap[u] \in first(u) - prePadMap[u] .. last(u)
        /\ addrPt(u) - prePadMap[u] \in first(u) - prePadMap[u] .. last(u)
    BY <1>1, <2>4, <2>5
  <2>9. /\ newIndex[<<u, addrPt(u) + k - prePadMap[u]>>] \in Nat
        /\ newIndex[<<u, addrPt(u) - prePadMap[u]>>] \in Nat
    BY <2>7, <2>8, EntryPlaced DEF TypeOK
  <2>10. translateVtblInd(v, k) \in Int
    BY <2>6, <2>9
  <2>11. QED
    BY <1>3, <2>10 DEF NewIndex, k
<1>4. QED
  BY <1>2, <1>3

\* What the rewriting reads from the layout stays while the layout does.
LEMMA LayoutRead ==
  ASSUME UNCHANGED vars
  PROVE  /\ Calls' = Calls /\ pc' = pc
         /\ \A c : /\ oldIndex(c)' = oldIndex(c)
                   /\ NewIndex(c)' = NewIndex(c)
                   /\ HasNewLayout(<<class(c), 0>>)' = HasNewLayout(<<class(c), 0>>)
                   /\ IsTranslatable(<<class(c), 0>>, oldIndex(c))' =
                        IsTranslatable(<<class(c), 0>>, oldIndex(c))
                   /\ CheckedVTable(c)' = CheckedVTable(c)
                   /\ CheckRanges(CheckedVTable(c))' = CheckRanges(CheckedVTable(c))
         /\ \A c, r : validConstVptr(c, r)' = validConstVptr(c, r)
<1>1. /\ program' = program /\ cha' = cha /\ pc' = pc /\ UNCHANGED layout
      /\ vptr' = vptr /\ memRangeMap' = memRangeMap /\ alignmentMap' = alignmentMap
  BY DEF vars, layout, emitted, ranges
<1>2. /\ VTables' = VTables /\ roots' = roots
      /\ \A v : /\ Descendants(v)' = Descendants(v) /\ isDefined(v)' = isDefined(v)
                /\ first(v)' = first(v) /\ addrPt(v)' = addrPt(v) /\ last(v)' = last(v)
                /\ Order(v)' = Order(v)
      /\ \A r : CloudOf(r)' = CloudOf(r)
  BY <1>1, InputUnchanged
<1>3. \A v, k : translateVtblInd(v, k)' = translateVtblInd(v, k)
  BY <1>1, TranslationUnchanged
<1>4. /\ Calls' = Calls
      /\ \A c : /\ class(c)' = class(c) /\ precise(c)' = precise(c)
                /\ oldIndex(c)' = oldIndex(c) /\ constants(c)' = constants(c)
  BY <1>1 DEF Calls, class, precise, oldIndex, constants
<1>5. \A v : knowsAbout(v)' = knowsAbout(v) /\ Ancestor(v)' = Ancestor(v)
             /\ HasNewLayout(v)' = HasNewLayout(v)
  BY <1>2 DEF knowsAbout, Ancestor, HasNewLayout
<1>6. \A c : /\ HasNewLayout(<<class(c), 0>>)' = HasNewLayout(<<class(c), 0>>)
             /\ NewIndex(c)' = NewIndex(c)
  BY <1>3, <1>4, <1>5 DEF NewIndex
<1>7. \A c : IsTranslatable(<<class(c), 0>>, oldIndex(c))' =
               IsTranslatable(<<class(c), 0>>, oldIndex(c))
  BY <1>2, <1>4 DEF IsTranslatable, Translated, FirstDefinedChild
<1>8. \A c : CheckedVTable(c)' = CheckedVTable(c)
  BY <1>1 DEF CheckedVTable, SubVTables, knowsAbout, VTables, Descendants, class, precise
<1>9. \A c : CheckRanges(CheckedVTable(c))' = CheckRanges(CheckedVTable(c))
  BY <1>1, <1>5, <1>8 DEF CheckRanges
<1>10. \A c, r : validConstVptr(c, r)' = validConstVptr(c, r)
  BY <1>1, <1>4, <1>5 DEF validConstVptr, Address
<1>11. QED
  BY <1>1, <1>4, <1>6, <1>7, <1>8, <1>9, <1>10

LEMMA LinkInitInvariant == LinkInit => LinkInv
<1> SUFFICES ASSUME LinkInit
             PROVE  LinkInv
  OBVIOUS
<1>1. IInv
  BY InitInvariant DEF LinkInit
<1>2. /\ pass = "layout" /\ uses = {}
      /\ index = [c \in Calls |-> [op |-> "sd_get_vtbl_index", value |-> oldIndex(c)]]
      /\ check = [c \in Calls |-> [op |-> "sd_get_checked_vptr"]]
  BY DEF LinkInit
<1>3. PassInv
  BY <1>2 DEF PassInv
<1>4. \A c : ~ Rewritten(c) /\ ~ Lowered(c) /\ ~ Constant(c)
  BY <1>2 DEF Rewritten, Lowered, Constant, Reached
<1>5. IndexInv
  <2>1. \A c \in Calls : oldIndex(c) \in Int
    BY <1>1, CallFacts DEF IInv
  <2>2. QED
    BY <1>2, <1>4, <2>1 DEF IndexInv, IndexOps
<1>6. CheckInv
  BY <1>2, <1>4 DEF CheckInv
<1>7. QED
  BY <1>1, <1>3, <1>5, <1>6 DEF LinkInv

\* The layout builder runs as if it were alone; the rewriting leaves it as it is.
LEMMA LayoutKeepsInvariant ==
  ASSUME IInv, [LinkNext]_linkVars
  PROVE  IInv' /\ (LayoutStep \/ UNCHANGED vars)
<1>1. LayoutStep \/ UNCHANGED vars
  <2>1. CASE UNCHANGED linkVars
    BY <2>1 DEF linkVars
  <2>2. CASE LinkNext
    <3>1. Use => UNCHANGED vars
      BY DEF Use, HandleSDGetVtblIndex, HandleSDGetCheckedVtbl, SubstVtblIndex,
             SubstCheckRange
    <3>2. StartIndices \/ NextUses \/ LinkFinished => UNCHANGED vars
      BY DEF StartIndices, NextUses, LinkFinished, linkVars
    <3>3. QED
      BY <2>2, <3>1, <3>2 DEF LinkNext
  <2>3. QED
    BY <2>1, <2>2
<1>2. [Next]_vars
  BY <1>1 DEF LayoutStep
<1>3. QED
  BY <1>1, <1>2, NextInvariant

\* While the layout is built nothing is rewritten.
LEMMA LayoutStepInvariant ==
  ASSUME LinkInv, LayoutStep
  PROVE  (PassInv /\ IndexInv /\ CheckInv)'
<1>1. /\ pass = "layout" /\ Next
      /\ pass' = pass /\ uses' = uses /\ index' = index /\ check' = check
  BY DEF LayoutStep
<1>2. Calls' = Calls /\ \A c : oldIndex(c)' = oldIndex(c)
  <2>1. program' = program
    BY <1>1, Phases
  <2>2. QED
    BY <2>1 DEF Calls, oldIndex
<1>3. \A c : /\ ~ Rewritten(c) /\ ~ Lowered(c) /\ ~ Constant(c)
             /\ ~ Rewritten(c)' /\ ~ Lowered(c)' /\ ~ Constant(c)'
  BY <1>1 DEF Rewritten, Lowered, Constant, Reached
<1>4. PassInv'
  BY <1>1, <1>2 DEF LinkInv, PassInv
<1>5. IndexInv'
  BY <1>1, <1>2, <1>3 DEF LinkInv, IndexInv
<1>6. CheckInv'
  BY <1>1, <1>2, <1>3 DEF LinkInv, CheckInv
<1>7. QED
  BY <1>4, <1>5, <1>6

\* The loops begin when the layout is done.
LEMMA StartStepInvariant ==
  ASSUME LinkInv, StartIndices
  PROVE  (PassInv /\ IndexInv /\ CheckInv)'
<1>1. /\ pass = "layout" /\ UNCHANGED vars /\ index' = index /\ check' = check
      /\ \/ pc = "done" /\ pass' = "indices" /\ uses' = Calls
         \/ pass' = "aborted" /\ uses' = uses
  BY DEF StartIndices
<1>2. /\ Calls' = Calls /\ pc' = pc
      /\ \A c : oldIndex(c)' = oldIndex(c)
  BY <1>1, LayoutRead
<1>3. \A c \in Calls : /\ ~ Rewritten(c) /\ ~ Lowered(c) /\ ~ Constant(c)
                       /\ ~ Rewritten(c)' /\ ~ Lowered(c)' /\ ~ Constant(c)'
  BY <1>1 DEF Rewritten, Lowered, Constant, Reached
<1>4. PassInv'
  BY <1>1, <1>2 DEF LinkInv, PassInv
<1>5. IndexInv'
  BY <1>1, <1>2, <1>3 DEF LinkInv, IndexInv
<1>6. CheckInv'
  BY <1>1, <1>2, <1>3 DEF LinkInv, CheckInv
<1>7. QED
  BY <1>4, <1>5, <1>6

\* An index is translated, or the assert on it ends the link.
LEMMA IndexStepInvariant ==
  ASSUME LinkInv, NEW c \in uses, HandleSDGetVtblIndex(c)
  PROVE  (PassInv /\ IndexInv /\ CheckInv)'
<1> DEFINE v == <<class(c), 0>>
           rewritten == [op |-> "sd_subst_vtbl_index", value |-> NewIndex(c)]
<1>1. /\ pass = "indices" /\ uses' = uses \ {c} /\ UNCHANGED vars /\ check' = check
      /\ c \in Calls /\ uses \subseteq Calls /\ pc = "done"
  BY DEF HandleSDGetVtblIndex, LinkInv, PassInv
<1>2. \/ pass' = "aborted" /\ index' = index
      \/ /\ pass' = pass /\ index' = [index EXCEPT ![c] = rewritten]
         /\ HasNewLayout(v) => IsTranslatable(v, oldIndex(c))
  BY DEF HandleSDGetVtblIndex, NewIndex
<1>3. /\ Calls' = Calls /\ pc' = pc
      /\ \A d : /\ oldIndex(d)' = oldIndex(d) /\ NewIndex(d)' = NewIndex(d)
                /\ HasNewLayout(<<class(d), 0>>)' = HasNewLayout(<<class(d), 0>>)
                /\ IsTranslatable(<<class(d), 0>>, oldIndex(d))' =
                     IsTranslatable(<<class(d), 0>>, oldIndex(d))
  BY <1>1, LayoutRead
<1>4. PassInv'
  BY <1>1, <1>2, <1>3 DEF LinkInv, PassInv
<1>5. \A d \in Calls : /\ ~ Lowered(d) /\ ~ Lowered(d)' /\ ~ Constant(d)'
                       /\ pass' # "aborted" => (Rewritten(d)' <=> Rewritten(d) \/ d = c)
  BY <1>1, <1>2 DEF Rewritten, Lowered, Constant, Reached
<1>6. CheckInv'
  BY <1>1, <1>3, <1>5 DEF LinkInv, CheckInv
<1>7. index \in [Calls -> [op : IndexOps, value : Int]]
  BY DEF LinkInv, IndexInv
<1>8. ASSUME pass' = "aborted", index' = index
      PROVE  IndexInv'
  BY <1>3, <1>7, <1>8 DEF IndexInv
<1>9. ASSUME pass' = pass, index' = [index EXCEPT ![c] = rewritten],
             HasNewLayout(v) => IsTranslatable(v, oldIndex(c))
      PROVE  IndexInv'
  <2>1. NewIndex(c) \in Int
    BY <1>1, <1>9, NewIndexIsInt DEF LinkInv
  <2>2. rewritten \in [op : IndexOps, value : Int] /\ rewritten.value = NewIndex(c)
    BY <2>1 DEF IndexOps
  <2> HIDE DEF rewritten
  <2>3. /\ index'[c] = rewritten
        /\ \A d \in Calls : d # c => index'[d] = index[d]
        /\ index' \in [Calls -> [op : IndexOps, value : Int]]
    BY <1>1, <1>7, <1>9, <2>2
  <2>4. pass # "aborted"
    BY <1>1
  <2>5. ASSUME NEW d \in Calls
        PROVE  /\ index'[d].value = IF Rewritten(d)' THEN NewIndex(d) ELSE oldIndex(d)
               /\ Rewritten(d)' /\ HasNewLayout(<<class(d), 0>>) =>
                    IsTranslatable(<<class(d), 0>>, oldIndex(d))
    <3>1. CASE d = c
      <4>1. Rewritten(d)' /\ index'[d].value = NewIndex(d)
        BY <1>1, <1>5, <1>9, <2>2, <2>3, <2>4, <3>1
      <4>2. QED
        BY <1>9, <3>1, <4>1
    <3>2. CASE d # c
      <4>1. (Rewritten(d)' <=> Rewritten(d)) /\ index'[d] = index[d]
        BY <1>1, <1>5, <1>9, <2>3, <2>4, <3>2
      <4>2. QED
        BY <2>4, <4>1 DEF LinkInv, IndexInv
    <3>3. QED
      BY <3>1, <3>2
  <2>6. QED
    BY <1>3, <1>5, <2>3, <2>5 DEF IndexInv
<1>10. IndexInv'
  BY <1>2, <1>8, <1>9
<1>11. QED
  BY <1>4, <1>6, <1>10

\* A check gets the ranges of its sub-vtable.
LEMMA CheckStepInvariant ==
  ASSUME LinkInv, NEW c \in uses, HandleSDGetCheckedVtbl(c)
  PROVE  (PassInv /\ IndexInv /\ CheckInv)'
<1> DEFINE lowered == [op     |-> "sd_subst_check_range",
                       vtbl   |-> CheckedVTable(c),
                       ranges |-> CheckRanges(CheckedVTable(c)),
                       folded |-> {}, tests |-> {}]
<1>1. /\ pass = "checks" /\ pass' = pass /\ uses' = uses \ {c}
      /\ UNCHANGED vars /\ index' = index
      /\ check' = [check EXCEPT ![c] = lowered]
      /\ c \in Calls /\ uses \subseteq Calls
  BY DEF HandleSDGetCheckedVtbl, LinkInv, PassInv
<1>2. /\ Calls' = Calls /\ pc' = pc
      /\ \A d : /\ oldIndex(d)' = oldIndex(d) /\ NewIndex(d)' = NewIndex(d)
                /\ HasNewLayout(<<class(d), 0>>)' = HasNewLayout(<<class(d), 0>>)
                /\ IsTranslatable(<<class(d), 0>>, oldIndex(d))' =
                     IsTranslatable(<<class(d), 0>>, oldIndex(d))
                /\ CheckedVTable(d)' = CheckedVTable(d)
                /\ CheckRanges(CheckedVTable(d))' = CheckRanges(CheckedVTable(d))
      /\ \A d, r : validConstVptr(d, r)' = validConstVptr(d, r)
  BY <1>1, LayoutRead
<1>3. \A d \in Calls : /\ Rewritten(d) /\ Rewritten(d)' /\ ~ Constant(d) /\ ~ Constant(d)'
                       /\ Lowered(d)' <=> Lowered(d) \/ d = c
  BY <1>1 DEF Rewritten, Lowered, Constant, Reached
<1>4. PassInv'
  BY <1>1, <1>2 DEF LinkInv, PassInv
<1>5. IndexInv'
  BY <1>1, <1>2, <1>3 DEF LinkInv, IndexInv
<1>6. DOMAIN check' = Calls /\ check'[c] = lowered
      /\ \A d \in Calls : d # c => check'[d] = check[d]
  BY <1>1 DEF LinkInv, CheckInv
<1>7. CheckInv'
  <2> DEFINE Good(d, x) ==
        LET R == x.ranges  F == x.folded  T == x.tests IN
        /\ x = [op |-> "sd_subst_check_range", vtbl |-> CheckedVTable(d),
                ranges |-> R, folded |-> F, tests |-> T]
        /\ R \cup F \cup T = CheckRanges(CheckedVTable(d))
        /\ \A r \in F : validConstVptr(d, r)
  <2>1. Good(c, lowered)
    OBVIOUS
  <2>2. \A d \in Calls : IF Lowered(d) THEN Good(d, check[d])
                         ELSE check[d] = [op |-> "sd_get_checked_vptr"]
    BY DEF LinkInv, CheckInv
  <2> HIDE DEF Good, lowered
  <2>3. \A d \in Calls : IF Lowered(d)' THEN Good(d, check'[d])
                         ELSE check'[d] = [op |-> "sd_get_checked_vptr"]
    BY <1>3, <1>6, <2>1, <2>2
  <2>4. pass' # "linked"
    BY <1>1
  <2>5. QED
    BY <1>2, <1>6, <2>3, <2>4 DEF CheckInv, Good
<1>8. QED
  BY <1>4, <1>5, <1>7

\* A translated index becomes a constant.
LEMMA ConstantStepInvariant ==
  ASSUME LinkInv, NEW c \in uses, SubstVtblIndex(c)
  PROVE  (PassInv /\ IndexInv /\ CheckInv)'
<1>1. /\ pass = "subst indices" /\ pass' = pass /\ uses' = uses \ {c}
      /\ UNCHANGED vars /\ check' = check
      /\ index' = [index EXCEPT ![c].op = "constant"]
      /\ c \in Calls /\ uses \subseteq Calls
  BY DEF SubstVtblIndex, LinkInv, PassInv
<1>2. /\ Calls' = Calls /\ pc' = pc
      /\ \A d : /\ oldIndex(d)' = oldIndex(d) /\ NewIndex(d)' = NewIndex(d)
                /\ HasNewLayout(<<class(d), 0>>)' = HasNewLayout(<<class(d), 0>>)
                /\ IsTranslatable(<<class(d), 0>>, oldIndex(d))' =
                     IsTranslatable(<<class(d), 0>>, oldIndex(d))
                /\ CheckedVTable(d)' = CheckedVTable(d)
                /\ CheckRanges(CheckedVTable(d))' = CheckRanges(CheckedVTable(d))
      /\ \A d, r : validConstVptr(d, r)' = validConstVptr(d, r)
  BY <1>1, LayoutRead
<1>3. \A d \in Calls : /\ Rewritten(d) /\ Rewritten(d)' /\ Lowered(d) /\ Lowered(d)'
                       /\ Constant(d)' <=> Constant(d) \/ d = c
  BY <1>1 DEF Rewritten, Lowered, Constant, Reached
<1>4. PassInv'
  BY <1>1, <1>2 DEF LinkInv, PassInv
<1>5. index \in [Calls -> [op : IndexOps, value : Int]]
  BY DEF LinkInv, IndexInv
<1>6. /\ index'[c].op = "constant" /\ index'[c].value = index[c].value
      /\ \A d \in Calls : d # c => index'[d] = index[d]
      /\ index' \in [Calls -> [op : IndexOps, value : Int]]
  BY <1>1, <1>5 DEF IndexOps
<1>7. \A d \in Calls : /\ index'[d].value = index[d].value
                       /\ Constant(d)' => index'[d].op = "constant"
  <2>1. pass # "aborted"
    BY <1>1
  <2>2. QED
    BY <1>3, <1>6, <2>1 DEF LinkInv, IndexInv
<1>8. IndexInv'
  <2>1. pass # "aborted"
    BY <1>1
  <2>2. \A d \in Calls :
          /\ index[d].value = NewIndex(d)
          /\ HasNewLayout(<<class(d), 0>>) => IsTranslatable(<<class(d), 0>>, oldIndex(d))
    BY <1>3, <2>1 DEF LinkInv, IndexInv
  <2>3. QED
    BY <1>2, <1>3, <1>6, <1>7, <2>2 DEF IndexInv
<1>9. CheckInv'
  BY <1>1, <1>2, <1>3 DEF LinkInv, CheckInv
<1>10. QED
  BY <1>4, <1>8, <1>9

\* A pair of a known first element.
LEMMA PairOf ==
  ASSUME NEW a, NEW S, NEW u, u \in {a} \X S
  PROVE  \E q \in S : u = <<a, q>>
OBVIOUS

\* One range of a check becomes a test, or is decided.
LEMMA RangeStepInvariant ==
  ASSUME LinkInv, NEW c \in Calls, NEW r \in check[c].ranges, SubstCheckRange(c, r)
  PROVE  (PassInv /\ IndexInv /\ CheckInv)'
<1>1. pass = "subst checks" /\ uses = UNION {{d} \X check[d].ranges : d \in Calls}
  BY DEF SubstCheckRange, LinkInv, PassInv
<1> DEFINE V == validConstVptr(c, r)
           R == check[c].ranges
           F == check[c].folded
           T == check[c].tests
           R1 == R \ {r}
           F1 == F \cup IF V THEN {r} ELSE {}
           T1 == T \cup IF V THEN {} ELSE {r}
           folded == [op |-> "sd_subst_check_range", vtbl |-> CheckedVTable(c),
                      ranges |-> R1, folded |-> F1, tests |-> T1]
           changed == [op |-> check[c].op, vtbl |-> check[c].vtbl,
                       ranges |-> R1, folded |-> F1, tests |-> T1]
<1>2. /\ pass' = pass /\ uses' = uses \ {<<c, r>>} /\ UNCHANGED vars /\ index' = index
      /\ check' = [check EXCEPT ![c] = changed]
  BY DEF SubstCheckRange
<1>3. /\ Calls' = Calls /\ pc' = pc
      /\ \A d : /\ oldIndex(d)' = oldIndex(d) /\ NewIndex(d)' = NewIndex(d)
                /\ HasNewLayout(<<class(d), 0>>)' = HasNewLayout(<<class(d), 0>>)
                /\ IsTranslatable(<<class(d), 0>>, oldIndex(d))' =
                     IsTranslatable(<<class(d), 0>>, oldIndex(d))
                /\ CheckedVTable(d)' = CheckedVTable(d)
                /\ CheckRanges(CheckedVTable(d))' = CheckRanges(CheckedVTable(d))
      /\ \A d, q : validConstVptr(d, q)' = validConstVptr(d, q)
  BY <1>2, LayoutRead
<1>4. \A d : /\ Rewritten(d) /\ Rewritten(d)' /\ Lowered(d) /\ Lowered(d)'
             /\ Constant(d) /\ Constant(d)'
  BY <1>1, <1>2 DEF Rewritten, Lowered, Constant, Reached
<1>5. /\ check[c] = [op |-> "sd_subst_check_range", vtbl |-> CheckedVTable(c),
                     ranges |-> R, folded |-> F, tests |-> T]
      /\ R \cup F \cup T = CheckRanges(CheckedVTable(c))
      /\ \A q \in F : validConstVptr(c, q)
      /\ DOMAIN check = Calls
  BY <1>4 DEF LinkInv, CheckInv
<1>6. changed = folded
  <2>1. check[c].op = "sd_subst_check_range" /\ check[c].vtbl = CheckedVTable(c)
    BY <1>5
  <2>2. QED
    BY <2>1
<1>7. DOMAIN check' = Calls /\ check'[c] = folded
       /\ \A d \in Calls : d # c => check'[d] = check[d]
  <2> HIDE DEF changed, folded
  <2>1. QED
    BY <1>2, <1>5, <1>6
<1>8. PassInv'
  <2>1. \A d \in Calls : check'[d].ranges = IF d = c THEN R1 ELSE check[d].ranges
    <3>1. folded.ranges = R1
      OBVIOUS
    <3> HIDE DEF folded, R1
    <3>2. QED
      BY <1>7, <3>1
  <2>2. uses' = UNION {{d} \X check'[d].ranges : d \in Calls}
    <3> HIDE DEF R1, F1, T1, R, F, T, V, folded, changed
    <3>1. ASSUME NEW x \in uses'
          PROVE  x \in UNION {{d} \X check'[d].ranges : d \in Calls}
      <4>1. PICK d \in Calls : x \in {d} \X check[d].ranges
        BY <1>1, <1>2, <3>1
      <4>2. PICK q \in check[d].ranges : x = <<d, q>>
        BY <4>1, PairOf
      <4>3. q \in check'[d].ranges
        <5>1. CASE d = c
          <6>1. q # r
            BY <1>2, <3>1, <4>2, <5>1
          <6>2. QED
            BY <2>1, <4>2, <5>1, <6>1 DEF R1, R
        <5>2. CASE d # c
          BY <2>1, <4>2, <5>2
        <5>3. QED
          BY <5>1, <5>2
      <4>4. x \in {d} \X check'[d].ranges
        BY <4>2, <4>3
      <4>5. QED
        BY <4>4
    <3>2. ASSUME NEW d \in Calls, NEW x \in {d} \X check'[d].ranges
          PROVE  x \in uses'
      <4>1. PICK q \in check'[d].ranges : x = <<d, q>>
        BY PairOf
      <4>2. q \in check[d].ranges /\ (d = c => q # r)
        BY <2>1, <4>1 DEF R1, R
      <4>3. x \in {d} \X check[d].ranges
        BY <4>1, <4>2
      <4>4. x \in uses
        BY <1>1, <4>3
      <4>5. x # <<c, r>>
        BY <4>1, <4>2
      <4>6. QED
        BY <1>2, <4>4, <4>5
    <3>3. QED
      BY <3>1, <3>2
  <2>3. pc = "done"
    BY <1>1 DEF LinkInv, PassInv
  <2>4. QED
    BY <1>1, <1>2, <1>3, <2>2, <2>3 DEF PassInv
<1>9. IndexInv'
  BY <1>2, <1>3, <1>4 DEF LinkInv, IndexInv
<1>10. CheckInv'
  <2> DEFINE Good(d, x) ==
        LET R2 == x.ranges  F2 == x.folded  T2 == x.tests IN
        /\ x = [op |-> "sd_subst_check_range", vtbl |-> CheckedVTable(d),
                ranges |-> R2, folded |-> F2, tests |-> T2]
        /\ R2 \cup F2 \cup T2 = CheckRanges(CheckedVTable(d))
        /\ \A q \in F2 : validConstVptr(d, q)
  <2>1. Good(c, folded)
    <3>1. R1 \cup F1 \cup T1 = R \cup F \cup T
      <4>4. r \in R
        OBVIOUS
      <4> HIDE DEF R, F, T, V
      <4>1. CASE V
        BY <4>1, <4>4
      <4>2. CASE ~ V
        BY <4>2, <4>4
      <4>3. QED
        BY <4>1, <4>2
    <3>2. \A q \in F1 : validConstVptr(c, q)
      BY <1>5
    <3>3. /\ folded.ranges = R1 /\ folded.folded = F1 /\ folded.tests = T1
      OBVIOUS
    <3> HIDE DEF R1, F1, T1, R, F, T
    <3>4. QED
      BY <1>5, <3>1, <3>2, <3>3
  <2>2. \A d \in Calls : Good(d, check[d])
    BY <1>4 DEF LinkInv, CheckInv
  <2> HIDE DEF Good, folded
  <2>3. \A d \in Calls : Good(d, check'[d])
    BY <1>7, <2>1, <2>2
  <2>4. pass' # "linked"
    BY <1>1, <1>2
  <2>5. QED
    BY <1>3, <1>4, <1>7, <2>3, <2>4 DEF CheckInv, Good
<1>11. QED
  BY <1>8, <1>9, <1>10

\* Between two loops nothing is rewritten, and the next begins with all uses.
LEMMA NextUsesInvariant ==
  ASSUME LinkInv, NextUses
  PROVE  (PassInv /\ IndexInv /\ CheckInv)'
<1>1. UNCHANGED vars /\ index' = index /\ check' = check /\ uses = {}
      /\ pass \in {"indices", "checks", "subst indices", "subst checks"}
  BY DEF NextUses
<1>2. /\ pass = "indices" => pass' = "checks" /\ uses' = Calls
      /\ pass = "checks" => pass' = "subst indices" /\ uses' = Calls
      /\ pass = "subst indices" =>
           pass' = "subst checks" /\ uses' = UNION {{c} \X check[c].ranges : c \in Calls}
      /\ pass = "subst checks" => pass' = "linked" /\ uses' = uses
  BY <1>1 DEF NextUses
<1>3. /\ Calls' = Calls /\ pc' = pc
      /\ \A d : /\ oldIndex(d)' = oldIndex(d) /\ NewIndex(d)' = NewIndex(d)
                /\ HasNewLayout(<<class(d), 0>>)' = HasNewLayout(<<class(d), 0>>)
                /\ IsTranslatable(<<class(d), 0>>, oldIndex(d))' =
                     IsTranslatable(<<class(d), 0>>, oldIndex(d))
                /\ CheckedVTable(d)' = CheckedVTable(d)
                /\ CheckRanges(CheckedVTable(d))' = CheckRanges(CheckedVTable(d))
      /\ \A d, q : validConstVptr(d, q)' = validConstVptr(d, q)
  BY <1>1, LayoutRead
<1>4. \A c \in Calls : /\ Rewritten(c)' <=> Rewritten(c)
                       /\ Lowered(c)' <=> Lowered(c)
                       /\ Constant(c)' <=> Constant(c)
  BY <1>1, <1>2 DEF Rewritten, Lowered, Constant, Reached
<1>5. PassInv'
  BY <1>1, <1>2, <1>3 DEF LinkInv, PassInv
<1>6. pass # "aborted" /\ pass' # "aborted" /\ (pass' = "linked" => pass = "subst checks")
  BY <1>1, <1>2
<1>7. IndexInv'
  BY <1>1, <1>3, <1>4, <1>6 DEF LinkInv, IndexInv
<1>8. ASSUME pass = "subst checks", NEW c \in Calls
      PROVE  check[c].ranges = {}
  <2>1. \A q \in check[c].ranges : <<c, q>> \in {c} \X check[c].ranges
    OBVIOUS
  <2>2. {c} \X check[c].ranges \subseteq uses
    BY <1>8 DEF LinkInv, PassInv
  <2>3. QED
    BY <1>1, <2>1, <2>2
<1>9. CheckInv'
  <2> DEFINE Good(d, x) ==
        LET R2 == x.ranges  F2 == x.folded  T2 == x.tests IN
        /\ x = [op |-> "sd_subst_check_range", vtbl |-> CheckedVTable(d),
                ranges |-> R2, folded |-> F2, tests |-> T2]
        /\ R2 \cup F2 \cup T2 = CheckRanges(CheckedVTable(d))
        /\ \A q \in F2 : validConstVptr(d, q)
  <2>1. DOMAIN check = Calls
        /\ \A d \in Calls : IF Lowered(d) THEN Good(d, check[d])
                            ELSE check[d] = [op |-> "sd_get_checked_vptr"]
    BY DEF LinkInv, CheckInv
  <2> HIDE DEF Good
  <2>2. \A d \in Calls : IF Lowered(d)' THEN Good(d, check[d])
                         ELSE check[d] = [op |-> "sd_get_checked_vptr"]
    BY <1>4, <2>1
  <2>3. \A d \in Calls : pass' = "linked" => check[d].ranges = {}
    BY <1>6, <1>8
  <2>4. QED
    BY <1>1, <1>3, <2>1, <2>2, <2>3 DEF CheckInv, Good
<1>10. QED
  BY <1>5, <1>7, <1>9

LEMMA LinkNextInvariant == LinkInv /\ [LinkNext]_linkVars => LinkInv'
<1> SUFFICES ASSUME LinkInv, [LinkNext]_linkVars
             PROVE  LinkInv'
  OBVIOUS
<1>1. IInv'
  BY LayoutKeepsInvariant DEF LinkInv
<1>2. CASE UNCHANGED linkVars
  <2>1. /\ UNCHANGED vars /\ pass' = pass /\ uses' = uses /\ index' = index /\ check' = check
    BY <1>2 DEF linkVars
  <2>2. /\ Calls' = Calls /\ pc' = pc
        /\ \A d : /\ oldIndex(d)' = oldIndex(d) /\ NewIndex(d)' = NewIndex(d)
                  /\ HasNewLayout(<<class(d), 0>>)' = HasNewLayout(<<class(d), 0>>)
                  /\ IsTranslatable(<<class(d), 0>>, oldIndex(d))' =
                       IsTranslatable(<<class(d), 0>>, oldIndex(d))
                  /\ CheckedVTable(d)' = CheckedVTable(d)
                  /\ CheckRanges(CheckedVTable(d))' = CheckRanges(CheckedVTable(d))
        /\ \A d, q : validConstVptr(d, q)' = validConstVptr(d, q)
    BY <2>1, LayoutRead
  <2>3. \A c : /\ Rewritten(c)' <=> Rewritten(c)
               /\ Lowered(c)' <=> Lowered(c)
               /\ Constant(c)' <=> Constant(c)
    BY <2>1 DEF Rewritten, Lowered, Constant, Reached
  <2>4. PassInv'
    BY <2>1, <2>2 DEF LinkInv, PassInv
  <2>5. IndexInv'
    BY <2>1, <2>2, <2>3 DEF LinkInv, IndexInv
  <2>6. CheckInv'
    BY <2>1, <2>2, <2>3 DEF LinkInv, CheckInv
  <2>7. QED
    BY <1>1, <2>4, <2>5, <2>6 DEF LinkInv
<1>3. CASE LayoutStep \/ StartIndices \/ NextUses
  BY <1>1, <1>3, LayoutStepInvariant, StartStepInvariant, NextUsesInvariant DEF LinkInv
<1>4. CASE Use
  <2>1. CASE pass # "subst checks" /\ \E c \in uses : \/ HandleSDGetVtblIndex(c)
                                                      \/ HandleSDGetCheckedVtbl(c)
                                                      \/ SubstVtblIndex(c)
    BY <1>1, <2>1, IndexStepInvariant, CheckStepInvariant, ConstantStepInvariant DEF LinkInv
  <2>2. CASE pass = "subst checks" /\ \E u \in uses : SubstCheckRange(u[1], u[2])
    <3>1. PICK u \in uses : SubstCheckRange(u[1], u[2])
      BY <2>2
    <3>2. uses = UNION {{d} \X check[d].ranges : d \in Calls}
      BY <2>2 DEF LinkInv, PassInv
    <3>3. PICK c \in Calls : u \in {c} \X check[c].ranges
      BY <3>2
    <3>4. PICK r \in check[c].ranges : u = <<c, r>>
      BY ONLY <3>3, PairOf
    <3>5. SubstCheckRange(c, r)
      BY <3>1, <3>4
    <3>6. QED
      BY <1>1, <3>5, RangeStepInvariant DEF LinkInv
  <2>3. QED
    BY <1>4, <2>1, <2>2 DEF Use
<1>5. CASE LinkFinished
  BY <1>2, <1>5 DEF LinkFinished
<1>6. QED
  BY <1>2, <1>3, <1>4, <1>5 DEF LinkNext

\* Every state of a link satisfies the invariant.
THEOREM LinkInvariant == LinkSpec => []LinkInv
BY LinkInitInvariant, LinkNextInvariant, PTL DEF LinkSpec

\* What the passes write is typed: translated indices are integers, and a check has
\* ranges whose start, width and alignment the lowering can take.
THEOREM LinkTypeCorrect == LinkSpec => []LinkTypeOK
<1>1. LinkInv => LinkTypeOK
  <2> SUFFICES ASSUME LinkInv
               PROVE  LinkTypeOK
    OBVIOUS
  <2>1. ASSUME NEW c \in Calls, Lowered(c)
        PROVE  /\ check[c].op = "sd_subst_check_range"
               /\ check[c].vtbl \in Class \X Nat
               /\ check[c].ranges \cup check[c].folded \cup check[c].tests \subseteq Ranges
    <3>1. pc = "done"
      BY <2>1 DEF LinkInv, PassInv, Lowered, Reached
    <3>2. /\ check[c] = [op |-> "sd_subst_check_range", vtbl |-> CheckedVTable(c),
                         ranges |-> check[c].ranges, folded |-> check[c].folded,
                         tests |-> check[c].tests]
          /\ check[c].ranges \cup check[c].folded \cup check[c].tests =
               CheckRanges(CheckedVTable(c))
      BY <2>1 DEF LinkInv, CheckInv
    <3>3. check[c].op = "sd_subst_check_range" /\ check[c].vtbl = CheckedVTable(c)
      BY <3>2
    <3>4. CheckedVTable(c) \in Class \X Nat
      BY CheckedVTableType DEF LinkInv, IInv
    <3>5. CheckRanges(CheckedVTable(c)) \subseteq Ranges
      BY <3>1, CheckRangesType DEF LinkInv
    <3>6. QED
      BY <3>2, <3>3, <3>4, <3>5
  <2>2. ASSUME NEW c \in Calls, ~ Lowered(c)
        PROVE  check[c] = [op |-> "sd_get_checked_vptr"]
    BY <2>2 DEF LinkInv, CheckInv
  <2>3. ASSUME pass = "subst checks"
        PROVE  uses \subseteq Calls \X Ranges
    <3>1. \A c \in Calls : Lowered(c)
      BY <2>3 DEF Lowered, Reached
    <3>2. \A c \in Calls : check[c].ranges \subseteq Ranges
      BY <2>1, <3>1
    <3>3. uses = UNION {{c} \X check[c].ranges : c \in Calls}
      BY <2>3 DEF LinkInv, PassInv
    <3>4. \A c \in Calls : {c} \X check[c].ranges \subseteq Calls \X Ranges
      BY <3>2
    <3>5. QED
      BY <3>3, <3>4
  <2>4. DOMAIN check = Calls /\ index \in [Calls -> [op : IndexOps, value : Int]]
    BY DEF LinkInv, CheckInv, IndexInv
  <2>5. pass \in {"layout", "indices", "checks", "subst indices", "subst checks",
                  "linked", "aborted"}
        /\ (pass # "subst checks" => uses \subseteq Calls)
    BY DEF LinkInv, PassInv
  <2>6. QED
    BY <2>1, <2>2, <2>3, <2>4, <2>5 DEF LinkTypeOK
<1>2. QED
  BY <1>1, LinkInvariant, PTL

------------------------------------------------------------------------------
(* What the checks let through                                               *)

\* A range of a check, as the lowering sees it.
LEMMA CheckedRange ==
  ASSUME IInv, pc = "done", NEW v, NEW q \in CheckRanges(v)
  PROVE  /\ v \in VTables /\ q.root = Ancestor(v) /\ q.root \in roots
         /\ q.alignment = alignmentMap[Ancestor(v)] * WORD_WIDTH /\ q.alignment \in Alignment
         /\ q.start \in Nat /\ q.width \in Nat \ {0} /\ q.width < WordSize \div q.alignment
         /\ \E m \in memRangeMap[v] : q.start = m.start * WORD_WIDTH /\ q.width = m.width
<1> USE DEF IInv
<1>1. knowsAbout(v)
  BY DEF CheckRanges
<1> DEFINE s == Ancestor(v)
           A == alignmentMap[s]
           a == A * WORD_WIDTH
<1>2. v \in VTables /\ s \in roots /\ v \in CloudOf(s)
  BY <1>1, AncestorFacts DEF knowsAbout
<1>3. PICK m \in memRangeMap[v] :
        q = [root |-> s, start |-> m.start * WORD_WIDTH, width |-> m.width, alignment |-> a]
  BY <1>1 DEF CheckRanges
<1>4. q.root = s /\ q.start = m.start * WORD_WIDTH /\ q.width = m.width /\ q.alignment = a
  BY <1>3
<1>5. m.start \in Nat /\ m.width \in Nat \ {0} /\ m.width <= Cardinality(VTables)
  BY <1>2, RangeOfRun
<1>6. /\ A \in Nat \ {0} /\ a \in Alignment
      /\ Cardinality(VTables) \in Nat /\ Cardinality(VTables) * a < WordSize
  BY <1>2, WordFacts
<1>7. m.start * WORD_WIDTH \in Nat
  BY <1>5 DEF WORD_WIDTH
<1> HIDE DEF a
<1>8. m.width < WordSize \div a
  <2> DEFINE slots == WordSize \div a
             w == m.width
             n == Cardinality(VTables)
  <2>1. a \in Nat \ {0} /\ slots \in Nat /\ WordSize = a * slots
    BY <1>6, AlignmentDivides
  <2>2. w \in Nat /\ n \in Nat /\ w <= n /\ n * a < WordSize
    BY <1>5, <1>6
  <2> HIDE DEF slots, w, n
  <2>3. n < slots
    <3>1. ASSUME slots <= n
          PROVE  FALSE
      <4>1. slots * a <= n * a
        BY <2>1, <2>2, <3>1
      <4>2. QED
        BY <2>1, <2>2, <4>1
    <3>2. QED
      BY <2>1, <2>2, <3>1
  <2>4. w < slots
    BY <2>1, <2>2, <2>3
  <2>5. QED
    BY <2>4 DEF slots, w
<1>9. QED
  BY <1>2, <1>4, <1>5, <1>6, <1>7, <1>8 DEF a

\* A range of a vtable is one of its check.
LEMMA RangeIsChecked ==
  ASSUME IInv, NEW v \in VTables, NEW m \in memRangeMap[v]
  PROVE  \E q \in CheckRanges(v) :
           /\ q.root = Ancestor(v) /\ q.start = m.start * WORD_WIDTH /\ q.width = m.width
           /\ q.alignment = alignmentMap[Ancestor(v)] * WORD_WIDTH
<1> DEFINE q == [root |-> Ancestor(v), start |-> m.start * WORD_WIDTH, width |-> m.width,
                 alignment |-> alignmentMap[Ancestor(v)] * WORD_WIDTH]
<1>1. q \in CheckRanges(v)
  BY DEF CheckRanges, knowsAbout
<1>2. /\ q.root = Ancestor(v) /\ q.start = m.start * WORD_WIDTH /\ q.width = m.width
      /\ q.alignment = alignmentMap[Ancestor(v)] * WORD_WIDTH
  OBVIOUS
<1> HIDE DEF q
<1>3. QED
  BY <1>1, <1>2

\* What derives from a vtable is further down than what that derives from.
LEMMA DescendantsNest ==
  ASSUME InputInv, NEW v \in VTables, NEW u \in Descendants(v)
  PROVE  u \in VTables /\ Descendants(u) \subseteq Descendants(v)
<1>1. u \in VTables /\ Descendants(v) = Derived(program.metadata, v)
  BY OrderFacts
<1>2. Descendants(u) = Derived(program.metadata, u)
  BY <1>1, OrderFacts
<1>3. Derived(program.metadata, u) \subseteq Derived(program.metadata, v)
  BY <1>1, DerivedLeast, DerivedClosed DEF ClosedUnderChildren
<1>4. QED
  BY <1>1, <1>2, <1>3

\* A linked call.
LEMMA LinkedCall ==
  ASSUME LinkInv, pass = "linked", NEW c \in Calls
  PROVE  /\ IInv /\ InputInv /\ pc = "done"
         /\ index[c].op = "constant" /\ index[c].value = NewIndex(c)
         /\ HasNewLayout(<<class(c), 0>>) => IsTranslatable(<<class(c), 0>>, oldIndex(c))
         /\ check[c].ranges = {}
         /\ check[c].folded \cup check[c].tests = CheckRanges(CheckedVTable(c))
         /\ \A q \in check[c].folded : validConstVptr(c, q)
         /\ constants(c) = {} => check[c].folded = {}
<1>1. Rewritten(c) /\ Lowered(c) /\ Constant(c) /\ pass # "aborted"
  BY DEF Rewritten, Lowered, Constant, Reached
<1>2. IInv /\ InputInv /\ pc = "done"
  BY DEF LinkInv, IInv, PassInv
<1>3. /\ index[c].op = "constant" /\ index[c].value = NewIndex(c)
      /\ HasNewLayout(<<class(c), 0>>) => IsTranslatable(<<class(c), 0>>, oldIndex(c))
  BY <1>1 DEF LinkInv, IndexInv
<1>4. /\ check[c].ranges = {}
      /\ check[c].ranges \cup check[c].folded \cup check[c].tests = CheckRanges(CheckedVTable(c))
      /\ \A q \in check[c].folded : validConstVptr(c, q)
  BY <1>1 DEF LinkInv, CheckInv
<1>5. \A q : validConstVptr(c, q) => constants(c) # {}
  BY DEF validConstVptr
<1>6. check[c].folded \cup check[c].tests = CheckRanges(CheckedVTable(c))
  BY <1>4
<1>7. QED
  BY <1>2, <1>3, <1>4, <1>5, <1>6

\* Wherever the optimizer has found out the vptr and the check has been decided, the
\* rotation would have come to the same result at run time: the byte-wise bounds of
\* validConstVptr leave only slots of the range.
THEOREM LinkTimeAgreesWithRunTime == LinkSpec => []LinkTimeAgrees
<1>1. LinkInv => LinkTimeAgrees
  <2> SUFFICES ASSUME LinkInv, pass = "linked", NEW c \in Calls,
                      NEW q \in check[c].folded, NEW w \in constants(c)
               PROVE  InRange(Address(w), q.start, q.width, q.alignment)
    BY DEF LinkTimeAgrees
  <2> DEFINE u == CheckedVTable(c)
             s == Ancestor(u)
             A == alignmentMap[s]
             a == A * WORD_WIDTH
  <2>1. IInv /\ InputInv /\ pc = "done" /\ q \in CheckRanges(u) /\ validConstVptr(c, q)
    BY LinkedCall
  <2>2. /\ u \in VTables /\ q.root = s /\ s \in roots /\ q.alignment = a /\ a \in Alignment
        /\ q.start \in Nat /\ q.width \in Nat \ {0} /\ q.width < WordSize \div a
        /\ \E m \in memRangeMap[u] : q.start = m.start * WORD_WIDTH /\ q.width = m.width
    BY <2>1, CheckedRange
  <2>3. PICK m \in memRangeMap[u] : q.start = m.start * WORD_WIDTH /\ q.width = m.width
    BY <2>2
  <2>4. w \in VTables /\ isDefined(w)
    BY <2>1, CallFacts
  <2>5. /\ Ancestor(w) = s
        /\ q.start <= Address(w) /\ Address(w) < q.start + q.width * 8
    BY <2>1, <2>2 DEF validConstVptr
  <2>6. w \in DefinedIn(s)
    BY <2>1, <2>4, <2>5, AncestorFacts DEF DefinedIn
  <2>7. u \in CloudOf(s)
    BY <2>1, <2>2, AncestorFacts
  <2>8. /\ m.start \in Nat /\ m.start % A = 0
    BY <2>1, <2>2, <2>7, RangeOfRun
  <2>9. A \in Nat \ {0}
    BY <2>1, <2>2, WordFacts
  <2>10. vptr[w] \in Nat /\ vptr[w] % A = 0
    <3>1. /\ vptr[w] \in Nat
          /\ ~ program.interleave => vptr[w] % A = 0
          /\ program.interleave => A = 1
      BY <2>1, <2>2, <2>6, VptrFacts
    <3>2. A = 1 => vptr[w] % A = 0
      BY <3>1
    <3>3. program.interleave \in BOOLEAN
      BY <2>1, InputFacts
    <3>4. QED
      BY <3>1, <3>2, <3>3
  <2>11. PICK i \in Nat : m.start = i * A
    BY <2>8, <2>9, Multiples
  <2>12. PICK k \in Nat : vptr[w] = k * A
    BY <2>9, <2>10, Multiples
  <2>13. m.start <= vptr[w] /\ vptr[w] < m.start + q.width
    BY <2>2, <2>3, <2>5, <2>8, <2>10 DEF Address, WORD_WIDTH
  <2> HIDE DEF A, u, s
  <2>14. i <= k /\ k - i < q.width
    <3>1. i * A <= k * A /\ k * A < i * A + q.width /\ q.width \in Nat
      BY <2>2, <2>11, <2>12, <2>13
    <3> DEFINE n == q.width
    <3> HIDE DEF n
    <3>2. n \in Nat /\ i * A <= k * A /\ k * A < i * A + n
      BY <3>1 DEF n
    <3>3. i <= k
      <4>1. ASSUME k < i
            PROVE  FALSE
        <5>1. (k + 1) * A <= i * A /\ (k + 1) * A = k * A + A
          BY <2>9, <4>1
        <5>2. k * A \in Nat /\ i * A \in Nat
          BY <2>9
        <5>3. QED
          BY <2>9, <3>2, <5>1, <5>2
      <4>2. QED
        BY <4>1
    <3>4. (k - i) * A < n /\ k - i \in Nat
      <4>1. (k - i) * A = k * A - i * A /\ k * A \in Nat /\ i * A \in Nat
        BY <2>9, <3>3
      <4>2. QED
        BY <3>2, <3>3, <4>1
    <3>5. k - i <= (k - i) * A
      <4> DEFINE d == k - i
      <4>1. d \in Nat
        BY <3>4
      <4> HIDE DEF d
      <4>2. d <= d * A
        BY <2>9, <4>1
      <4>3. QED
        BY <4>2 DEF d
    <3>6. (k - i) * A \in Nat
      BY <2>9, <3>4
    <3>7. k - i < n
      BY <3>2, <3>4, <3>5, <3>6
    <3>8. QED
      BY <3>3, <3>7 DEF n
  <2>15. Address(w) = q.start + (k - i) * a
    <3>1. Address(w) = (k * A) * 8 /\ q.start = (i * A) * 8
      BY <2>3, <2>11, <2>12 DEF Address, WORD_WIDTH
    <3>2. (k * A) * 8 = (i * A) * 8 + (k - i) * (A * 8)
      BY <2>9
    <3>3. QED
      BY <3>1, <3>2 DEF WORD_WIDTH
  <2>16. k - i \in 0 .. q.width - 1 /\ Address(w) \in Int /\ q.start \in Int
    BY <2>2, <2>5, <2>10, <2>14 DEF Address, WORD_WIDTH
  <2> HIDE DEF a
  <2>17. InRange(Address(w), q.start, q.width, a)
    BY <2>2, <2>15, <2>16, SlotPasses
  <2>18. QED
    BY <2>2, <2>17
<1>2. QED
  BY <1>1, LinkInvariant, PTL

\* What a legal call finds derives from the sub-vtable of its check: that is no
\* further down than the class the call may rely on.
LEMMA ReceiversChecked ==
  ASSUME InputInv, NEW c \in Calls, knowsAbout(<<class(c), 0>>), NEW w \in LegalReceivers(c)
  PROVE  /\ w \in Descendants(CheckedVTable(c)) /\ w \in Descendants(<<class(c), 0>>)
         /\ isDefined(w)
<1> DEFINE v == <<class(c), 0>>
           subs == SubVTables(precise(c), class(c))
<1>1. isDefined(w) /\ \E u \in IF subs = {} THEN {v} ELSE subs : w \in Descendants(u)
  BY DEF LegalReceivers
<1>2. v \in VTables /\ v \in Descendants(v)
  BY OrderFacts DEF knowsAbout
<1>3. \A u \in subs : u \in Descendants(v)
  BY DEF SubVTables
<1> HIDE DEF v, subs
<1>4. \A u \in subs : Descendants(u) \subseteq Descendants(v)
  BY <1>2, <1>3, DescendantsNest
<1>5. CheckedVTable(c) = v \/ subs = {CheckedVTable(c)}
  BY CheckedCases DEF v, subs
<1>6. w \in Descendants(v)
  BY <1>1, <1>4
<1>7. w \in Descendants(CheckedVTable(c))
  <2>1. CASE CheckedVTable(c) = v
    BY <1>6, <2>1
  <2>2. CASE subs = {CheckedVTable(c)}
    BY <1>1, <2>2
  <2>3. QED
    BY <1>5, <2>1, <2>2
<1>8. QED
  BY <1>1, <1>6, <1>7 DEF v

\* The check of a linked call passes for what derives from its sub-vtable.
LEMMA DescendantPasses ==
  ASSUME LinkInv, pass = "linked", NEW c \in Calls,
         knowsAbout(<<class(c), 0>>), EvenlySpaced(Ancestor(<<class(c), 0>>)),
         NEW w \in Descendants(CheckedVTable(c)), isDefined(w)
  PROVE  Passes(c, PointerOf(w))
<1> DEFINE v == <<class(c), 0>>
           s == Ancestor(v)
           u == CheckedVTable(c)
           A == alignmentMap[s]
           a == A * WORD_WIDTH
<1>1. IInv /\ InputInv /\ pc = "done"
      /\ check[c].folded \cup check[c].tests = CheckRanges(u)
  BY LinkedCall
<1>2. v \in VTables /\ s \in roots /\ v \in CloudOf(s)
  BY <1>1, AncestorFacts DEF knowsAbout
<1>3. u \in Descendants(v)
  BY <1>1, CheckedVTableType
<1>4. u \in CloudOf(s) /\ u \in VTables
  BY <1>1, <1>2, <1>3, CloudMembers, Clouds
<1>5. w \in CloudOf(s) /\ w \in VTables
  BY <1>1, <1>2, <1>4, CloudMembers, Clouds
<1>6. Ancestor(w) = s /\ Ancestor(u) = s
  <2> HIDE DEF s
  <2>1. QED
    BY <1>1, <1>2, <1>4, <1>5, AncestorFacts
<1> HIDE DEF v, u
<1>7. EvenlySpaced(s)
  BY DEF v
<1>8. w \in Descendants(u)
  BY DEF u
<1> HIDE DEF s
<1>9. PICK m \in memRangeMap[u] : \E i \in 0 .. m.width - 1 :
        vptr[w] = m.start + i * A
  BY <1>1, <1>2, <1>4, <1>7, <1>8, DefinedInRange
<1>10. PICK i \in 0 .. m.width - 1 : vptr[w] = m.start + i * A
  BY <1>9
<1>11. PICK q \in CheckRanges(u) :
         /\ q.root = s /\ q.start = m.start * WORD_WIDTH /\ q.width = m.width
         /\ q.alignment = a
  BY <1>1, <1>4, <1>6, RangeIsChecked
<1>12. q.alignment \in Alignment /\ q.start \in Nat /\ q.width \in Nat \ {0}
       /\ q.width < WordSize \div q.alignment
  BY <1>1, CheckedRange
<1>13. CASE q \in check[c].folded
  BY <1>13 DEF Passes
<1>14. CASE q \in check[c].tests
  <2>1. A \in Nat \ {0}
    BY <1>1, <1>2, WordFacts
  <2>2. m.start \in Nat
    BY <1>1, <1>2, <1>4, RangeOfRun
  <2> HIDE DEF A
  <2>3. i \in Nat /\ i \in 0 .. q.width - 1
    BY <1>10, <1>11, <1>12
  <2>4. Address(w) = q.start + i * q.alignment
    <3>1. i * A \in Nat
      BY <2>1, <2>3
    <3>2. (m.start + i * A) * 8 = m.start * 8 + i * (A * 8)
      BY <2>1, <2>2, <2>3, <3>1
    <3>3. QED
      BY <1>10, <1>11, <3>2 DEF Address, WORD_WIDTH
  <2>5. Address(w) \in Int
    <3>1. vptr[w] \in Int
      BY <1>10, <2>1, <2>2, <2>3
    <3>2. QED
      BY <3>1 DEF Address, WORD_WIDTH
  <2> HIDE DEF a
  <2>6. InRange(Address(w), q.start, q.width, q.alignment)
    BY <1>12, <2>3, <2>4, <2>5, SlotPasses
  <2>7. PointerOf(w)[1] = q.root /\ PointerOf(w)[2] = Address(w)
    BY <1>6, <1>11 DEF PointerOf
  <2>8. QED
    BY <1>14, <2>6, <2>7 DEF Passes
<1>15. QED
  BY <1>1, <1>11, <1>13, <1>14

\* After the link no intrinsic is left, and every legal call of a hierarchy of any
\* shape passes its check and loads the entry it meant: the translation of the
\* index, the ranges of the class, their scaling to bytes and the rotation fit
\* together.
THEOREM LegalCallsStillDispatch == LinkSpec => []LegalCallsDispatch
<1>1. LinkInv => LegalCallsDispatch
  <2> SUFFICES ASSUME LinkInv, pass = "linked", NEW c \in Calls
               PROVE  /\ index[c].op = "constant" /\ check[c].ranges = {}
                      /\ knowsAbout(<<class(c), 0>>) /\ EvenlySpaced(Ancestor(<<class(c), 0>>)) =>
                           \A w \in LegalReceivers(c) :
                             /\ Passes(c, PointerOf(w))
                             /\ w \in Receivers(Ancestor(w), <<class(c), 0>>) =>
                                  vptr[w] + index[c].value =
                                    newIndex[<<w, addrPt(w) + oldIndex(c)>>]
    BY DEF LegalCallsDispatch
  <2> DEFINE v == <<class(c), 0>>
             k == oldIndex(c)
  <2>1. /\ IInv /\ InputInv /\ pc = "done"
        /\ index[c].op = "constant" /\ index[c].value = NewIndex(c) /\ check[c].ranges = {}
        /\ HasNewLayout(v) => IsTranslatable(v, k)
    BY LinkedCall
  <2>2. ASSUME knowsAbout(v), EvenlySpaced(Ancestor(v)), NEW w \in LegalReceivers(c)
        PROVE  Passes(c, PointerOf(w))
    BY <2>1, <2>2, ReceiversChecked, DescendantPasses
  <2>3. ASSUME knowsAbout(v), NEW w \in LegalReceivers(c), w \in Receivers(Ancestor(w), v)
        PROVE  vptr[w] + index[c].value = newIndex[<<w, addrPt(w) + k>>]
    <3>1. w \in Descendants(v) /\ isDefined(w)
      BY <2>1, <2>3, ReceiversChecked
    <3>2. HasNewLayout(v)
      BY <2>3, <3>1 DEF HasNewLayout
    <3>3. IsTranslatable(v, k) /\ index[c].value = translateVtblInd(v, k)
      BY <2>1, <3>2 DEF NewIndex
    <3>4. v \in VTables
      BY <2>3 DEF knowsAbout
    <3>5. k \in Int /\ addrPt(v) + k \in first(v) .. last(v)
      BY <2>1, <2>3, CallFacts
    <3>6. first(v) \in Nat /\ addrPt(v) \in Nat /\ last(v) \in Nat
      BY <2>1, <3>4, RegionFacts
    <3> HIDE DEF v, k
    <3>7. k \in first(v) - addrPt(v) .. last(v) - addrPt(v)
      BY <3>5, <3>6
    <3>8. Ancestor(v) \in roots /\ v \in CloudOf(Ancestor(v))
      BY <2>1, <3>4, AncestorFacts
    <3>9. w \in CloudOf(Ancestor(v)) /\ w \in VTables
      BY <2>1, <3>1, <3>8, CloudMembers, Clouds
    <3>10. Ancestor(w) = Ancestor(v)
      BY <2>1, <3>8, <3>9, AncestorFacts
    <3> DEFINE r == Ancestor(v)
    <3>11. r \in roots /\ v \in CloudOf(r) /\ w \in Receivers(r, v)
      BY <2>3, <3>8, <3>10
    <3> HIDE DEF r
    <3>12. vptr[w] + translateVtblInd(v, k) = newIndex[<<w, addrPt(w) + k>>]
      BY <2>1, <3>3, <3>7, <3>11, Dispatched
    <3>13. QED
      BY <3>3, <3>12
  <2>4. QED
    BY <2>1, <2>2, <2>3
<1>2. QED
  BY <1>1, LinkInvariant, PTL

\* The ranges of a precise class come from another vtable than those of the class
\* itself, yet each lies in one of them: what the check of a precise call lets
\* through, the check of an imprecise one lets through too.
THEOREM PreciseChecksNarrow == LinkSpec => []PreciseNarrows
<1>1. LinkInv => PreciseNarrows
  <2> SUFFICES ASSUME LinkInv, pass = "linked", NEW c \in Calls, NEW d \in Calls,
                      class(c) = class(d), precise(d) = class(d),
                      constants(c) = {}, constants(d) = {},
                      knowsAbout(<<class(c), 0>>), EvenlySpaced(Ancestor(<<class(c), 0>>)),
                      NEW x \in Pointer, Passes(c, x)
               PROVE  Passes(d, x)
    BY DEF PreciseNarrows
  <2> DEFINE v == <<class(c), 0>>
             s == Ancestor(v)
             u == CheckedVTable(c)
             A == alignmentMap[s]
             a == A * WORD_WIDTH
  <2>1. /\ IInv /\ InputInv /\ pc = "done"
        /\ check[c].folded = {} /\ check[c].folded \cup check[c].tests = CheckRanges(u)
    BY LinkedCall
  <2>2. /\ check[d].folded = {}
        /\ check[d].folded \cup check[d].tests = CheckRanges(CheckedVTable(d))
    BY LinkedCall
  <2>3. CheckedVTable(d) = v
    BY DEF CheckedVTable
  <2>4. v \in VTables /\ s \in roots /\ v \in CloudOf(s)
    BY <2>1, AncestorFacts DEF knowsAbout
  <2>5. u \in Descendants(v)
    BY <2>1, CheckedVTableType
  <2>6. u \in CloudOf(s) /\ u \in VTables
    BY <2>1, <2>4, <2>5, CloudMembers, Clouds
  <2> HIDE DEF v, u
  <2>7. Ancestor(u) = s
    <3> HIDE DEF s
    <3>1. Ancestor(v) = s
      BY DEF s
    <3>2. QED
      BY <2>1, <2>4, <2>6, AncestorFacts
  <2>8. EvenlySpaced(s)
    BY DEF v
  <2>9. Ancestor(v) = s
    OBVIOUS
  <2> HIDE DEF s
  <2>10. PICK q \in check[c].tests :
           q.root = x[1] /\ InRange(x[2], q.start, q.width, q.alignment)
    BY <2>1 DEF Passes
  <2>11. q \in CheckRanges(u)
    BY <2>1, <2>10
  <2>12. /\ q.root = s /\ q.alignment = a /\ a \in Alignment
         /\ q.start \in Nat /\ q.width \in Nat \ {0}
         /\ \E m \in memRangeMap[u] : q.start = m.start * WORD_WIDTH /\ q.width = m.width
    <3> HIDE DEF a
    <3>1. a = alignmentMap[s] * WORD_WIDTH
      BY DEF a
    <3>2. QED
      BY <2>1, <2>7, <2>11, <3>1, CheckedRange
  <2>13. PICK m \in memRangeMap[u] : q.start = m.start * WORD_WIDTH /\ q.width = m.width
    BY <2>12
  <2>14. PICK k \in memRangeMap[v] : \E j \in Nat :
           m.start = k.start + j * A /\ j + m.width <= k.width
    BY <2>1, <2>4, <2>5, <2>8, RangeNests
  <2>15. PICK j \in Nat : m.start = k.start + j * A /\ j + m.width <= k.width
    BY <2>14
  <2>16. PICK p \in CheckRanges(v) :
           /\ p.root = s /\ p.start = k.start * WORD_WIDTH /\ p.width = k.width
           /\ p.alignment = a
    BY <2>1, <2>4, <2>9, RangeIsChecked
  <2>17. p.start \in Nat /\ p.width \in Nat \ {0} /\ p.width < WordSize \div a
    <3> HIDE DEF a
    <3>1. QED
      BY <2>1, <2>16, CheckedRange
  <2>18. k.start \in Nat
    BY <2>1, <2>4, RangeOfRun
  <2>19. A \in Nat \ {0}
    BY <2>1, <2>4, WordFacts
  <2> HIDE DEF A
  <2>20. q.start = p.start + j * a
    <3>1. j * A \in Nat
      BY <2>15, <2>19
    <3>2. (k.start + j * A) * 8 = k.start * 8 + j * (A * 8)
      BY <2>15, <2>18, <2>19, <3>1
    <3>3. QED
      BY <2>13, <2>15, <2>16, <3>2 DEF WORD_WIDTH
  <2>21. j + q.width <= p.width
    BY <2>13, <2>15, <2>16
  <2> HIDE DEF a
  <2>22. x[2] \in Word
    BY DEF Pointer
  <2>23. InRange(x[2], q.start, q.width, a)
    BY <2>10, <2>12
  <2>24. InRange(x[2], p.start, p.width, a)
    <3> DEFINE y == x[2]  st == p.start  wd == p.width  in == q.start  n == q.width
    <3>1. /\ y \in Word /\ st \in Nat /\ wd \in Nat \ {0} /\ wd < WordSize \div a
          /\ in \in Nat /\ n \in Nat \ {0} /\ in = st + j * a /\ j + n <= wd
          /\ InRange(y, in, n, a) /\ a \in Alignment
      BY <2>12, <2>17, <2>20, <2>21, <2>22, <2>23
    <3> HIDE DEF y, st, wd, in, n
    <3>2. InRange(y, st, wd, a)
      BY <3>1, InnerRange
    <3>3. QED
      BY <3>2 DEF y, st, wd
  <2>25. p \in check[d].tests
    BY <2>2, <2>3, <2>16
  <2>26. p.root = x[1] /\ p.alignment = a
    BY <2>10, <2>12, <2>16
  <2>27. QED
    BY <2>24, <2>25, <2>26 DEF Passes
<1>2. QED
  BY <1>1, LinkInvariant, PTL

\* What one test lets through.
LEMMA TestAdmits ==
  ASSUME IInv, pc = "done", NEW v, NEW q \in CheckRanges(v), NEW y \in Word
  PROVE  /\ InRange(y, q.start, q.width, q.alignment) <=>
              y \in IF q.width > 1 THEN Slots(q.start, q.width, q.alignment)
                                   ELSE {q.start} \cap Word
         /\ q.root \in roots
         /\ Slots(q.start, q.width, q.alignment) \subseteq Word
<1> DEFINE st == q.start  wd == q.width  a == q.alignment
<1>1. /\ st \in Nat /\ wd \in Nat \ {0} /\ a \in Alignment /\ wd < WordSize \div a
      /\ q.root \in roots
  BY CheckedRange
<1> HIDE DEF st, wd, a
<1>2. ASSUME wd > 1
      PROVE  InRange(y, st, wd, a) <=> y \in Slots(st, wd, a)
  BY <1>1, <1>2, InRangeExact
<1>3. ASSUME ~ (wd > 1)
      PROVE  InRange(y, st, wd, a) <=> y \in {st} \cap Word
  BY <1>3 DEF InRange
<1>4. Slots(st, wd, a) \subseteq Word
  <2>1. a \in Nat \ {0} /\ WordSize \in Nat \ {0}
    BY <1>1, AlignmentDivides, WordSizeAssumption
  <2>2. ASSUME NEW i \in 0 .. wd
        PROVE  (st + i * a) % WordSize \in Word
    <3>1. i * a \in Nat
      BY <1>1, <2>1, <2>2
    <3>2. st + i * a \in Int
      BY <1>1, <3>1
    <3>3. QED
      BY <2>1, <3>2, IntDivMod DEF Word
  <2>3. QED
    BY <2>2 DEF Slots
<1>5. QED
  BY <1>1, <1>2, <1>3, <1>4 DEF st, wd, a

\* A check that was not decided lets through the aligned slots of its ranges, the one
\* behind the last included, and nothing else.
THEOREM ChecksAdmitSlots == LinkSpec => []CheckAdmitsSlots
<1>1. LinkInv => CheckAdmitsSlots
  <2> SUFFICES ASSUME LinkInv, pass = "linked", NEW c \in Calls, check[c].folded = {}
               PROVE  {x \in Pointer : Passes(c, x)} =
                        UNION {{r.root} \X (IF r.width > 1
                                            THEN Slots(r.start, r.width, r.alignment)
                                            ELSE {r.start} \cap Word) :
                                 r \in check[c].tests}
    BY DEF CheckAdmitsSlots
  <2> DEFINE T == check[c].tests
             S(r) == IF r.width > 1 THEN Slots(r.start, r.width, r.alignment)
                                    ELSE {r.start} \cap Word
  <2>1. IInv /\ pc = "done" /\ T = CheckRanges(CheckedVTable(c))
    BY LinkedCall
  <2>2. \A r \in T : \A y \in Word : InRange(y, r.start, r.width, r.alignment) <=> y \in S(r)
    BY <2>1, TestAdmits
  <2>3. 0 \in Word
    BY WordSizeAssumption DEF Word
  <2>4. \A r \in T : r.root \in roots /\ Slots(r.start, r.width, r.alignment) \subseteq Word
    BY <2>1, <2>3, TestAdmits
  <2>5. \A r \in T : S(r) \subseteq Word
    BY <2>4
  <2>6. \A x : Passes(c, x) <=>
               \E r \in T : r.root = x[1] /\ InRange(x[2], r.start, r.width, r.alignment)
    BY DEF Passes
  <2> HIDE DEF S, T
  <2>7. ASSUME NEW x \in Pointer, Passes(c, x)
        PROVE  \E r \in T : x \in {r.root} \X S(r)
    <3>1. x[1] \in roots /\ x[2] \in Word /\ x = <<x[1], x[2]>>
      BY DEF Pointer
    <3>2. PICK r \in T : r.root = x[1] /\ InRange(x[2], r.start, r.width, r.alignment)
      BY <2>6, <2>7
    <3>3. x[2] \in S(r)
      BY <2>2, <3>1, <3>2
    <3>4. QED
      BY <3>1, <3>2, <3>3
  <2>8. ASSUME NEW r \in T, NEW x \in {r.root} \X S(r)
        PROVE  x \in Pointer /\ Passes(c, x)
    <3>1. PICK y \in S(r) : x = <<r.root, y>>
      BY PairOf
    <3>2. y \in Word /\ r.root \in roots
      BY <2>4, <2>5
    <3>3. x \in Pointer /\ x[1] = r.root /\ x[2] = y
      BY <3>1, <3>2 DEF Pointer
    <3>4. InRange(x[2], r.start, r.width, r.alignment)
      BY <2>2, <3>2, <3>3
    <3>5. QED
      BY <2>6, <3>3, <3>4
  <2>9. {x \in Pointer : Passes(c, x)} = UNION {{r.root} \X S(r) : r \in T}
    BY <2>7, <2>8
  <2>10. QED
    BY <2>9 DEF S, T
<1>2. QED
  BY <1>1, LinkInvariant, PTL

==============================================================================
