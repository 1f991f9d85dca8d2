-------------------------- MODULE RangeCheck_proofs --------------------------
(****************************************************************************)
(* The rotation of the range check, for every width of the machine word and *)
(* every alignment.                                                         *)
(****************************************************************************)
EXTENDS RangeCheck, TLAPS

\* Division with remainder.
LEMMA DivMod ==
  ASSUME NEW d \in Nat, NEW a \in Nat \ {0}
  PROVE  /\ d \div a \in Nat /\ d % a \in 0 .. a - 1
         /\ d = a * (d \div a) + (d % a)
  OBVIOUS

\* Its result is the only one.
LEMMA DivModUnique ==
  ASSUME NEW d \in Nat, NEW a \in Nat \ {0},
         NEW q \in Nat, NEW r \in 0 .. a - 1, d = a * q + r
  PROVE  d \div a = q /\ d % a = r
  OBVIOUS

\* An alignment divides the words into as many slots as fit.
LEMMA AlignmentDivides ==
  ASSUME NEW a \in Alignment
  PROVE  /\ a \in Nat \ {0}
         /\ WordSize \div a \in Nat \ {0}
         /\ WordSize = a * (WordSize \div a)
<1>1. a \in Nat \ {0} /\ WordSize \in Nat \ {0} /\ WordSize % a = 0
  BY WordSizeAssumption DEF Alignment
<1>2. /\ WordSize \div a \in Nat
      /\ WordSize = a * (WordSize \div a)
  BY <1>1
<1>3. WordSize \div a # 0
  BY <1>1, <1>2
<1> QED BY <1>1, <1>2, <1>3

\* Shifted to the left, the remainder of a word comes first: the distance in
\* slots is gone.
LEMMA ShlIsRemainder ==
  ASSUME NEW a \in Alignment, NEW d \in Word
  PROVE  Shl(d, a) = (d % a) * (WordSize \div a)
<1> DEFINE slots == WordSize \div a
           q == d \div a
           r == d % a
<1>1. a \in Nat \ {0} /\ slots \in Nat \ {0} /\ WordSize = a * slots
  BY AlignmentDivides
<1>2. d \in Nat
  BY DEF Word
<1>3. q \in Nat /\ r \in 0 .. a - 1 /\ d = a * q + r
  BY <1>1, <1>2, DivMod
<1> HIDE DEF slots, q, r
<1>4. d * slots = WordSize * q + r * slots
  BY <1>1, <1>3
<1>5. r * slots \in 0 .. WordSize - 1
  <2>1. r * slots \in Nat
    BY <1>1, <1>3
  <2>2. r * slots <= (a - 1) * slots
    BY <1>1, <1>3
  <2>3. (a - 1) * slots = WordSize - slots
    BY <1>1
  <2> QED BY <2>1, <2>2, <2>3, <1>1, WordSizeAssumption
<1>6. (d * slots) % WordSize = r * slots
  <2>1. d * slots \in Nat
    BY <1>1, <1>2
  <2> QED BY <2>1, <1>3, <1>4, <1>5, DivModUnique, WordSizeAssumption
<1> QED BY <1>6 DEF Shl, slots, r

\* One unsigned comparison of the rotated distance is two tests: the distance
\* is a multiple of the alignment, and it is at most `width' slots.  A width as
\* large as the table never reaches the bits the remainder is rotated into.
THEOREM RotationTestsBoth ==
  ASSUME NEW a \in Alignment, NEW d \in Word,
         NEW width \in Nat, width < WordSize \div a
  PROVE  Ror(d, a) <= width <=> d % a = 0 /\ d \div a <= width
<1> DEFINE slots == WordSize \div a
           q == d \div a
           r == d % a
<1>1. a \in Nat \ {0} /\ slots \in Nat \ {0} /\ d \in Nat
  BY AlignmentDivides DEF Word
<1>2. q \in Nat /\ r \in 0 .. a - 1
  BY <1>1
<1>3. Ror(d, a) = q + r * slots
  BY ShlIsRemainder DEF Ror, LShr
<1> HIDE DEF slots, q, r
<1>4. CASE r = 0
  <2>1. Ror(d, a) = q
    BY <1>1, <1>2, <1>3, <1>4
  <2> QED BY <1>4, <2>1 DEF q, r
<1>5. CASE r # 0
  <2>1. r * slots >= slots
    BY <1>1, <1>2, <1>5
  <2>2. r * slots \in Nat
    BY <1>1, <1>2
  <2>3. ~ (q + r * slots <= width)
    BY <1>1, <1>2, <2>1, <2>2 DEF slots
  <2> QED BY <1>3, <1>5, <2>3 DEF r
<1> QED BY <1>4, <1>5

\* The remainder of an integer is the only one.
LEMMA ModUnique ==
  ASSUME NEW d \in Int, NEW a \in Nat \ {0},
         NEW q \in Int, NEW r \in 0 .. a - 1, d = a * q + r
  PROVE  d % a = r
OBVIOUS

\* An integer and its remainder.
LEMMA IntDivMod ==
  ASSUME NEW d \in Int, NEW a \in Nat \ {0}
  PROVE  d % a \in 0 .. a - 1 /\ \E q \in Int : d = a * q + (d % a)
<1>1. d \div a \in Int /\ d % a \in 0 .. a - 1 /\ d = a * (d \div a) + (d % a)
  OBVIOUS
<1>2. QED
  BY <1>1

\* What is added to a remainder is added to the integer, if it stays a word.
LEMMA ModAdd ==
  ASSUME NEW d \in Int, NEW e \in Nat, (d % WordSize) + e \in Word
  PROVE  (d + e) % WordSize = (d % WordSize) + e
<1> DEFINE m == d % WordSize
<1>1. WordSize \in Nat \ {0}
  BY WordSizeAssumption
<1>2. m \in 0 .. WordSize - 1 /\ \E q \in Int : d = WordSize * q + m
  BY <1>1, IntDivMod
<1>3. PICK q \in Int : d = WordSize * q + m
  BY <1>2
<1>4. m + e \in 0 .. WordSize - 1
  BY DEF Word
<1> HIDE DEF m
<1>5. d + e = WordSize * q + (m + e) /\ d + e \in Int
  <2>1. WordSize * q \in Int
    BY <1>1
  <2>2. QED
    BY <1>2, <1>3, <2>1
<1>6. (d + e) % WordSize = m + e
  BY <1>1, <1>4, <1>5, ModUnique
<1>7. QED
  BY <1>6 DEF m

\* Subtraction of any address undoes addition to it.
LEMMA SubUndoesAddress ==
  ASSUME NEW x \in Word, NEW y \in Nat, NEW d \in Word
  PROVE  Sub(x, y) = d <=> x = (y + d) % WordSize
<1>1. WordSize \in Nat \ {0} /\ x \in 0 .. WordSize - 1 /\ d \in 0 .. WordSize - 1
  BY WordSizeAssumption DEF Word
<1>2. ASSUME Sub(x, y) = d
      PROVE  x = (y + d) % WordSize
  <2>1. x - y \in Int /\ (x - y) % WordSize = d
    BY <1>1, <1>2 DEF Sub
  <2>2. PICK q \in Int : x - y = WordSize * q + d
    BY <1>1, <2>1, IntDivMod
  <2>3. y + d = WordSize * (- q) + x
    <3>1. WordSize * q \in Int /\ WordSize * (- q) = - (WordSize * q)
      BY <1>1
    <3>2. QED
      BY <1>1, <2>2, <3>1
  <2>4. - q \in Int /\ y + d \in Int
    BY <1>1
  <2>5. QED
    BY <1>1, <2>3, <2>4, ModUnique
<1>3. ASSUME x = (y + d) % WordSize
      PROVE  Sub(x, y) = d
  <2>1. y + d \in Int
    BY <1>1
  <2>2. PICK q \in Int : y + d = WordSize * q + x
    BY <1>1, <1>3, <2>1, IntDivMod
  <2>3. x - y = WordSize * (- q) + d
    <3>1. WordSize * q \in Int /\ WordSize * (- q) = - (WordSize * q)
      BY <1>1
    <3>2. QED
      BY <1>1, <2>2, <3>1
  <2>4. - q \in Int /\ x - y \in Int
    BY <1>1
  <2>5. (x - y) % WordSize = d
    BY <1>1, <2>3, <2>4, ModUnique
  <2>6. QED
    BY <2>5 DEF Sub
<1>4. QED
  BY <1>2, <1>3

\* A multiple of the alignment that a range can hold is a word.
LEMMA SlotIsWord ==
  ASSUME NEW a \in Alignment, NEW n \in Nat, n < WordSize \div a
  PROVE  n * a \in Word
<1> DEFINE slots == WordSize \div a
<1>1. a \in Nat \ {0} /\ slots \in Nat \ {0} /\ WordSize = a * slots
  BY AlignmentDivides
<1> HIDE DEF slots
<1>2. n <= slots - 1
  BY <1>1 DEF slots
<1>3. n * a \in Nat /\ n * a <= (slots - 1) * a
  BY <1>1, <1>2
<1>4. (slots - 1) * a = WordSize - a
  BY <1>1
<1>5. QED
  BY <1>1, <1>3, <1>4, WordSizeAssumption DEF Word

\* The check of a range of more than one vtable counts slots from its start, which
\* may be any address.
LEMMA InRangeCounts ==
  ASSUME NEW a \in Alignment, NEW x \in Int, NEW start \in Int,
         NEW width \in Nat, 1 < width, width < WordSize \div a
  PROVE  InRange(x, start, width, a) <=> \E i \in 0 .. width : Sub(x, start) = i * a
<1> DEFINE d == Sub(x, start)
<1>1. a \in Nat \ {0} /\ WordSize \in Nat \ {0} /\ WordSize \div a \in Nat
  BY AlignmentDivides, WordSizeAssumption
<1>2. d \in Word
  <2>1. x - start \in Int
    OBVIOUS
  <2>2. QED
    BY <1>1, <2>1, IntDivMod DEF Sub, Word
<1>3. d \in Nat
  BY <1>1, <1>2 DEF Word
<1>4. InRange(x, start, width, a) <=> d % a = 0 /\ d \div a <= width
  BY <1>2, RotationTestsBoth DEF InRange
<1> HIDE DEF d
<1>5. ASSUME d % a = 0, d \div a <= width
      PROVE  \E i \in 0 .. width : d = i * a
  <2>1. d \div a \in Nat /\ d = a * (d \div a) + (d % a)
    BY <1>1, <1>3, DivMod
  <2>2. d \div a \in 0 .. width /\ d = (d \div a) * a
    BY <1>1, <1>5, <2>1
  <2>3. QED
    BY <2>2
<1>6. ASSUME NEW i \in 0 .. width, d = i * a
      PROVE  d % a = 0 /\ d \div a <= width
  <2>1. i \in Nat /\ d = a * i + 0 /\ 0 \in 0 .. a - 1 /\ i <= width
    BY <1>1, <1>6
  <2>2. d \div a = i /\ d % a = 0
    BY <1>1, <1>3, <2>1, DivModUnique
  <2>3. QED
    BY <2>1, <2>2
<1>7. QED
  BY <1>4, <1>5, <1>6 DEF d

\* The check a range of more than one vtable is lowered to lets a word through
\* exactly if it is one of the slots from the start of the range to the one
\* behind its last: "diffRor <= width" counts one slot too many.
THEOREM InRangeExact ==
  ASSUME NEW a \in Alignment, NEW vptr \in Word, NEW start \in Nat,
         NEW width \in Nat, 1 < width, width < WordSize \div a
  PROVE  InRange(vptr, start, width, a) <=> vptr \in Slots(start, width, a)
<1>1. vptr \in Int /\ start \in Int /\ WordSize \div a \in Nat
  BY AlignmentDivides DEF Word
<1>2. InRange(vptr, start, width, a) <=> \E i \in 0 .. width : Sub(vptr, start) = i * a
  BY <1>1, InRangeCounts
<1>3. ASSUME NEW i \in 0 .. width
      PROVE  Sub(vptr, start) = i * a <=> vptr = (start + i * a) % WordSize
  <2>1. i \in Nat /\ i < WordSize \div a
    BY <1>1
  <2>2. i * a \in Word
    BY <2>1, SlotIsWord
  <2> DEFINE d == i * a
  <2>3. d \in Word
    BY <2>2
  <2> HIDE DEF d
  <2>4. Sub(vptr, start) = d <=> vptr = (start + d) % WordSize
    BY <2>3, SubUndoesAddress
  <2>5. QED
    BY <2>4 DEF d
<1>4. QED
  BY <1>2, <1>3 DEF Slots

\* A slot of a range passes its check.
LEMMA SlotPasses ==
  ASSUME NEW a \in Alignment, NEW x \in Int, NEW start \in Int,
         NEW width \in Nat \ {0}, width < WordSize \div a,
         NEW j \in 0 .. width - 1, x = start + j * a
  PROVE  InRange(x, start, width, a)
<1>1. a \in Nat \ {0} /\ WordSize \in Nat \ {0} /\ WordSize \div a \in Nat
  BY AlignmentDivides, WordSizeAssumption
<1>2. j \in Nat /\ j < WordSize \div a /\ j \in 0 .. width
  BY <1>1
<1>3. j * a \in Word
  BY <1>2, SlotIsWord
<1>4. Sub(x, start) = j * a
  <2> DEFINE e == j * a
  <2>1. e \in 0 .. WordSize - 1 /\ e \in Nat
    BY <1>1, <1>3 DEF Word
  <2>2. x - start = e
    <3> HIDE DEF e
    <3>1. x = start + e
      BY DEF e
    <3>2. QED
      BY <2>1, <3>1
  <2> HIDE DEF e
  <2>3. e % WordSize = e
    BY <1>1, <2>1
  <2>4. QED
    BY <2>2, <2>3 DEF Sub, e
<1>5. CASE width > 1
  BY <1>2, <1>4, <1>5, InRangeCounts
<1>6. CASE ~ (width > 1)
  <2>1. j = 0
    BY <1>6
  <2>2. x = start
    BY <1>1, <2>1
  <2>3. QED
    BY <1>6, <2>2 DEF InRange
<1>7. QED
  BY <1>5, <1>6

\* A check admits what the check of a range inside its own admits.
LEMMA InnerRange ==
  ASSUME NEW a \in Alignment, NEW x \in Word, NEW start \in Nat,
         NEW width \in Nat \ {0}, width < WordSize \div a,
         NEW inner \in Nat, NEW n \in Nat \ {0}, NEW j \in Nat,
         inner = start + j * a, j + n <= width, InRange(x, inner, n, a)
  PROVE  InRange(x, start, width, a)
<1>1. a \in Nat \ {0} /\ WordSize \in Nat \ {0} /\ WordSize \div a \in Nat /\ x \in Int
      /\ start \in Int /\ inner \in Int /\ width \in Nat /\ n \in Nat
  BY AlignmentDivides, WordSizeAssumption DEF Word
<1>2. CASE n > 1
  <2>1. n < WordSize \div a /\ width > 1
    BY <1>1, <1>2
  <2>2. PICK i \in 0 .. n : Sub(x, inner) = i * a
    BY ONLY <1>1, <2>1, <1>2, InRangeCounts, a \in Alignment, InRange(x, inner, n, a)
  <2>3. i + j \in Nat /\ i + j \in 0 .. width /\ i + j < WordSize \div a
    BY <1>1
  <2>4. (i + j) * a \in Word /\ (i + j) * a = i * a + j * a /\ j * a \in Nat /\ i * a \in Nat
    BY <1>1, <2>3, SlotIsWord
  <2> DEFINE e == j * a
             f == i * a
  <2>5. e \in Nat /\ f \in Nat /\ f + e \in Word /\ (i + j) * a = f + e
        /\ inner = start + e /\ (x - inner) % WordSize = f
    BY <2>2, <2>4 DEF Sub
  <2> HIDE DEF e, f
  <2>6. x - inner \in Int /\ x - start = (x - inner) + e
    BY <1>1, <2>5
  <2>7. ((x - inner) + e) % WordSize = ((x - inner) % WordSize) + e
    BY <2>5, <2>6, ModAdd
  <2>8. Sub(x, start) = f + e
    BY <2>5, <2>6, <2>7 DEF Sub
  <2>9. \E k \in 0 .. width : Sub(x, start) = k * a
    BY <2>3, <2>5, <2>8
  <2>10. QED
    BY <1>1, <2>1, <2>9, InRangeCounts
<1>3. CASE ~ (n > 1)
  <2>1. n = 1 /\ x = inner
    BY <1>3 DEF InRange
  <2>2. j \in 0 .. width - 1
    BY <1>1, <2>1
  <2>3. QED
    BY ONLY <1>1, <2>1, <2>2, SlotPasses, a \in Alignment, inner = start + j * a,
            width \in Nat \ {0}, width < WordSize \div a
<1>4. QED
  BY <1>2, <1>3

==============================================================================
