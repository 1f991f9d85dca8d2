----------------------------- MODULE RangeCheck ------------------------------
(****************************************************************************)
(* The check SDSubstModule puts in front of a virtual call                  *)
(* (SafeDispatchUpdateIndices.cpp), on words of the machine: a subtraction, *)
(* a rotation to the right by the bits of the alignment, and one comparison *)
(* that is meant to test distance and alignment at once.                    *)
(****************************************************************************)
EXTENDS Integers

CONSTANT WordSize                \* 2 to the power of DL.getPointerSizeInBits

ASSUME WordSizeAssumption == WordSize \in Nat \ {0}

Word == 0 .. WordSize - 1

\* What an alignment of a table can be: alignmentBits is its logarithm.
Alignment == {a \in 1 .. WordSize : WordSize % a = 0}

Sub(x, y)  == (x - y) % WordSize

\* Shifts by alignmentBits and by the other bits of the word.
LShr(d, alignment) == d \div alignment
Shl(d, alignment)  == (d * (WordSize \div alignment)) % WordSize

\* Operators named Mutant... are plausible slips in the definition of that name.
\* Here: the low bits are dropped.
MutantRor(d, alignment) == LShr(d, alignment)

\* Or of the two: they have no bit in common.
Ror(d, alignment) == LShr(d, alignment) + Shl(d, alignment)

InRange(vptr, start, width, alignment) ==
  IF width > 1 THEN Ror(Sub(vptr, start), alignment) <= width
               ELSE vptr = start

\* The slots from start on, alignment bytes apart, up to the n-th.
Slots(start, n, alignment) ==
  {(start + i * alignment) % WordSize : i \in 0 .. n}

==============================================================================
