------------------------------- MODULE Slices -------------------------------
(***************************************************************************)
(* The channels of a waveform register.  The device keeps the channels of  *)
(* a bit mask and interleaves their samples, the highest bit first.  The   *)
(* subroutines of asub.c compute from the mask where the samples of a      *)
(* channel start and how far they are apart; read_register_common copies   *)
(* them out.                                                               *)
(*                                                                         *)
(* A mask is the set of the bits that are set.                             *)
(***************************************************************************)
EXTENDS Integers, FiniteSets, Sequences

\* asub_split_bits for n channels: the place of channel i among those selected,
\* or -1.
SplitBits_LowFirst(mask, n) ==
    [i \in 0 .. n - 1 |->
        IF i \in mask THEN Cardinality({j \in 0 .. i - 1 : j \in mask}) ELSE -1]

SplitBits(mask, n) ==
    [i \in 0 .. n - 1 |->
        IF n - 1 - i \in mask
        THEN Cardinality({j \in 0 .. i - 1 : n - 1 - j \in mask})
        ELSE -1]

\* The number of channels selected: VALA of asub_split_bits, sub_count_bits.
CountBits(mask, n) == Cardinality({j \in 0 .. n - 1 : n - 1 - j \in mask})

\* sub_feed_nset_bits: the bits of the mask below mybit, if it is set.
NsetBits(mybit, mask) ==
    IF mybit \in mask THEN Cardinality({b \in mask : b <= mybit}) - 1 ELSE -1

\* The mask with its n bits in reverse order: shifted left once for each bit below
\* the highest that is set, the bits shifted out below coming in again on the
\* right, then up to the n-th bit, and what is above it is cut off.
Reversed(mask, n) ==
    IF mask = {} THEN {}
    ELSE LET top == CHOOSE b \in mask : \A c \in mask : c <= b
             shifted == {b + top : b \in mask} \cup {top - b : b \in mask \ {0}}
         IN  {b + n - 1 - top : b \in shifted} \cap 0 .. n - 1

NsetBitsRev(mybit, mask, n) == NsetBits(mybit, Reversed(mask, n))

\* read_register_common: how many elements it copies out of a register of len
\* words, and the k-th of them.  A size of 0, or one not below len, is the whole
\* register.
SliceEnd(len, size) == IF size > 0 /\ size < len THEN size ELSE len

SliceLen(len, offset, step, size, nelm) ==
    LET end == SliceEnd(len, size)
        fit == IF offset >= end THEN 0 ELSE (end - offset + step - 1) \div step
    IN  IF fit < nelm THEN fit ELSE nelm

Slice(mem, len, offset, step, size, nelm) ==
    [k \in 1 .. SliceLen(len, offset, step, size, nelm) |-> mem[offset + (k - 1) * step]]
=============================================================================
