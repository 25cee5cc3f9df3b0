-------------------------- MODULE Acquisition_proofs --------------------------
(***************************************************************************)
(* Theorems about Slices, for any number of channels and any mask, length, *)
(* offset and step, and about Acquisition, for any masks, clients and      *)
(* bounds.                                                                 *)
(***************************************************************************)
EXTENDS Acquisition, FiniteSetTheorems, SequenceTheorems, WellFoundedInduction, TLAPS

USE DEF incremented, noted

\* The channels below i that are selected.
Below(bits, n, i) == {j \in 0 .. i - 1 : n - 1 - j \in bits}

----------------------------------------------------------------------------
\* A mask that is not empty has a highest bit.
LEMMA HighestBit ==
    ASSUME NEW n \in Nat, NEW bits \in SUBSET (0 .. n - 1), bits # {}
    PROVE  \E b \in bits : \A c \in bits : c <= b
<1> DEFINE Tops == {n - 1 - b : b \in bits}
<1>1. Tops \subseteq Nat /\ Tops # {}
    <2>1. PICK b \in bits : TRUE  OBVIOUS
    <2>2. n - 1 - b \in Tops  OBVIOUS
    <2>3. \A c \in bits : n - 1 - c \in Nat  OBVIOUS
    <2> QED  BY <2>2, <2>3
<1>2. PICK x \in Tops : \A y \in Tops : ~(<<y, x>> \in OpToRel(<, Nat))
    <2> HIDE DEF Tops
    <2> QED  BY <1>1, NatLessThanWellFounded, WFMin
<1>3. \A y \in Tops : ~(y < x)  BY <1>1, <1>2 DEF OpToRel
<1>4. PICK b \in bits : x = n - 1 - b  BY <1>2
<1>5. ASSUME NEW c \in bits PROVE c <= b
    <2>1. n - 1 - c \in Tops  OBVIOUS
    <2>2. ~(n - 1 - c < n - 1 - b)  BY <1>3, <1>4, <2>1
    <2> QED  BY <2>2
<1> QED  BY <1>5

\* The loop of sub_feed_nset_bits_rev reverses the mask, whichever its highest bit.
LEMMA ReversedBits ==
    ASSUME NEW n \in Nat, NEW bits \in SUBSET (0 .. n - 1)
    PROVE  Reversed(bits, n) = {j \in 0 .. n - 1 : n - 1 - j \in bits}
<1>1. CASE bits = {}
    BY <1>1 DEF Reversed
<1>2. CASE bits # {}
    <2> DEFINE top == CHOOSE b \in bits : \A c \in bits : c <= b
               shifted == {b + top : b \in bits} \cup {top - b : b \in bits \ {0}}
    <2>1. top \in bits /\ \A c \in bits : c <= top  BY <1>2, HighestBit
    <2>2. Reversed(bits, n) = {b + n - 1 - top : b \in shifted} \cap 0 .. n - 1
        BY <1>2 DEF Reversed
    <2> HIDE DEF top
    <2>3. ASSUME NEW j \in 0 .. n - 1, n - 1 - j \in bits
          PROVE  j \in {b + n - 1 - top : b \in shifted}
        <3> DEFINE bit == n - 1 - j
        <3>1. CASE bit = 0
            <4>1. 0 + top \in shifted  BY <2>3, <3>1
            <4>2. j = (0 + top) + n - 1 - top  BY <2>1, <3>1
            <4> QED  BY <4>1, <4>2
        <3>2. CASE bit # 0
            <4>1. top - bit \in shifted  BY <2>3, <3>2
            <4>2. j = (top - bit) + n - 1 - top  BY <2>1
            <4> QED  BY <4>1, <4>2
        <3> QED  BY <3>1, <3>2
    <2>4. ASSUME NEW j \in 0 .. n - 1, j \in {b + n - 1 - top : b \in shifted}
          PROVE  n - 1 - j \in bits
        <3>1. PICK b \in shifted : j = b + n - 1 - top  BY <2>4
        <3>2. CASE b \in {c + top : c \in bits}
            <4>1. PICK c \in bits : b = c + top  BY <3>2
            <4>2. j = c + n - 1  BY <2>1, <3>1, <4>1
            <4> QED  BY <4>2
        <3>3. CASE b \in {top - c : c \in bits \ {0}}
            <4>1. PICK c \in bits \ {0} : b = top - c  BY <3>3
            <4>2. n - 1 - j = c  BY <2>1, <3>1, <4>1
            <4> QED  BY <4>2
        <3> QED  BY <3>2, <3>3
    <2> HIDE DEF shifted
    <2> QED  BY <2>2, <2>3, <2>4
<1> QED  BY <1>1, <1>2

\* How many channels below i are selected is a number, one more than below the
\* last of them.
LEMMA CountBelow ==
    ASSUME NEW n \in Nat, NEW bits \in SUBSET (0 .. n - 1), NEW i \in 0 .. n
    PROVE  IsFiniteSet(Below(bits, n, i)) /\ Cardinality(Below(bits, n, i)) \in Nat
<1>1. IsFiniteSet(0 .. i - 1)  BY FS_Interval
<1>2. Below(bits, n, i) \in SUBSET (0 .. i - 1)  BY DEF Below
<1> QED  BY <1>1, <1>2, FS_Subset, FS_CardinalityType

\* The channel number asub_split_bits gives a channel that is selected, by the
\* channels before it, and the number sub_feed_nset_bits_rev gives it by the bits
\* of the reversed mask, are the same.
THEOREM NumbersAgree ==
    ASSUME NEW n \in Nat, NEW bits \in SUBSET (0 .. n - 1), NEW i \in 0 .. n - 1
    PROVE  NsetBitsRev(i, bits, n) = SplitBits(bits, n)[i]
<1> DEFINE R == Reversed(bits, n)
<1>1. R = {j \in 0 .. n - 1 : n - 1 - j \in bits}  BY ReversedBits
<1>2. i \in R <=> n - 1 - i \in bits  BY <1>1
<1>3. SplitBits(bits, n)[i] = IF n - 1 - i \in bits THEN Cardinality(Below(bits, n, i)) ELSE -1
    BY DEF SplitBits, Below
<1>4. NsetBitsRev(i, bits, n) = IF i \in R THEN Cardinality({b \in R : b <= i}) - 1 ELSE -1
    BY DEF NsetBitsRev, NsetBits
<1>5. ASSUME i \in R PROVE Cardinality({b \in R : b <= i}) = Cardinality(Below(bits, n, i)) + 1
    <2>1. {b \in R : b <= i} = Below(bits, n, i) \cup {i}  BY <1>1, <1>5 DEF Below
    <2>2. i \notin Below(bits, n, i)  BY DEF Below
    <2>3. IsFiniteSet(Below(bits, n, i))  BY CountBelow
    <2>4. Cardinality(Below(bits, n, i) \cup {i}) = Cardinality(Below(bits, n, i)) + 1
        BY <2>2, <2>3, FS_AddElement
    <2> QED  BY <2>1, <2>4
<1>6. Cardinality(Below(bits, n, i)) \in Nat  BY CountBelow
<1> HIDE DEF R
<1> QED  BY <1>2, <1>3, <1>4, <1>5, <1>6

\* No two channels that are selected are given the same number, and each number is
\* below the number of channels: so with that as the step, no sample of a waveform
\* is taken for two channels (asub_split_bits, CONFIG_).
THEOREM NumbersDistinct ==
    ASSUME NEW n \in Nat, NEW bits \in SUBSET (0 .. n - 1),
           NEW i \in 0 .. n - 1, n - 1 - i \in bits
    PROVE  /\ SplitBits(bits, n)[i] \in 0 .. CountBits(bits, n) - 1
           /\ \A k \in 0 .. n - 1 : n - 1 - k \in bits /\ k # i
                => SplitBits(bits, n)[k] # SplitBits(bits, n)[i]
<1>1. ASSUME NEW k \in 0 .. n - 1, n - 1 - k \in bits
      PROVE  SplitBits(bits, n)[k] = Cardinality(Below(bits, n, k))
    BY <1>1 DEF SplitBits, Below
<1>2. ASSUME NEW k \in 0 .. n - 1, n - 1 - k \in bits, NEW m \in 0 .. n, k < m
      PROVE  Cardinality(Below(bits, n, k)) < Cardinality(Below(bits, n, m))
    <2>1. Below(bits, n, k) \cup {k} \in SUBSET Below(bits, n, m)  BY <1>2 DEF Below
    <2>2. k \notin Below(bits, n, k)  BY DEF Below
    <2>3. /\ IsFiniteSet(Below(bits, n, k)) /\ Cardinality(Below(bits, n, k)) \in Nat
          /\ IsFiniteSet(Below(bits, n, m)) /\ Cardinality(Below(bits, n, m)) \in Nat
        BY CountBelow
    <2>4. Cardinality(Below(bits, n, k) \cup {k}) = Cardinality(Below(bits, n, k)) + 1
        BY <2>2, <2>3, FS_AddElement
    <2>5. Cardinality(Below(bits, n, k) \cup {k}) <= Cardinality(Below(bits, n, m))
        BY <2>1, <2>3, FS_Subset
    <2> QED  BY <2>3, <2>4, <2>5
<1>3. CountBits(bits, n) = Cardinality(Below(bits, n, n))  BY DEF CountBits, Below
<1>4. Cardinality(Below(bits, n, i)) \in Nat /\ Cardinality(Below(bits, n, n)) \in Nat
    BY CountBelow
<1>5. SplitBits(bits, n)[i] \in 0 .. CountBits(bits, n) - 1
    BY <1>1, <1>2, <1>3, <1>4
<1>6. ASSUME NEW k \in 0 .. n - 1, n - 1 - k \in bits, k # i
      PROVE  SplitBits(bits, n)[k] # SplitBits(bits, n)[i]
    <2>1. Cardinality(Below(bits, n, k)) \in Nat  BY CountBelow
    <2>2. CASE k < i  BY <1>1, <1>2, <1>4, <1>6, <2>1, <2>2
    <2>3. CASE i < k  BY <1>1, <1>2, <1>4, <1>6, <2>1, <2>3
    <2> QED  BY <1>6, <2>2, <2>3
<1> QED  BY <1>5, <1>6

\* read_register_common copies no word from beyond the end of the register, and no
\* more than the record has room for, whatever its offset, step and size.
THEOREM CopyWithin ==
    ASSUME NEW len \in Nat, NEW off \in Nat, NEW stride \in Nat \ {0}, NEW limit \in Nat,
           NEW nelm \in Nat
    PROVE  /\ SliceLen(len, off, stride, limit, nelm) \in 0 .. nelm
           /\ \A k \in 1 .. SliceLen(len, off, stride, limit, nelm) :
                 off + (k - 1) * stride \in 0 .. len - 1
<1> DEFINE end == SliceEnd(len, limit)
           fit == IF off >= end THEN 0 ELSE (end - off + stride - 1) \div stride
<1>1. end \in Nat /\ end <= len  BY DEF SliceEnd
<1>2. SliceLen(len, off, stride, limit, nelm) = IF fit < nelm THEN fit ELSE nelm
    BY DEF SliceLen
<1> HIDE DEF end
<1>3. CASE off >= end
    BY <1>2, <1>3
<1>4. CASE off < end
    <2> DEFINE room == end - off + stride - 1
    <2>1. room \in Nat /\ stride \in Nat \ {0}  BY <1>1, <1>4
    <2>2. fit = room \div stride  BY <1>1, <1>4
    <2>3. room \div stride \in Nat /\ stride * (room \div stride) <= room
        <3> HIDE DEF room
        <3> QED  BY <2>1
    <2> HIDE DEF fit, room
    <2>4. ASSUME NEW k \in 1 .. SliceLen(len, off, stride, limit, nelm)
          PROVE  off + (k - 1) * stride \in 0 .. len - 1
        <3>1. k \in 1 .. fit  BY <1>2, <2>2, <2>3
        <3>2. k * stride <= fit * stride  BY <2>1, <2>2, <2>3, <3>1
        <3>3. (k - 1) * stride = k * stride - stride /\ (k - 1) * stride \in Nat  BY <2>1, <3>1
        <3>4. fit \in Nat /\ stride * fit <= room  BY <2>2, <2>3
        <3>5. fit * stride = stride * fit  BY <2>1, <3>4
        <3>6. k * stride <= room  BY <2>1, <3>1, <3>2, <3>4, <3>5
        <3> QED  BY <1>1, <2>1, <3>3, <3>6 DEF room
    <2> QED  BY <1>2, <2>2, <2>3, <2>4
<1> QED  BY <1>1, <1>3, <1>4

----------------------------------------------------------------------------
\* Division of a sum of a multiple and of a remainder.
LEMMA Divided ==
    ASSUME NEW n \in Nat \ {0}, NEW q \in Nat, NEW r \in 0 .. n - 1
    PROVE  (q * n + r) % n = r /\ (q * n + r) \div n = q
<1> DEFINE x == q * n + r
           d == x \div n
           e == x % n
<1>1. x \in Nat  OBVIOUS
<1> HIDE DEF x
<1>2. d \in Nat /\ e \in 0 .. n - 1 /\ x = n * d + e  BY <1>1
<1> HIDE DEF d, e
<1>3. q * n + r = d * n + e  BY <1>2 DEF x
<1>4. ~ q < d
    <2> SUFFICES ASSUME q < d PROVE FALSE  OBVIOUS
    <2>1. (d - q) * n >= n  BY <1>2
    <2>2. d * n - q * n = (d - q) * n  BY <1>2
    <2> QED  BY <1>2, <1>3, <2>1, <2>2
<1>5. ~ d < q
    <2> SUFFICES ASSUME d < q PROVE FALSE  OBVIOUS
    <2>1. (q - d) * n >= n  BY <1>2
    <2>2. q * n - d * n = (q - d) * n  BY <1>2
    <2> QED  BY <1>2, <1>3, <2>1, <2>2
<1>6. d = q  BY <1>2, <1>4, <1>5
<1>7. e = r  BY <1>2, <1>3, <1>6
<1> QED  BY <1>6, <1>7 DEF d, e, x

\* A quotient and its remainder.
LEMMA Quotient ==
    ASSUME NEW n \in Nat \ {0}, NEW x \in Nat
    PROVE  x % n \in 0 .. n - 1 /\ x \div n \in Nat /\ x - (x % n) = (x \div n) * n
OBVIOUS

\* The channels of a mask are counted by CountBits, and the place of each among
\* them is what SplitBits says.
LEMMA SelectedCounted ==
    ASSUME NEW m \in SUBSET Channels
    PROVE  /\ Selected(m) \in SUBSET Channels /\ IsFiniteSet(Selected(m))
           /\ CountBits(m, NChannels) = Cardinality(Selected(m))
           /\ CountBits(m, NChannels) \in Nat
           /\ \A ch \in Selected(m) :
                 /\ SplitBits(m, NChannels)[ch] = Cardinality({c \in Selected(m) : c < ch})
                 /\ SplitBits(m, NChannels)[ch] \in 0 .. CountBits(m, NChannels) - 1
                 /\ \A c \in Selected(m) :
                       SplitBits(m, NChannels)[c] = SplitBits(m, NChannels)[ch] => c = ch
           /\ SplitBits(m, NChannels) \in [Channels -> Int]
           /\ \A ch \in Channels \ Selected(m) : SplitBits(m, NChannels)[ch] = -1
<1>1. NChannels \in Nat \ {0}  BY AcquisitionAssumption
<1>2. Channels = 0 .. NChannels - 1  BY DEF Channels
<1>3. Selected(m) = Below(m, NChannels, NChannels)  BY <1>2 DEF Selected, Below
<1>4. IsFiniteSet(Selected(m)) /\ Cardinality(Selected(m)) \in Nat
    BY <1>1, <1>2, <1>3, CountBelow
<1>5. CountBits(m, NChannels) = Cardinality(Selected(m))  BY <1>3 DEF CountBits, Below
<1>6. Selected(m) \in SUBSET Channels  BY DEF Selected
<1>7. ASSUME NEW ch \in Channels
      PROVE  /\ SplitBits(m, NChannels)[ch] =
                    IF ch \in Selected(m) THEN Cardinality(Below(m, NChannels, ch)) ELSE -1
             /\ Below(m, NChannels, ch) = {c \in Selected(m) : c < ch}
             /\ Cardinality(Below(m, NChannels, ch)) \in Nat
    <2>1. SplitBits(m, NChannels)[ch] =
             IF ch \in Selected(m) THEN Cardinality(Below(m, NChannels, ch)) ELSE -1
        BY <1>2 DEF SplitBits, Below, Selected
    <2>2. Below(m, NChannels, ch) = {c \in Selected(m) : c < ch}
        BY <1>1, <1>2 DEF Below, Selected
    <2>3. Cardinality(Below(m, NChannels, ch)) \in Nat
        BY <1>1, <1>2, CountBelow
    <2> QED  BY <2>1, <2>2, <2>3
<1>8. ASSUME NEW ch \in Selected(m)
      PROVE  /\ SplitBits(m, NChannels)[ch] \in 0 .. CountBits(m, NChannels) - 1
             /\ \A c \in Selected(m) :
                   SplitBits(m, NChannels)[c] = SplitBits(m, NChannels)[ch] => c = ch
    <2>1. ch \in 0 .. NChannels - 1 /\ NChannels - 1 - ch \in m  BY <1>2 DEF Selected
    <2>2. /\ SplitBits(m, NChannels)[ch] \in 0 .. CountBits(m, NChannels) - 1
          /\ \A k \in 0 .. NChannels - 1 : NChannels - 1 - k \in m /\ k # ch
                => SplitBits(m, NChannels)[k] # SplitBits(m, NChannels)[ch]
        BY <1>1, <1>2, <2>1, NumbersDistinct
    <2> QED  BY <1>2, <2>2 DEF Selected
<1>9. SplitBits(m, NChannels) \in [Channels -> Int]
    <2>1. SplitBits(m, NChannels) = [ch \in Channels |-> SplitBits(m, NChannels)[ch]]
        BY <1>2 DEF SplitBits
    <2>2. \A ch \in Channels : SplitBits(m, NChannels)[ch] \in Int  BY <1>7
    <2> QED  BY <2>1, <2>2
<1> QED  BY <1>4, <1>5, <1>6, <1>7, <1>8, <1>9

\* A mask that users choose has a channel.
LEMMA SomeSelected ==
    ASSUME NEW m \in Masks
    PROVE  m \in SUBSET Channels /\ CountBits(m, NChannels) \in Nat \ {0}
<1>1. m \in SUBSET Channels /\ m # {} /\ NChannels \in Nat \ {0}  BY AcquisitionAssumption
<1>2. PICK b \in m : TRUE  BY <1>1
<1>3. NChannels - 1 - b \in Selected(m)  BY <1>1, <1>2 DEF Selected, Channels
<1>4. CountBits(m, NChannels) = Cardinality(Selected(m)) /\ IsFiniteSet(Selected(m))
      /\ CountBits(m, NChannels) \in Nat
    BY <1>1, SelectedCounted
<1>5. CountBits(m, NChannels) # 0  BY <1>3, <1>4, FS_EmptySet
<1> QED  BY <1>1, <1>4, <1>5

\* Each place of a mask is a channel's, and word i is of the one whose place is the
\* remainder of i.
LEMMA ChannelOfWord ==
    ASSUME NEW m \in Masks, NEW i \in Nat
    PROVE  /\ ChannelOf(m, i) \in Selected(m)
           /\ SplitBits(m, NChannels)[ChannelOf(m, i)] = i % CountBits(m, NChannels)
           /\ \A ch \in Selected(m) :
                 SplitBits(m, NChannels)[ch] = i % CountBits(m, NChannels) => ChannelOf(m, i) = ch
<1> DEFINE S == Selected(m)
           N == CountBits(m, NChannels)
           place == [ch \in S |-> SplitBits(m, NChannels)[ch]]
<1>1. m \in SUBSET Channels /\ N \in Nat \ {0}  BY SomeSelected
<1>2. /\ N = Cardinality(S) /\ IsFiniteSet(S)
      /\ \A ch \in S :
            /\ SplitBits(m, NChannels)[ch] = Cardinality({c \in S : c < ch})
            /\ SplitBits(m, NChannels)[ch] \in 0 .. N - 1
            /\ \A c \in S : SplitBits(m, NChannels)[c] = SplitBits(m, NChannels)[ch] => c = ch
    BY <1>1, SelectedCounted
<1>3. ChannelOf(m, i) = CHOOSE ch \in S : Cardinality({c \in S : c < ch}) = i % N
    BY <1>2 DEF ChannelOf
<1>4. i % N \in 0 .. N - 1
    <2> HIDE DEF N
    <2> QED  BY <1>1
<1> HIDE DEF S, N
<1>5. place \in Injection(S, 0 .. N - 1)  BY <1>2 DEF Injection, IsInjective
<1>6. IsFiniteSet(0 .. N - 1) /\ Cardinality(0 .. N - 1) = N
    BY <1>1, FS_Interval
<1>7. place \in Surjection(S, 0 .. N - 1)
    <2> HIDE DEF place
    <2> QED  BY <1>2, <1>5, <1>6, FS_Injection
<1>8. PICK ch \in S : place[ch] = i % N  BY <1>4, <1>7 DEF Surjection
<1>9. Cardinality({c \in S : c < ch}) = i % N  BY <1>2, <1>8
<1>10. ChannelOf(m, i) \in S /\ Cardinality({c \in S : c < ChannelOf(m, i)}) = i % N
    BY <1>3, <1>9
<1> QED  BY <1>2, <1>10 DEF S, N

\* What is copied out of a register is a sequence of its words.
LEMMA SliceType ==
    ASSUME NEW X, NEW mem \in [0 .. Size - 1 -> X], NEW len \in 0 .. Size, NEW off \in Nat,
           NEW stride \in Nat \ {0}, NEW limit \in Nat, NEW nelm \in Nat
    PROVE  Slice(mem, len, off, stride, limit, nelm) \in Seq(X)
<1> DEFINE n == SliceLen(len, off, stride, limit, nelm)
           s == [k \in 1 .. n |-> mem[off + (k - 1) * stride]]
<1>1. Size \in Nat /\ len \in Nat  BY AcquisitionAssumption
<1>2. n \in Nat /\ \A k \in 1 .. n : off + (k - 1) * stride \in 0 .. len - 1
    <2>1. n \in 0 .. nelm /\ \A k \in 1 .. n : off + (k - 1) * stride \in 0 .. len - 1
        BY <1>1, CopyWithin, Zenon
    <2> HIDE DEF n
    <2> QED  BY <2>1
<1>3. Slice(mem, len, off, stride, limit, nelm) = s  BY DEF Slice
<1> HIDE DEF n
<1>4. s \in [1 .. n -> X]
    <2>1. ASSUME NEW k \in 1 .. n PROVE mem[off + (k - 1) * stride] \in X
        <3>1. off + (k - 1) * stride \in 0 .. Size - 1  BY <1>1, <1>2
        <3> QED  BY <3>1
    <2> QED  BY <2>1
<1> HIDE DEF s
<1>5. s \in Seq(X)  BY <1>2, <1>4
<1> QED  BY <1>3, <1>5

----------------------------------------------------------------------------
\* The values of the variables, with what TypeOK leaves open: what a write carries,
\* and that no step is zero.
Tags == 0 .. TagMod - 1
Words == [channel : {-1} \cup Channels, acq : Nat]
Memory == [0 .. Size - 1 -> Words]
SlowData == [old : Tags, new : Tags, acq : Nat]
Written_ == {"keep", "tag", "flip"}
Registers_ == {"keep", "tag", "flip", "ready", "circle", "slow"}
Messages == [reg : {"keep"}, value : Masks] \cup [reg : {"tag"}, value : Tags]
                \cup [reg : {"flip", "ready", "circle", "slow"}, value : {{}}]
Places == {"idle", "readTag", "writeTag", "arm", "poll", "readSlow", "compare", "readKeep",
           "readData", "done"}

CountsTyped == user \in {"ioc", "raw"} /\ puts \in Nat /\ tags \in Nat

DevTyped ==
    /\ keep \in Masks /\ tag \in Tags
    /\ ready \in BOOLEAN /\ armed \in BOOLEAN
    /\ bank \in [number : Nat, keep : Masks, tag : Tags]
    /\ words \in Memory /\ slow \in SlowData

IocTyped ==
    /\ mask \in Masks /\ tagRbv \in Tags /\ asked \in Nat
    /\ overtakes \in BOOLEAN /\ late \in SUBSET Channels /\ inUse \in BOOLEAN
    /\ regState \in [Written_ -> {"idle", "writing", "queued"}]
    /\ sending \in Seq(Registers_) /\ wire \in Seq(Messages)
    /\ chain \in {"off", "flip", "ready", "circle", "slow", "copy"}
    /\ memRx \in Memory /\ slowRx \in SlowData /\ slowRaw \in SlowData
    /\ changed \in SUBSET Channels
    /\ config \in [Channels -> Int] /\ offset \in [Channels -> Nat]
    /\ step \in [Channels -> Nat \ {0}] /\ size \in [Channels -> Nat]
    /\ wf \in [Channels -> Seq(Words)]

RawTyped ==
    /\ at \in [Clients -> Places] /\ T \in [Clients -> Tags] /\ since \in [Clients -> Nat]
    /\ chosen \in [Clients -> Masks \cup {{}}] /\ gotKeep \in [Clients -> Masks \cup {{}}]
    /\ gotSlow \in [Clients -> SlowData]
    /\ disturbed \in SUBSET Clients /\ reused \in SUBSET Clients /\ setBack \in BOOLEAN
    /\ got \in [Clients -> [Channels -> Seq(Words)]]

Typed == CountsTyped /\ DevTyped /\ IocTyped /\ RawTyped

LEMMA TypedIsTypeOK ==
    ASSUME Typed PROVE TypeOK
<1>1. /\ user \in {"ioc", "raw"} /\ {puts, tags, asked} \subseteq Nat
      /\ {keep, mask} \subseteq Masks
      /\ {tag, tagRbv} \subseteq 0 .. TagMod - 1
      /\ {ready, armed, overtakes, inUse, setBack} \subseteq BOOLEAN
      /\ {changed, late} \subseteq SUBSET Channels
      /\ {disturbed, reused} \subseteq SUBSET Clients
    BY DEF Typed, CountsTyped, DevTyped, IocTyped, RawTyped, Tags
<1>2. /\ bank \in [number : Nat, keep : Masks, tag : 0 .. TagMod - 1]
      /\ {words, memRx} \subseteq [0 .. Size - 1 -> [channel : {-1} \cup Channels, acq : Nat]]
      /\ {slow, slowRx, slowRaw} \subseteq [old : 0 .. TagMod - 1, new : 0 .. TagMod - 1, acq : Nat]
    BY DEF Typed, DevTyped, IocTyped, Tags, Memory, Words, SlowData
<1>3. /\ regState \in [{"keep", "tag", "flip"} -> {"idle", "writing", "queued"}]
      /\ sending \in Seq({"keep", "tag", "flip", "ready", "circle", "slow"})
      /\ chain \in {"off", "flip", "ready", "circle", "slow", "copy"}
      /\ config \in [Channels -> Int]
    BY DEF Typed, IocTyped, Written_, Registers_
<1>4. ASSUME NEW i \in DOMAIN wire
      PROVE  wire[i].reg \in {"keep", "tag", "flip", "ready", "circle", "slow"}
    <2>1. wire \in Seq(Messages)  BY DEF Typed, IocTyped
    <2>2. wire[i] \in Messages  BY <2>1
    <2> QED  BY <2>2 DEF Messages
<1>5. {offset, step, size} \subseteq [Channels -> Nat]
    <2>1. offset \in [Channels -> Nat] /\ step \in [Channels -> Nat \ {0}]
          /\ size \in [Channels -> Nat]
        BY DEF Typed, IocTyped
    <2>2. step \in [Channels -> Nat]  BY <2>1
    <2> QED  BY <2>1, <2>2
<1>6. /\ wf \in [Channels -> Seq([channel : {-1} \cup Channels, acq : Nat])]
      /\ got \in [Clients -> [Channels -> Seq([channel : {-1} \cup Channels, acq : Nat])]]
    BY DEF Typed, IocTyped, RawTyped, Words
<1>7. /\ since \in [Clients -> Nat]
      /\ at \in [Clients -> {"idle", "readTag", "writeTag", "arm", "poll", "readSlow",
                             "compare", "readKeep", "readData", "done"}]
      /\ T \in [Clients -> 0 .. TagMod - 1]
      /\ {chosen, gotKeep} \subseteq [Clients -> Masks \cup {{}}]
      /\ gotSlow \in [Clients -> [old : 0 .. TagMod - 1, new : 0 .. TagMod - 1, acq : Nat]]
    BY DEF Typed, RawTyped, Places, Tags, SlowData
<1> QED  BY <1>1, <1>2, <1>3, <1>4, <1>5, <1>6, <1>7 DEF TypeOK

----------------------------------------------------------------------------
LEMMA NextTagTyped ==
    ASSUME NEW t \in Tags PROVE NextTag(t) \in Tags
<1>1. TagMod \in Nat \ {0} /\ t + 1 \in Nat  BY AcquisitionAssumption DEF Tags
<1> QED  BY <1>1, Quotient DEF NextTag, Tags

\* The slices of a mask begin and step within it.
LEMMA StepTyped ==
    ASSUME NEW m \in Masks
    PROVE  /\ SplitBits(m, NChannels) \in [Channels -> Int]
           /\ CountBits(m, NChannels) \in Nat \ {0}
<1> QED  BY SomeSelected, SelectedCounted

LEMMA InitTyped ==
    ASSUME Init PROVE Typed
<1>1. /\ NChannels \in Nat \ {0} /\ Size \in Nat \ {0} /\ TagMod \in Nat \ {0}
      /\ Sizes \subseteq [Channels -> Nat]
    BY AcquisitionAssumption
<1>2. CountsTyped  BY AcquisitionAssumption DEF Init, CountsTyped
<1>3. tag \in Tags /\ tagRbv \in Tags /\ mask \in Masks /\ keep \in Masks
    BY <1>1 DEF Init, Tags
<1>4. words \in Memory /\ slow \in SlowData
    BY <1>1, <1>3 DEF Init, Memory, Words, SlowData
<1>5. DevTyped  BY <1>3, <1>4 DEF Init, DevTyped
<1>6. /\ config \in [Channels -> Int]
      /\ CountBits(mask, NChannels) \in Nat \ {0}
    BY <1>3, StepTyped DEF Init
<1>7. offset \in [Channels -> Nat] /\ step \in [Channels -> Nat \ {0}]
    <2>1. \A ch \in Channels : config[ch] \in Int  BY <1>6
    <2>2. offset = [ch \in Channels |-> IF config[ch] >= 0 THEN config[ch] ELSE 0]  BY DEF Init
    <2>3. step = [ch \in Channels |-> CountBits(mask, NChannels)]  BY DEF Init
    <2> QED  BY <1>6, <2>1, <2>2, <2>3
<1>8. size \in [Channels -> Nat]  BY <1>1 DEF Init
<1>9. wf \in [Channels -> Seq(Words)]
    BY EmptySeq DEF Init
<1>10. sending \in Seq(Registers_) /\ wire \in Seq(Messages)
    BY EmptySeq DEF Init
<1>11. IocTyped
    BY <1>3, <1>4, <1>6, <1>7, <1>8, <1>9, <1>10 DEF Init, IocTyped, Written_
<1>12. RawTyped
    <2>1. at \in [Clients -> Places] /\ T \in [Clients -> Tags] /\ since \in [Clients -> Nat]
        BY <1>1 DEF Init, Places, Tags
    <2>2. chosen \in [Clients -> Masks \cup {{}}] /\ gotKeep \in [Clients -> Masks \cup {{}}]
        BY DEF Init
    <2>3. gotSlow \in [Clients -> SlowData]  BY <1>4 DEF Init
    <2>4. got \in [Clients -> [Channels -> Seq(Words)]]  BY <1>9 DEF Init
    <2> QED  BY <2>1, <2>2, <2>3, <2>4 DEF Init, RawTyped
<1> QED  BY <1>2, <1>5, <1>11, <1>12 DEF Typed

LEMMA FlipTyped ==
    ASSUME DevTyped, Flip PROVE DevTyped'
BY DEF DevTyped, Flip

LEMMA FillTyped ==
    ASSUME Typed, Fill PROVE Typed'
<1>1. DevTyped  BY DEF Typed
<1>2. Size \in Nat \ {0}  BY AcquisitionAssumption
<1>3. words' \in Memory
    <2> DEFINE m(i) == IF i < Size \div 2 THEN bank.keep ELSE keep
    <2>1. ASSUME NEW i \in 0 .. Size - 1
          PROVE  [channel |-> ChannelOf(m(i), i), acq |-> bank.number] \in Words
        <3>1. m(i) \in Masks /\ i \in Nat  BY <1>1, <1>2 DEF DevTyped
        <3>2. ChannelOf(m(i), i) \in Channels
            <4> HIDE DEF m
            <4> QED  BY <3>1, ChannelOfWord DEF Selected
        <3>3. bank.number \in Nat  BY <1>1 DEF DevTyped
        <3> HIDE DEF m
        <3> QED  BY <3>2, <3>3 DEF Words
    <2>2. words' = [i \in 0 .. Size - 1 |-> [channel |-> ChannelOf(m(i), i), acq |-> bank.number]]
        BY DEF Fill
    <2> HIDE DEF m
    <2> QED  BY <2>1, <2>2 DEF Memory
<1>4. /\ slow' \in SlowData /\ bank' \in [number : Nat, keep : Masks, tag : Tags]
      /\ ready' \in BOOLEAN /\ armed' \in BOOLEAN /\ keep' = keep /\ tag' = tag
    <2>1. /\ slow' = [old |-> bank.tag, new |-> tag, acq |-> bank.number]
          /\ bank' = [number |-> bank.number + 1, keep |-> keep, tag |-> tag]
          /\ ready' = TRUE /\ armed' = FALSE /\ keep' = keep /\ tag' = tag
        BY DEF Fill
    <2>2. bank.number \in Nat /\ bank.tag \in Tags /\ keep \in Masks /\ tag \in Tags
        BY <1>1 DEF DevTyped
    <2>3. slow' \in SlowData  BY <2>1, <2>2 DEF SlowData
    <2>4. bank' \in [number : Nat, keep : Masks, tag : Tags]
        <3>1. bank.number + 1 \in Nat  BY <2>2
        <3> QED  BY <2>1, <2>2, <3>1
    <2> QED  BY <2>1, <2>3, <2>4
<1>5. DevTyped'  BY <1>1, <1>3, <1>4 DEF DevTyped
<1>6. CountsTyped'  BY DEF Typed, CountsTyped, Fill
<1>7. IocTyped'  BY DEF Typed, IocTyped, Fill, iocVars
<1>8. RawTyped'  BY DEF Typed, RawTyped, Fill, rawVars
<1> QED  BY <1>5, <1>6, <1>7, <1>8 DEF Typed

\* A read of the chain is sent.
LEMMA AskTyped ==
    ASSUME IocTyped, NEW r \in {"ready", "circle", "slow"}, Ask(r)
    PROVE  sending' \in Seq(Registers_) /\ chain' = r
<1>1. sending \in Seq(Registers_) /\ r \in Registers_  BY DEF IocTyped, Registers_
<1> QED  BY <1>1, AppendProperties DEF Ask

LEMMA QueueTyped ==
    ASSUME IocTyped, NEW r \in Written_, QueueWrite(r)
    PROVE  /\ sending' \in Seq(Registers_)
           /\ regState' \in [Written_ -> {"idle", "writing", "queued"}]
<1>1. sending \in Seq(Registers_) /\ r \in Registers_  BY DEF IocTyped, Registers_, Written_
<1>2. sending' \in Seq(Registers_)  BY <1>1, AppendProperties DEF QueueWrite
<1> QED  BY <1>2 DEF IocTyped, QueueWrite

LEMMA WrittenTyped ==
    ASSUME IocTyped, NEW r \in Written_, Written(r)
    PROVE  /\ wire' \in Seq(Messages) /\ Head(wire) \in Messages /\ Head(wire).reg = r
           /\ regState' \in [Written_ -> {"idle", "writing", "queued"}]
<1>1. wire \in Seq(Messages) /\ wire # <<>> /\ wire' = Tail(wire)  BY DEF IocTyped, Written
<1>2. wire' \in Seq(Messages) /\ Head(wire) \in Messages  BY <1>1, HeadTailProperties
<1> QED  BY <1>2 DEF IocTyped, Written

LEMMA ReadTyped ==
    ASSUME IocTyped, NEW r, Read(r)
    PROVE  wire' \in Seq(Messages)
<1>1. wire \in Seq(Messages) /\ wire # <<>> /\ wire' = Tail(wire)  BY DEF IocTyped, Read
<1> QED  BY <1>1, HeadTailProperties

LEMMA IocStepTyped ==
    ASSUME Typed, Ioc PROVE Typed'
<1> USE DEF Typed, devVars, rawVars
<1>1. ASSUME Send PROVE Typed'
    <2>1. /\ sending \in Seq(Registers_) /\ sending # <<>> /\ wire \in Seq(Messages)
          /\ mask \in Masks /\ tagRbv \in Tags
        BY <1>1 DEF Send, IocTyped
    <2>2. Head(sending) \in Registers_ /\ Tail(sending) \in Seq(Registers_)
        BY <2>1, HeadTailProperties
    <2> DEFINE r == Head(sending)
               e == [reg |-> r, value |-> CASE r = "keep" -> mask [] r = "tag" -> tagRbv
                                            [] OTHER -> {}]
    <2>3. e \in Messages  BY <2>1, <2>2 DEF Messages, Registers_
    <2>4. wire' = Append(wire, e)  BY <1>1 DEF Send
    <2> HIDE DEF e
    <2>5. wire' \in Seq(Messages)  BY <2>1, <2>3, <2>4, AppendProperties
    <2>6. IocTyped'  BY <1>1, <2>2, <2>5 DEF Send, IocTyped
    <2> QED  BY <1>1, <2>6 DEF Send, CountsTyped, DevTyped, RawTyped
<1>2. ASSUME WrittenKeep PROVE Typed'
    <2>1. Written("keep")  BY <1>2 DEF WrittenKeep
    <2>2. /\ wire' \in Seq(Messages) /\ Head(wire) \in Messages /\ Head(wire).reg = "keep"
          /\ regState' \in [Written_ -> {"idle", "writing", "queued"}]
        BY <2>1, WrittenTyped DEF Written_
    <2>3. Head(wire).value \in Masks  BY <2>2 DEF Messages
    <2>4. sending' \in Seq(Registers_)
        <3>1. sending \in Seq(Registers_) /\ "keep" \in Registers_  BY DEF IocTyped, Registers_
        <3>2. Append(sending, "keep") \in Seq(Registers_)  BY <3>1, AppendProperties
        <3> QED  BY <1>2, <3>1, <3>2 DEF WrittenKeep
    <2>5. DevTyped'  BY <1>2, <2>3 DEF WrittenKeep, DevTyped
    <2>6. IocTyped'  BY <1>2, <2>2, <2>4 DEF WrittenKeep, IocTyped
    <2> QED  BY <1>2, <2>5, <2>6 DEF WrittenKeep, CountsTyped, RawTyped
<1>3. ASSUME WrittenTag PROVE Typed'
    <2>1. Written("tag")  BY <1>3 DEF WrittenTag
    <2>2. /\ wire' \in Seq(Messages) /\ Head(wire) \in Messages /\ Head(wire).reg = "tag"
          /\ regState' \in [Written_ -> {"idle", "writing", "queued"}]
        BY <2>1, WrittenTyped DEF Written_
    <2>3. Head(wire).value \in Tags  BY <2>2 DEF Messages
    <2>4. DevTyped'  BY <1>3, <2>3 DEF WrittenTag, DevTyped
    <2>5. IocTyped'  BY <1>3, <2>2 DEF WrittenTag, IocTyped
    <2> QED  BY <1>3, <2>4, <2>5 DEF WrittenTag, CountsTyped, RawTyped
<1>4. ASSUME WrittenFlip PROVE Typed'
    <2>1. Written("flip") /\ Flip /\ Ask("ready")  BY <1>4 DEF WrittenFlip
    <2>2. wire' \in Seq(Messages) /\ regState' \in [Written_ -> {"idle", "writing", "queued"}]
        BY <2>1, WrittenTyped DEF Written_
    <2>3. sending' \in Seq(Registers_) /\ chain' = "ready"  BY <2>1, AskTyped
    <2>4. DevTyped'  BY <2>1, FlipTyped
    <2>5. IocTyped'  BY <1>4, <2>2, <2>3 DEF WrittenFlip, IocTyped
    <2> QED  BY <1>4, <2>4, <2>5 DEF WrittenFlip, CountsTyped, RawTyped
<1>5. ASSUME ReadReady PROVE Typed'
    <2>1. Read("ready") /\ \E r \in {"ready", "circle"} : Ask(r)  BY <1>5 DEF ReadReady
    <2>2. wire' \in Seq(Messages)  BY <2>1, ReadTyped
    <2>3. sending' \in Seq(Registers_) /\ chain' \in {"ready", "circle"}  BY <2>1, AskTyped
    <2>4. IocTyped'  BY <1>5, <2>1, <2>2, <2>3 DEF ReadReady, Read, IocTyped
    <2> QED  BY <2>1, <2>4 DEF Read, CountsTyped, DevTyped, RawTyped
<1>6. ASSUME ReadCircle PROVE Typed'
    <2>1. Read("circle") /\ Ask("slow")  BY <1>6 DEF ReadCircle
    <2>2. wire' \in Seq(Messages)  BY <2>1, ReadTyped
    <2>3. sending' \in Seq(Registers_) /\ chain' = "slow"  BY <2>1, AskTyped
    <2>4. memRx' \in Memory  BY <1>6 DEF ReadCircle, DevTyped
    <2>5. IocTyped'  BY <1>6, <2>1, <2>2, <2>3, <2>4 DEF ReadCircle, Read, IocTyped
    <2> QED  BY <2>1, <2>5 DEF Read, CountsTyped, DevTyped, RawTyped
<1>7. ASSUME ReadSlow PROVE Typed'
    <2>1. Read("slow")  BY <1>7 DEF ReadSlow
    <2>2. wire' \in Seq(Messages)  BY <2>1, ReadTyped
    <2>3. slowRx' \in SlowData  BY <1>7 DEF ReadSlow, DevTyped
    <2>4. IocTyped'  BY <1>7, <2>1, <2>2, <2>3 DEF ReadSlow, Read, IocTyped
    <2> QED  BY <2>1, <2>4 DEF Read, CountsTyped, DevTyped, RawTyped
<1>8. ASSUME Copy PROVE Typed'
    <2>1. wf' \in [Channels -> Seq(Words)]
        <3>1. ASSUME NEW ch \in Channels
              PROVE  Slice(memRx, Size, offset[ch], step[ch], size[ch], Size) \in Seq(Words)
            <4>1. Size \in Nat /\ Size \in 0 .. Size  BY AcquisitionAssumption
            <4>2. memRx \in [0 .. Size - 1 -> Words]  BY DEF IocTyped, Memory
            <4>3. offset[ch] \in Nat /\ step[ch] \in Nat \ {0} /\ size[ch] \in Nat
                BY DEF IocTyped
            <4> QED  BY <4>1, <4>2, <4>3, SliceType
        <3>2. \A ch \in Channels : wf[ch] \in Seq(Words)  BY DEF IocTyped
        <3> QED  BY <1>8, <3>1, <3>2 DEF Copy
    <2>2. IocTyped'  BY <1>8, <2>1 DEF Copy, IocTyped
    <2> QED  BY <1>8, <2>2 DEF Copy, CountsTyped, DevTyped, RawTyped
<1>9. ASSUME Command PROVE Typed'
    <2>1. QueueWrite("flip")  BY <1>9 DEF Command
    <2>2. /\ sending' \in Seq(Registers_)
          /\ regState' \in [Written_ -> {"idle", "writing", "queued"}]
        BY <2>1, QueueTyped DEF Written_
    <2>3. IocTyped'  BY <1>9, <2>2 DEF Command, IocTyped
    <2> QED  BY <1>9, <2>3 DEF Command, CountsTyped, DevTyped, RawTyped
<1>10. ASSUME NEW m \in Masks, PutMask(m) PROVE Typed'
    <2>1. QueueWrite("keep")  BY <1>10 DEF PutMask
    <2>2. /\ sending' \in Seq(Registers_)
          /\ regState' \in [Written_ -> {"idle", "writing", "queued"}]
        BY <2>1, QueueTyped DEF Written_
    <2>3. IocTyped'  BY <1>10, <2>2 DEF PutMask, IocTyped
    <2> QED  BY <1>10, <2>3 DEF PutMask, CountsTyped, DevTyped, RawTyped
<1>11. ASSUME NEW ch \in Channels, Configure(ch) PROVE Typed'
    <2> DEFINE slot == SplitBits(mask, NChannels)[ch]
               count == CountBits(mask, NChannels)
    <2>1. slot \in Int /\ count \in Nat \ {0}  BY StepTyped DEF IocTyped
    <2>2. /\ changed' = changed \ {ch}
          /\ config' = [config EXCEPT ![ch] = slot]
          /\ offset' = IF slot >= 0 THEN [offset EXCEPT ![ch] = slot] ELSE offset
          /\ step' = IF slot >= 0 /\ count > 0 THEN [step EXCEPT ![ch] = count] ELSE step
        BY <1>11 DEF Configure
    <2> HIDE DEF slot, count
    <2>3. /\ changed' \in SUBSET Channels
          /\ config' \in [Channels -> Int] /\ offset' \in [Channels -> Nat]
          /\ step' \in [Channels -> Nat \ {0}]
        BY <2>1, <2>2 DEF IocTyped
    <2>4. IocTyped'  BY <1>11, <2>3 DEF Configure, IocTyped
    <2> QED  BY <1>11, <2>4 DEF Configure, CountsTyped, DevTyped, RawTyped
<1>12. ASSUME IncrementTag PROVE Typed'
    <2>1. QueueWrite("tag") /\ tagRbv' = NextTag(tagRbv) /\ tagRbv \in Tags
        BY <1>12 DEF IncrementTag, IocTyped
    <2>2. /\ sending' \in Seq(Registers_)
          /\ regState' \in [Written_ -> {"idle", "writing", "queued"}]
        BY <2>1, QueueTyped DEF Written_
    <2>3. tagRbv' \in Tags  BY <2>1, NextTagTyped
    <2>4. IocTyped'  BY <1>12, <2>2, <2>3 DEF IncrementTag, IocTyped, CountsTyped
    <2> QED  BY <1>12, <2>4 DEF IncrementTag, CountsTyped, DevTyped, RawTyped
<1> QED  BY <1>1, <1>2, <1>3, <1>4, <1>5, <1>6, <1>7, <1>8, <1>9, <1>10, <1>11, <1>12 DEF Ioc

LEMMA ClientStepTyped ==
    ASSUME Typed, NEW c \in Clients, Client(c) PROVE Typed'
<1> USE DEF Typed, OfClient, Goto, Raises, devVars, iocVars
<1>1. ASSUME ChooseMask(c) PROVE Typed'
    <2>1. CountsTyped' /\ IocTyped'  BY <1>1 DEF ChooseMask, CountsTyped, IocTyped
    <2>2. keep' \in Masks /\ chosen' \in [Clients -> Masks \cup {{}}]
        BY <1>1 DEF ChooseMask, DevTyped, RawTyped
    <2>3. DevTyped'  BY <1>1, <2>2 DEF ChooseMask, DevTyped
    <2>4. since' \in [Clients -> Nat] /\ at' \in [Clients -> Places]
        BY <1>1 DEF ChooseMask, DevTyped, RawTyped, Places
    <2>6. disturbed' \in SUBSET Clients  BY <1>1 DEF ChooseMask, RawTyped
    <2>5. RawTyped'  BY <1>1, <2>2, <2>4, <2>6 DEF ChooseMask, RawTyped
    <2> QED  BY <2>1, <2>3, <2>5
<1>2. ASSUME ReadTag(c) PROVE Typed'
    <2>1. CountsTyped' /\ DevTyped' /\ IocTyped'
        BY <1>2 DEF ReadTag, CountsTyped, DevTyped, IocTyped
    <2>2. NextTag(tag) \in Tags  BY NextTagTyped DEF DevTyped
    <2>3. T' \in [Clients -> Tags] /\ at' \in [Clients -> Places]
        BY <1>2, <2>2 DEF ReadTag, RawTyped, Places
    <2>4. RawTyped'  BY <1>2, <2>3 DEF ReadTag, RawTyped
    <2> QED  BY <2>1, <2>4
<1>3. ASSUME WriteTag(c) PROVE Typed'
    <2>1. CountsTyped' /\ IocTyped'  BY <1>3 DEF WriteTag, CountsTyped, IocTyped
    <2>2. tag' \in Tags  BY <1>3 DEF WriteTag, DevTyped, RawTyped
    <2>3. DevTyped'  BY <1>3, <2>2 DEF WriteTag, DevTyped
    <2>4. at' \in [Clients -> Places]  BY <1>3 DEF WriteTag, RawTyped, Places
    <2>5. RawTyped'  BY <1>3, <2>4 DEF WriteTag, RawTyped
    <2> QED  BY <2>1, <2>3, <2>5
<1>4. ASSUME Arm(c) PROVE Typed'
    <2>1. CountsTyped' /\ IocTyped'  BY <1>4 DEF Arm, CountsTyped, IocTyped
    <2>2. DevTyped'
        <3>1. CASE Flip  BY <3>1, FlipTyped
        <3>2. CASE UNCHANGED devVars  BY <3>2 DEF DevTyped
        <3> QED  BY <1>4, <3>1, <3>2 DEF Arm
    <2>3. at' \in [Clients -> Places]  BY <1>4 DEF Arm, RawTyped, Places
    <2>4. RawTyped'  BY <1>4, <2>3 DEF Arm, RawTyped
    <2> QED  BY <2>1, <2>2, <2>4
<1>5. ASSUME Poll(c) PROVE Typed'
    <2>1. CountsTyped' /\ DevTyped' /\ IocTyped'
        BY <1>5 DEF Poll, CountsTyped, DevTyped, IocTyped
    <2>2. at' \in [Clients -> Places]  BY <1>5 DEF Poll, RawTyped, Places
    <2>3. RawTyped'  BY <1>5, <2>2 DEF Poll, RawTyped
    <2> QED  BY <2>1, <2>3
<1>6. ASSUME ReadSlowData(c) PROVE Typed'
    <2>1. CountsTyped' /\ DevTyped' /\ IocTyped'
        BY <1>6 DEF ReadSlowData, CountsTyped, DevTyped, IocTyped
    <2>2. gotSlow' \in [Clients -> SlowData] /\ at' \in [Clients -> Places]
        BY <1>6 DEF ReadSlowData, DevTyped, RawTyped, Places
    <2>3. RawTyped'  BY <1>6, <2>2 DEF ReadSlowData, RawTyped
    <2> QED  BY <2>1, <2>3
<1>7. ASSUME Compare(c) PROVE Typed'
    <2>1. CountsTyped' /\ DevTyped' /\ IocTyped'
        BY <1>7 DEF Compare, CountsTyped, DevTyped, IocTyped
    <2>2. at' \in [Clients -> Places]  BY <1>7 DEF Compare, RawTyped, Places
    <2>3. RawTyped'  BY <1>7, <2>2 DEF Compare, RawTyped
    <2> QED  BY <2>1, <2>3
<1>8. ASSUME ReadKeep(c) PROVE Typed'
    <2>1. CountsTyped' /\ DevTyped' /\ IocTyped'
        BY <1>8 DEF ReadKeep, CountsTyped, DevTyped, IocTyped
    <2>2. gotKeep' \in [Clients -> Masks \cup {{}}] /\ at' \in [Clients -> Places]
        BY <1>8 DEF ReadKeep, DevTyped, RawTyped, Places
    <2>3. RawTyped'  BY <1>8, <2>2 DEF ReadKeep, RawTyped
    <2> QED  BY <2>1, <2>3
<1>9. ASSUME ReadData(c) PROVE Typed'
    <2>1. CountsTyped' /\ DevTyped' /\ IocTyped'
        BY <1>9 DEF ReadData, CountsTyped, DevTyped, IocTyped
    <2> DEFINE m == gotKeep[c]
               count == CountBits(m, NChannels)
               whole == Size - (Size % count)
               s(ch) == IF ch \in Selected(m)
                        THEN Slice(words, whole, SplitBits(m, NChannels)[ch], count, 0, Size)
                        ELSE <<>>
    <2>2. ASSUME NEW ch \in Channels PROVE s(ch) \in Seq(Words)
        <3>1. CASE ch \in Selected(m)
            <4>1. m \in Masks  BY <3>1 DEF RawTyped, Selected
            <4> HIDE DEF m
            <4>2. m \in SUBSET Channels /\ count \in Nat \ {0}  BY <4>1, SomeSelected
            <4>3. SplitBits(m, NChannels)[ch] \in Nat
                <5>1. SplitBits(m, NChannels)[ch] \in 0 .. CountBits(m, NChannels) - 1
                    BY <3>1, <4>2, SelectedCounted, Zenon
                <5> QED  BY <5>1
            <4> HIDE DEF count
            <4>4. Size \in Nat  BY AcquisitionAssumption
            <4>5. whole \in 0 .. Size
                <5>1. Size % count \in 0 .. count - 1 /\ Size \div count \in Nat
                      /\ Size - (Size % count) = (Size \div count) * count
                    BY <4>2, <4>4, Quotient
                <5>2. (Size \div count) * count \in Nat  BY <4>2, <5>1
                <5> QED  BY <4>2, <4>4, <5>1, <5>2
            <4>6. words \in [0 .. Size - 1 -> Words]  BY DEF DevTyped, Memory
            <4> HIDE DEF whole
            <4> QED  BY <3>1, <4>2, <4>3, <4>4, <4>5, <4>6, SliceType
        <3>2. CASE ch \notin Selected(m)  BY <3>2, EmptySeq
        <3> QED  BY <3>1, <3>2
    <2>3. got' = [got EXCEPT ![c] = [ch \in Channels |-> s(ch)]]  BY <1>9 DEF ReadData
    <2> HIDE DEF s
    <2>4. got' \in [Clients -> [Channels -> Seq(Words)]]  BY <2>2, <2>3 DEF RawTyped
    <2>5. at' \in [Clients -> Places]  BY <1>9 DEF ReadData, RawTyped, Places
    <2>6. RawTyped'  BY <1>9, <2>4, <2>5 DEF ReadData, RawTyped
    <2> QED  BY <2>1, <2>6
<1>10. ASSUME Return(c) PROVE Typed'
    <2>1. CountsTyped' /\ DevTyped' /\ IocTyped'
        BY <1>10 DEF Return, CountsTyped, DevTyped, IocTyped
    <2>2. at' \in [Clients -> Places]  BY <1>10 DEF Return, RawTyped, Places
    <2>3. RawTyped'  BY <1>10, <2>2 DEF Return, RawTyped
    <2> QED  BY <2>1, <2>3
<1> QED  BY <1>1, <1>2, <1>3, <1>4, <1>5, <1>6, <1>7, <1>8, <1>9, <1>10 DEF Client

LEMMA StutterTyped ==
    ASSUME Typed, UNCHANGED vars PROVE Typed'
BY DEF Typed, CountsTyped, DevTyped, IocTyped, RawTyped, vars, devVars, iocVars, rawVars

LEMMA NextTyped ==
    ASSUME Typed, [Next]_vars PROVE Typed'
BY FillTyped, IocStepTyped, ClientStepTyped, StutterTyped DEF Next

LEMMA TypedHolds == Spec => []Typed
<1>1. Init => Typed  BY InitTyped
<1>2. Typed /\ [Next]_vars => Typed'  BY NextTyped
<1> QED  BY <1>1, <1>2, PTL DEF Spec

\* Every variable keeps its type: the tags stay within their eight bits, a client's
\* mask among the masks, and what WF records and clients copy consists of words of
\* the register, whatever size the record was left with.
THEOREM TypeCorrect == Spec => []TypeOK
<1>1. Typed => TypeOK  BY TypedIsTypeOK
<1> QED  BY <1>1, TypedHolds, PTL

----------------------------------------------------------------------------
\* A tag counts, until they come round: Age is the number of increments after the tag
\* the device began with.
Age(t) == IF t = TagMod - 1 THEN 0 ELSE t + 1

Tagged == {"writeTag", "arm", "poll", "readSlow", "compare", "readKeep", "readData", "done"}
Matched == {"readKeep", "readData", "done"}

\* The device has one kind of user.
OneUser ==
    /\ user = "ioc" => reused = {} /\ \A c \in Clients : at[c] = "idle"
    /\ user = "raw" => sending = <<>> /\ wire = <<>> /\ chain = "off" /\ changed = {} /\ ~inUse

\* Tags only grow, unless one was set back.
TagsGrow ==
    user = "raw" =>
        /\ ~setBack /\ tags + 1 < TagMod =>
              Age(tag) <= tags /\ Age(bank.tag) <= Age(tag) /\ Age(slow.old) <= Age(tag)
        /\ reused # {} => setBack \/ tags + 1 >= TagMod

BanksInOrder ==
    /\ slow.acq < bank.number
    /\ \A c \in Clients : since[c] <= bank.number

\* What was begun before a client's settings does not have the tag the client chose.
Before(c) ==
    /\ at[c] \in Tagged /\ c \notin reused =>
          /\ bank.number <= since[c] => bank.tag # T[c]
          /\ slow.acq <= since[c] => slow.old # T[c]
    /\ at[c] \in Matched \cup {"compare"} => gotSlow[c].acq <= slow.acq
    /\ at[c] = "compare" /\ c \notin reused /\ gotSlow[c].acq <= since[c] => gotSlow[c].old # T[c]
    /\ at[c] \in Matched /\ c \notin reused => gotSlow[c].acq > since[c]

\* What a client has got.
Own(c) ==
    \A ch \in Selected(chosen[c]) :
        /\ Len(got[c][ch]) = Size \div CountBits(gotKeep[c], NChannels)
        /\ \A k \in 1 .. Len(got[c][ch]) :
               got[c][ch][k].channel = ch /\ got[c][ch][k].acq > since[c]

\* The mask is its own from when it is written until it has read the words.
Kept(c) ==
    c \notin disturbed =>
        /\ at[c] \notin {"idle", "done"} =>
              /\ keep = chosen[c]
              /\ bank.number > since[c] => bank.keep = keep
              /\ slow.acq > since[c] =>
                    \A i \in 0 .. Size - 1 : words[i].channel = ChannelOf(keep, i)
              /\ at[c] = "readData" => gotKeep[c] = keep
        /\ at[c] = "done" /\ c \notin reused => Own(c)

WordsOfBank == \A i \in 0 .. Size - 1 : words[i].acq = slow.acq

Ordered == OneUser /\ TagsGrow /\ BanksInOrder /\ \A c \in Clients : Before(c)

OwnInv == Typed /\ Ordered /\ WordsOfBank /\ \A c \in Clients : Kept(c)

LEMMA AgeType ==
    \A t \in Tags : Age(t) \in 0 .. TagMod - 1
BY AcquisitionAssumption DEF Age, Tags

\* While fewer than TagMod tags have been written, the next tag is one older.
LEMMA AgeNext ==
    ASSUME NEW t \in Tags, Age(t) + 1 < TagMod
    PROVE  NextTag(t) \in Tags /\ Age(NextTag(t)) = Age(t) + 1
<1>1. TagMod \in Nat \ {0} /\ t \in 0 .. TagMod - 1  BY AcquisitionAssumption DEF Tags
<1>2. CASE t = TagMod - 1
    <2>1. (1 * TagMod + 0) % TagMod = 0  BY <1>1, Divided
    <2>2. 1 * TagMod + 0 = t + 1  BY <1>1, <1>2
    <2>3. NextTag(t) = 0  BY <2>1, <2>2 DEF NextTag
    <2> QED  BY <1>1, <1>2, <2>3 DEF Age, Tags
<1>3. CASE t # TagMod - 1
    <2>1. t + 1 \in 0 .. TagMod - 1  BY <1>1, <1>3
    <2>2. (0 * TagMod + (t + 1)) % TagMod = t + 1  BY <1>1, <2>1, Divided
    <2>3. 0 * TagMod + (t + 1) = t + 1  BY <1>1
    <2>4. NextTag(t) = t + 1  BY <2>2, <2>3 DEF NextTag
    <2> QED  BY <1>1, <1>3, <2>1, <2>4 DEF Age, Tags
<1> QED  BY <1>2, <1>3

\* The records do nothing while clients use the device.
LEMMA IocUser ==
    ASSUME Typed, OneUser, Ioc
    PROVE  user = "ioc" /\ UNCHANGED <<user, bank, words, slow, rawVars>>
<1>1. user \in {"ioc", "raw"}  BY DEF Typed, CountsTyped
<1> USE DEF devVars
<1>2. CASE Send  BY <1>1, <1>2 DEF Send, OneUser
<1>3. CASE WrittenKeep  BY <1>1, <1>3 DEF WrittenKeep, Written, OneUser
<1>4. CASE WrittenTag  BY <1>1, <1>4 DEF WrittenTag, Written, OneUser
<1>5. CASE WrittenFlip  BY <1>1, <1>5 DEF WrittenFlip, Written, Flip, OneUser
<1>6. CASE ReadReady  BY <1>1, <1>6 DEF ReadReady, Read, OneUser
<1>7. CASE ReadCircle  BY <1>1, <1>7 DEF ReadCircle, Read, OneUser
<1>8. CASE ReadSlow  BY <1>1, <1>8 DEF ReadSlow, Read, OneUser
<1>9. CASE Copy  BY <1>1, <1>9 DEF Copy, OneUser
<1>10. CASE Command  BY <1>10 DEF Command
<1>11. ASSUME NEW m \in Masks, PutMask(m)
       PROVE  user = "ioc" /\ UNCHANGED <<user, bank, words, slow, rawVars>>
    BY <1>11 DEF PutMask
<1>12. ASSUME NEW ch \in Channels, Configure(ch)
       PROVE  user = "ioc" /\ UNCHANGED <<user, bank, words, slow, rawVars>>
    BY <1>1, <1>12 DEF Configure, OneUser
<1>13. CASE IncrementTag  BY <1>13 DEF IncrementTag
<1> QED  BY <1>2, <1>3, <1>4, <1>5, <1>6, <1>7, <1>8, <1>9, <1>10, <1>11, <1>12, <1>13 DEF Ioc

LEMMA InitOrdered ==
    ASSUME Init PROVE Ordered
<1>1. TagMod \in Nat \ {0}  BY AcquisitionAssumption
<1>2. OneUser  BY DEF Init, OneUser
<1>3. TagsGrow
    <2> SUFFICES ASSUME user = "raw" PROVE TagsGrow  BY DEF TagsGrow
    <2>1. tag = TagMod - 1 /\ bank.tag = tag /\ slow.old = tag  BY DEF Init
    <2>2. Age(tag) = 0  BY <2>1 DEF Age
    <2> QED  BY <1>1, <2>1, <2>2 DEF Init, TagsGrow
<1>4. BanksInOrder  BY DEF Init, BanksInOrder
<1>5. \A c \in Clients : Before(c)  BY DEF Init, Before, Tagged, Matched
<1> QED  BY <1>2, <1>3, <1>4, <1>5 DEF Ordered

LEMMA FillOrdered ==
    ASSUME Typed, Ordered, Fill PROVE Ordered'
<1>1. /\ bank' = [number |-> bank.number + 1, keep |-> keep, tag |-> tag]
      /\ slow' = [old |-> bank.tag, new |-> tag, acq |-> bank.number]
      /\ UNCHANGED <<user, tags, tag, sending, wire, chain, changed, inUse, at, T, gotSlow, since,
                     reused, setBack>>
    BY DEF Fill, iocVars, rawVars
<1>2. bank.number \in Nat /\ slow.acq \in Nat /\ since \in [Clients -> Nat]
    BY DEF Typed, DevTyped, RawTyped, SlowData
<1>3. OneUser /\ TagsGrow /\ BanksInOrder /\ \A c \in Clients : Before(c)  BY DEF Ordered
<1>4. Age(tag) \in Nat  BY AgeType DEF Typed, DevTyped
<1>5. OneUser'  BY <1>1, <1>3 DEF OneUser
<1>6. TagsGrow'  BY <1>1, <1>3, <1>4 DEF TagsGrow, Age
<1>7. BanksInOrder'  BY <1>1, <1>2, <1>3 DEF BanksInOrder
<1>8. ASSUME NEW c \in Clients PROVE Before(c)'
    <2>1. since[c] \in Nat /\ since[c] <= bank.number /\ slow.acq < bank.number
        BY <1>2, <1>3 DEF BanksInOrder
    <2>2. ~ (bank'.number <= since'[c])  BY <1>1, <1>2, <2>1
    <2>3. Before(c)  BY <1>3
    <2>4. gotSlow[c].acq \in Nat  BY DEF Typed, RawTyped, SlowData
    <2>5. at[c] \in Tagged /\ c \notin reused =>
            (slow'.acq <= since'[c] => slow'.old # T[c])
        BY <1>1, <2>3 DEF Before
    <2>6. at[c] \in Matched \cup {"compare"} => gotSlow[c].acq <= slow'.acq
        BY <1>1, <1>2, <2>1, <2>3, <2>4 DEF Before
    <2> QED  BY <1>1, <2>2, <2>3, <2>5, <2>6 DEF Before
<1> QED  BY <1>5, <1>6, <1>7, <1>8 DEF Ordered

LEMMA IocOrdered ==
    ASSUME Typed, Ordered, Ioc PROVE Ordered'
<1>1. OneUser /\ BanksInOrder  BY DEF Ordered
<1>2. user = "ioc" /\ UNCHANGED <<user, bank, slow, at, T, gotSlow, since, reused>>
    BY <1>1, IocUser DEF rawVars
<1>3. \A c \in Clients : at[c] = "idle"  BY <1>1, <1>2 DEF OneUser
<1>4. OneUser' /\ TagsGrow'
    <2>1. user' = "ioc" /\ reused' = {} /\ at' = at  BY <1>1, <1>2 DEF OneUser
    <2> QED  BY <1>3, <2>1 DEF OneUser, TagsGrow
<1>5. BanksInOrder'  BY <1>1, <1>2 DEF BanksInOrder
<1>6. \A c \in Clients : Before(c)'  BY <1>2, <1>3 DEF Before, Tagged, Matched
<1> QED  BY <1>4, <1>5, <1>6 DEF Ordered

\* What the clients that do not move keep, and what no client changes.
LEMMA OthersStay ==
    ASSUME Typed, NEW c \in Clients, Client(c)
    PROVE  /\ user = "raw" /\ UNCHANGED <<user, bank, slow, words, iocVars>>
           /\ at' \in [Clients -> Places]
           /\ \A d \in Clients \ {c} :
                 /\ at'[d] = at[d] /\ T'[d] = T[d] /\ gotSlow'[d] = gotSlow[d]
                 /\ since'[d] = since[d] /\ chosen'[d] = chosen[d] /\ gotKeep'[d] = gotKeep[d]
                 /\ got'[d] = got[d] /\ (d \in reused' <=> d \in reused)
                 /\ d \notin disturbed' =>
                       d \notin disturbed /\ (at[d] \notin {"idle", "done"} => keep' = keep)
<1>1. Typed'  BY ClientStepTyped
<1>2. at' \in [Clients -> Places]  BY <1>1 DEF Typed, RawTyped
<1>3. RawTyped  BY DEF Typed
<1> DEFINE Stay ==
        /\ user = "raw" /\ UNCHANGED <<user, bank, slow, words, iocVars>>
        /\ \A d \in Clients \ {c} :
              /\ at'[d] = at[d] /\ T'[d] = T[d] /\ gotSlow'[d] = gotSlow[d]
              /\ since'[d] = since[d] /\ chosen'[d] = chosen[d] /\ gotKeep'[d] = gotKeep[d]
              /\ got'[d] = got[d] /\ (d \in reused' <=> d \in reused)
              /\ d \notin disturbed' =>
                    d \notin disturbed /\ (at[d] \notin {"idle", "done"} => keep' = keep)
<1> USE DEF OfClient, Goto, Raises, devVars, RawTyped
<1>4. CASE ChooseMask(c)  BY <1>2, <1>3, <1>4 DEF ChooseMask
<1>5. CASE ReadTag(c)  BY <1>2, <1>3, <1>5 DEF ReadTag
<1>6. CASE WriteTag(c)  BY <1>2, <1>3, <1>6 DEF WriteTag
<1>7. CASE Arm(c)  BY <1>2, <1>3, <1>7 DEF Arm, Flip
<1>8. CASE Poll(c)  BY <1>2, <1>3, <1>8 DEF Poll
<1>9. CASE ReadSlowData(c)  BY <1>2, <1>3, <1>9 DEF ReadSlowData
<1>10. CASE Compare(c)  BY <1>2, <1>3, <1>10 DEF Compare
<1>11. CASE ReadKeep(c)  BY <1>2, <1>3, <1>11 DEF ReadKeep
<1>12. CASE ReadData(c)
    <2>1. \E g : got' = [got EXCEPT ![c] = g]  BY <1>12 DEF ReadData
    <2> QED  BY <1>2, <1>3, <1>12, <2>1 DEF ReadData
<1>13. CASE Return(c)  BY <1>2, <1>3, <1>13 DEF Return
<1> QED  BY <1>4, <1>5, <1>6, <1>7, <1>8, <1>9, <1>10, <1>11, <1>12, <1>13 DEF Client

\* A client that moves without choosing or writing a tag leaves the tags in order.
LEMMA TagsStay ==
    ASSUME Typed, Ordered, NEW c \in Clients, Client(c), UNCHANGED <<tag, tags, reused, setBack>>
    PROVE  TagsGrow'
<1>1. UNCHANGED <<user, bank, slow>>  BY OthersStay, Zenon
<1>2. TagsGrow  BY DEF Ordered
<1> QED  BY <1>1, <1>2 DEF TagsGrow, Age

LEMMA ClientOrdered ==
    ASSUME Typed, Ordered, NEW c \in Clients, Client(c)
    PROVE  Ordered'
<1>1. /\ user = "raw" /\ UNCHANGED <<user, bank, slow, iocVars>>
      /\ \A d \in Clients \ {c} :
            /\ at'[d] = at[d] /\ T'[d] = T[d] /\ gotSlow'[d] = gotSlow[d]
            /\ since'[d] = since[d] /\ (d \in reused' <=> d \in reused)
    BY OthersStay, Zenon
<1>2. OneUser /\ TagsGrow /\ BanksInOrder /\ \A d \in Clients : Before(d)  BY DEF Ordered
<1>3. /\ at \in [Clients -> Places] /\ T \in [Clients -> Tags] /\ since \in [Clients -> Nat]
      /\ gotSlow \in [Clients -> SlowData] /\ tag \in Tags /\ tags \in Nat
      /\ bank.number \in Nat /\ bank.tag \in Tags
      /\ slow \in SlowData /\ slow.acq \in Nat /\ slow.old \in Tags
      /\ reused \in SUBSET Clients /\ setBack \in BOOLEAN
    BY DEF Typed, CountsTyped, DevTyped, RawTyped, SlowData
<1>4. OneUser'  BY <1>1, <1>2 DEF OneUser, iocVars
<1>5. \A d \in Clients \ {c} : Before(d)'  BY <1>1, <1>2 DEF Before
<1>6. Before(c)  BY <1>2
<1>7. ASSUME UNCHANGED since PROVE BanksInOrder'  BY <1>1, <1>2, <1>7 DEF BanksInOrder
<1>8. ASSUME BanksInOrder', TagsGrow', Before(c)' PROVE Ordered'
    BY <1>4, <1>5, <1>8 DEF Ordered
<1> USE DEF OfClient, Goto, Raises, Places
<1>9. CASE ChooseMask(c)
    <2>1. /\ at'[c] \in {"readTag", "idle"} /\ since'[c] = bank.number
          /\ UNCHANGED <<tag, tags, reused, setBack>>
        BY <1>3, <1>9 DEF ChooseMask
    <2>2. BanksInOrder'  BY <1>1, <1>2, <1>3, <2>1 DEF BanksInOrder
    <2>3. TagsGrow'  BY <2>1, TagsStay
    <2>4. Before(c)'  BY <2>1 DEF Before, Tagged, Matched
    <2> QED  BY <1>8, <2>2, <2>3, <2>4
<1>10. CASE ReadTag(c)
    <2>1. /\ at'[c] \in {"writeTag", "idle"} /\ T'[c] = NextTag(tag)
          /\ reused' = IF NextTag(tag) \in {bank.tag, slow.old} THEN reused \cup {c}
                       ELSE reused \ {c}
          /\ UNCHANGED <<tag, tags, since, setBack>>
        BY <1>3, <1>10 DEF ReadTag, devVars
    <2>2. TagsGrow'
        <3>1. ASSUME ~setBack, tags + 1 < TagMod PROVE reused' \subseteq reused
            <4>1. Age(tag) <= tags /\ Age(bank.tag) <= Age(tag) /\ Age(slow.old) <= Age(tag)
                BY <1>1, <1>2, <3>1 DEF TagsGrow
            <4>2. Age(tag) \in Nat /\ TagMod \in Nat  BY <1>3, AgeType, AcquisitionAssumption
            <4>3. Age(NextTag(tag)) = Age(tag) + 1  BY <1>3, <3>1, <4>1, <4>2, AgeNext
            <4>4. NextTag(tag) # bank.tag /\ NextTag(tag) # slow.old
                BY <4>1, <4>2, <4>3
            <4> QED  BY <2>1, <4>4
        <3>2. ASSUME ~(setBack \/ tags + 1 >= TagMod) PROVE reused' = {}
            <4>1. tags + 1 < TagMod /\ ~setBack  BY <1>3, <3>2, AcquisitionAssumption
            <4>2. reused = {}  BY <1>1, <1>2, <3>2 DEF TagsGrow
            <4> QED  BY <3>1, <4>1, <4>2
        <3> QED  BY <1>1, <1>2, <2>1, <3>2 DEF TagsGrow, Age
    <2>3. Before(c)'
        <3>1. at'[c] \notin Matched \cup {"compare"}  BY <2>1 DEF Matched
        <3>2. c \notin reused' => bank.tag # T'[c] /\ slow.old # T'[c]  BY <2>1
        <3> QED  BY <1>1, <3>1, <3>2 DEF Before
    <2> QED  BY <1>7, <1>8, <2>1, <2>2, <2>3
<1>11. CASE WriteTag(c)
    <2>1. /\ at[c] \in Tagged /\ at'[c] \in {"arm", "idle"} /\ tags' = tags + 1
          /\ setBack' = (setBack \/ tag' \notin {tag, NextTag(tag)})
          /\ UNCHANGED <<since, T, gotSlow, reused>>
        BY <1>3, <1>11 DEF WriteTag, Tagged
    <2>2. TagMod \in Nat  BY AcquisitionAssumption
    <2>3. TagsGrow'
        <3>1. ASSUME ~setBack', tags' + 1 < TagMod
              PROVE  Age(tag') <= tags' /\ Age(bank.tag) <= Age(tag') /\ Age(slow.old) <= Age(tag')
            <4>1. ~setBack /\ tags + 1 < TagMod /\ tag' \in {tag, NextTag(tag)}
                <5>1. ~setBack /\ tag' \in {tag, NextTag(tag)}  BY <2>1, <3>1, Zenon
                <5>2. tags + 1 < TagMod  BY <1>3, <2>1, <2>2, <3>1
                <5> QED  BY <5>1, <5>2
            <4>2. Age(tag) <= tags /\ Age(bank.tag) <= Age(tag) /\ Age(slow.old) <= Age(tag)
                BY <1>1, <1>2, <4>1 DEF TagsGrow
            <4>3. Age(tag) \in Nat /\ Age(bank.tag) \in Nat /\ Age(slow.old) \in Nat
                BY <1>3, AgeType
            <4>4. Age(NextTag(tag)) = Age(tag) + 1  BY <1>3, <2>2, <4>1, <4>2, <4>3, AgeNext
            <4>5. Age(tag') \in {Age(tag), Age(tag) + 1}  BY <4>1, <4>4
            <4> QED  BY <1>3, <2>1, <4>2, <4>3, <4>5
        <3>2. reused' # {} => setBack' \/ tags' + 1 >= TagMod
            BY <1>1, <1>2, <1>3, <2>1, <2>2 DEF TagsGrow
        <3> QED  BY <1>1, <3>1, <3>2 DEF TagsGrow, Age
    <2>4. Before(c)'
        <3>1. at'[c] \notin Matched \cup {"compare"}  BY <2>1 DEF Matched
        <3> QED  BY <1>1, <1>6, <2>1, <3>1 DEF Before
    <2> QED  BY <1>7, <1>8, <2>1, <2>3, <2>4
<1>12. CASE Arm(c) \/ Poll(c)
    <2>1. /\ at[c] \in Tagged /\ at'[c] \in {"poll", "readSlow", "idle"}
          /\ UNCHANGED <<tag, tags, since, T, gotSlow, reused, setBack>>
        BY <1>3, <1>12 DEF Arm, Poll, Flip, devVars, Tagged
    <2>2. TagsGrow'  BY <2>1, TagsStay
    <2>3. Before(c)'  BY <1>1, <1>6, <2>1 DEF Before, Matched
    <2> QED  BY <1>7, <1>8, <2>1, <2>2, <2>3
<1>13. CASE ReadSlowData(c)
    <2>1. /\ at[c] = "readSlow" /\ at'[c] \in {"compare", "idle"} /\ gotSlow'[c] = slow
          /\ UNCHANGED <<tag, tags, since, T, reused, setBack>>
        BY <1>3, <1>13 DEF ReadSlowData, devVars
    <2>2. TagsGrow'  BY <2>1, TagsStay
    <2>3. at[c] \in Tagged /\ at'[c] \notin Matched  BY <2>1 DEF Tagged, Matched
    <2>4. Before(c)'
        <3>1. at'[c] = "compare" => gotSlow'[c].acq <= slow.acq  BY <1>3, <2>1
        <3> QED  BY <1>1, <1>6, <2>1, <2>3, <3>1 DEF Before
    <2> QED  BY <1>7, <1>8, <2>1, <2>2, <2>4
<1>14. CASE Compare(c)
    <2>1. /\ at[c] = "compare" /\ at'[c] \in {"readKeep", "arm", "idle"}
          /\ at'[c] = "readKeep" => TagMatch(c)
          /\ UNCHANGED <<tag, tags, since, T, gotSlow, reused, setBack>>
        BY <1>3, <1>14 DEF Compare, devVars
    <2>2. TagsGrow'  BY <2>1, TagsStay
    <2>3. at'[c] = "readKeep" /\ c \notin reused => gotSlow[c].acq > since[c]
        <3>1. gotSlow[c].acq \in Nat /\ since[c] \in Nat
            BY <1>3 DEF SlowData
        <3>2. c \notin reused /\ gotSlow[c].acq <= since[c] => gotSlow[c].old # T[c]
            BY <1>6, <2>1 DEF Before
        <3> QED  BY <2>1, <3>1, <3>2 DEF TagMatch
    <2>4. at[c] \in Tagged  BY <2>1 DEF Tagged
    <2> QED  BY <1>1, <1>6, <1>7, <1>8, <2>1, <2>2, <2>3, <2>4 DEF Before, Matched
<1>15. CASE ReadKeep(c) \/ ReadData(c) \/ Return(c)
    <2>1. /\ at[c] \in Matched /\ at'[c] \in {"readData", "done", "idle"}
          /\ UNCHANGED <<tag, tags, since, T, gotSlow, reused, setBack>>
        BY <1>3, <1>15 DEF ReadKeep, ReadData, Return, devVars, Matched
    <2>2. TagsGrow'  BY <2>1, TagsStay
    <2>3. at[c] \in Tagged  BY <2>1 DEF Tagged, Matched
    <2>4. Before(c)'  BY <1>1, <1>6, <2>1, <2>3 DEF Before, Matched
    <2> QED  BY <1>7, <1>8, <2>1, <2>2, <2>4
<1> QED  BY <1>9, <1>10, <1>11, <1>12, <1>13, <1>14, <1>15 DEF Client

\* The slice get_channels takes for a channel of the mask that the words were sampled
\* with: as many words as the other channels have, and all of that channel.
LEMMA ChannelSlice ==
    ASSUME NEW m \in Masks, NEW ch \in Selected(m), NEW mem \in Memory,
           \A i \in 0 .. Size - 1 : mem[i].channel = ChannelOf(m, i)
    PROVE  LET N == CountBits(m, NChannels)
               got1 == Slice(mem, Size - (Size % N), SplitBits(m, NChannels)[ch], N, 0, Size)
           IN  /\ Len(got1) = Size \div N
               /\ \A k \in 1 .. Len(got1) :
                      \E i \in 0 .. Size - 1 : got1[k] = mem[i] /\ mem[i].channel = ch
<1> DEFINE N == CountBits(m, NChannels)
           p == SplitBits(m, NChannels)[ch]
           q == Size \div N
           whole == Size - (Size % N)
           n == SliceLen(whole, p, N, 0, Size)
           got1 == Slice(mem, whole, p, N, 0, Size)
<1>1. m \in SUBSET Channels /\ N \in Nat \ {0} /\ Size \in Nat \ {0}
    BY SomeSelected, AcquisitionAssumption
<1>2. p \in 0 .. N - 1  BY <1>1, SelectedCounted, Zenon
<1>3. ASSUME NEW i \in 0 .. Size - 1, i % N = p PROVE mem[i].channel = ch
    <2>1. ChannelOf(m, i) = ch  BY <1>1, <1>3, ChannelOfWord
    <2> QED  BY <2>1
<1> HIDE DEF N, p
<1>4. q \in Nat /\ Size % N \in 0 .. N - 1 /\ whole = q * N  BY <1>1, Quotient
<1>5. q * N \in Nat /\ q <= q * N /\ whole \in 0 .. Size
    <2>1. q * N \in Nat  BY <1>1, <1>4
    <2>2. q * 1 <= q * N  BY <1>1, <1>4
    <2> HIDE DEF q
    <2> QED  BY <1>1, <1>4, <2>1, <2>2
<1> HIDE DEF q, whole
<1>6. n = q
    <2>1. SliceEnd(whole, 0) = whole  BY DEF SliceEnd
    <2>2. CASE q = 0
        <3>1. whole = 0  BY <1>1, <1>4, <2>2
        <3> QED  BY <1>1, <1>2, <2>1, <2>2, <3>1 DEF SliceLen
    <2>3. CASE q # 0
        <3>1. 1 * N <= q * N  BY <1>1, <1>4, <2>3
        <3>2. p < whole  BY <1>1, <1>2, <1>4, <1>5, <3>1
        <3>3. N - 1 - p \in 0 .. N - 1  BY <1>1, <1>2
        <3>4. whole - p + N - 1 = q * N + (N - 1 - p)  BY <1>1, <1>2, <1>4, <1>5
        <3>5. (whole - p + N - 1) \div N = q  BY <1>1, <1>4, <3>3, <3>4, Divided
        <3>6. q <= Size  BY <1>1, <1>4, <1>5
        <3>7. n = IF q < Size THEN q ELSE Size
            BY <1>2, <1>5, <2>1, <3>2, <3>5 DEF SliceLen
        <3> QED  BY <1>1, <1>4, <3>6, <3>7
    <2> QED  BY <2>2, <2>3
<1>7. got1 = [k \in 1 .. n |-> mem[p + (k - 1) * N]]  BY DEF Slice
<1>8. Len(got1) = q  BY <1>4, <1>6, <1>7
<1>9. ASSUME NEW k \in 1 .. q
      PROVE  \E i \in 0 .. Size - 1 : got1[k] = mem[i] /\ mem[i].channel = ch
    <2> DEFINE i == p + (k - 1) * N
    <2>1. k - 1 \in Nat  BY <1>4
    <2>2. (k - 1) * N \in Nat /\ i = (k - 1) * N + p  BY <1>1, <1>2, <2>1
    <2>3. k * N <= q * N /\ (k - 1) * N = k * N - N /\ k * N \in Nat  BY <1>1, <1>4
    <2>4. i \in 0 .. Size - 1  BY <1>1, <1>2, <1>4, <1>5, <2>2, <2>3
    <2>5. i % N = p  BY <1>1, <1>2, <2>1, <2>2, Divided
    <2>6. got1[k] = mem[i]  BY <1>6, <1>7
    <2> HIDE DEF i
    <2> QED  BY <1>3, <2>4, <2>5, <2>6
<1>10. Len(got1) = q /\ \A k \in 1 .. Len(got1) :
          \E i \in 0 .. Size - 1 : got1[k] = mem[i] /\ mem[i].channel = ch
    BY <1>8, <1>9
<1> QED  BY <1>10 DEF got1, whole, N, p, q

LEMMA InitKept ==
    ASSUME Init PROVE WordsOfBank /\ \A c \in Clients : Kept(c)
BY DEF Init, WordsOfBank, Kept

LEMMA FillKept ==
    ASSUME Typed, WordsOfBank, NEW c \in Clients, Kept(c), Fill
    PROVE  WordsOfBank' /\ Kept(c)'
<1> DEFINE m(i) == IF i < Size \div 2 THEN bank.keep ELSE keep
<1>1. /\ words' = [i \in 0 .. Size - 1 |-> [channel |-> ChannelOf(m(i), i), acq |-> bank.number]]
      /\ bank' = [number |-> bank.number + 1, keep |-> keep, tag |-> tag]
      /\ slow' = [old |-> bank.tag, new |-> tag, acq |-> bank.number]
      /\ UNCHANGED <<keep, at, chosen, gotKeep, got, since, disturbed, reused>>
    BY DEF Fill, rawVars
<1>2. WordsOfBank'  BY <1>1 DEF WordsOfBank
<1>3. Kept(c)'
    <2> DEFINE Working == c \notin disturbed /\ at[c] \notin {"idle", "done"}
    <2>1. Working =>
            /\ keep = chosen[c] /\ (bank.number > since[c] => bank.keep = keep)
            /\ at[c] = "readData" => gotKeep[c] = keep
        BY DEF Kept
    <2>2. Working /\ slow'.acq > since'[c] =>
            \A i \in 0 .. Size - 1 : words'[i].channel = ChannelOf(keep, i)
        <3> SUFFICES ASSUME Working, bank.number > since[c], NEW i \in 0 .. Size - 1
                     PROVE  words'[i].channel = ChannelOf(keep, i)
            BY <1>1
        <3>1. m(i) = keep  BY <2>1
        <3> HIDE DEF m, Working
        <3> QED  BY <1>1, <3>1
    <2>3. bank'.keep = keep  BY <1>1
    <2> HIDE DEF m
    <2>4. Own(c) => Own(c)'  BY <1>1 DEF Own
    <2>5. c \notin disturbed /\ at[c] = "done" /\ c \notin reused => Own(c)  BY DEF Kept
    <2> QED  BY <1>1, <2>1, <2>2, <2>3, <2>4, <2>5 DEF Kept
<1> QED  BY <1>2, <1>3

LEMMA IocKept ==
    ASSUME Typed, Ordered, WordsOfBank, Ioc
    PROVE  WordsOfBank' /\ \A c \in Clients : Kept(c)'
<1>1. user = "ioc" /\ UNCHANGED <<user, bank, words, slow, rawVars>>
    BY IocUser DEF Ordered
<1>2. \A c \in Clients : at'[c] = "idle"  BY <1>1 DEF Ordered, OneUser, rawVars
<1> QED  BY <1>1, <1>2 DEF WordsOfBank, Kept

LEMMA ClientKept ==
    ASSUME OwnInv, NEW c \in Clients, Client(c), NEW s \in Clients
    PROVE  WordsOfBank' /\ Kept(s)'
<1>1. /\ UNCHANGED <<bank, slow, words>>
      /\ at' \in [Clients -> Places]
      /\ \A d \in Clients \ {c} :
            /\ at'[d] = at[d] /\ since'[d] = since[d] /\ chosen'[d] = chosen[d]
            /\ gotKeep'[d] = gotKeep[d] /\ got'[d] = got[d]
            /\ d \in reused' <=> d \in reused
            /\ d \notin disturbed' =>
                  d \notin disturbed /\ (at[d] \notin {"idle", "done"} => keep' = keep)
    BY OthersStay, Zenon DEF OwnInv
<1>2. Typed /\ Ordered /\ WordsOfBank /\ Kept(s)
    BY DEF OwnInv
<1>3. WordsOfBank'  BY <1>1, <1>2 DEF WordsOfBank
<1> USE DEF OfClient, Goto, Raises, devVars, Places
<1>4. at \in [Clients -> Places] /\ chosen \in [Clients -> Masks \cup {{}}]
      /\ since \in [Clients -> Nat] /\ gotKeep \in [Clients -> Masks \cup {{}}]
      /\ keep \in Masks /\ bank.number \in Nat /\ slow.acq \in Nat
      /\ slow.acq < bank.number
    BY <1>2 DEF Typed, DevTyped, RawTyped, SlowData, Ordered, BanksInOrder
<1>5. ~ ChooseMask(c) => keep' = keep /\ disturbed' = disturbed
    BY DEF Client, ReadTag, WriteTag, Arm, Flip, Poll, ReadSlowData, Compare, ReadKeep, ReadData,
           Return
<1>6. CASE c # s
    <2>1. Own(s) => Own(s)'  BY <1>1, <1>6 DEF Own
    <2> QED  BY <1>1, <1>2, <1>3, <1>6, <2>1 DEF Kept
<1>7. CASE c = s
    <2>1. CASE ChooseMask(c)
        <3>1. at'[c] # "idle" => keep' = chosen'[c] /\ at'[c] = "readTag"
            BY <1>4, <1>7, <2>1 DEF ChooseMask
        <3>2. since'[c] = bank.number  BY <1>4, <2>1 DEF ChooseMask
        <3> QED  BY <1>1, <1>3, <1>4, <1>7, <3>1, <3>2 DEF Kept
    <2>2. CASE ~ ChooseMask(c)
        <3> SUFFICES ASSUME c \notin disturbed' PROVE Kept(c)'  BY <1>3, <1>7 DEF Kept
        <3>1. keep' = keep /\ c \notin disturbed  BY <1>5, <2>2
        <3>2. since'[c] = since[c] /\ chosen'[c] = chosen[c] /\ at[c] # "idle"
            BY <1>4, <2>2 DEF Client, ReadTag, WriteTag, Arm, Poll, ReadSlowData, Compare,
                              ReadKeep, ReadData, Return
        <3>3. at[c] # "done" =>
              /\ keep = chosen[c] /\ (bank.number > since[c] => bank.keep = keep)
              /\ slow.acq > since[c] =>
                    \A i \in 0 .. Size - 1 : words[i].channel = ChannelOf(keep, i)
              /\ at[c] = "readData" => gotKeep[c] = keep
            BY <1>2, <1>7, <3>1, <3>2 DEF Kept
        <3>4. CASE ReadKeep(c)
            <4>1. gotKeep'[c] = keep /\ at[c] = "readKeep" /\ at'[c] \in {"readData", "idle"}
                BY <1>4, <3>4 DEF ReadKeep
            <4> QED  BY <1>1, <1>3, <1>7, <3>1, <3>2, <3>3, <4>1 DEF Kept
        <3>5. CASE ReadData(c)
            <4>1. /\ at[c] = "readData" /\ at'[c] \in {"done", "idle"} /\ gotKeep'[c] = gotKeep[c]
                  /\ reused' = reused
                BY <1>4, <3>5 DEF ReadData
            <4> SUFFICES ASSUME c \notin reused PROVE Own(c)'
                BY <1>7, <4>1 DEF Kept
            <4>2. gotKeep[c] = keep /\ chosen[c] = keep  BY <3>3, <4>1
            <4>3. slow.acq > since[c]
                <5>1. gotSlow[c].acq > since[c] /\ gotSlow[c].acq <= slow.acq
                    BY <1>2, <4>1 DEF Ordered, Before, Matched
                <5>2. gotSlow[c].acq \in Nat /\ since[c] \in Nat
                    BY <1>2 DEF Typed, RawTyped, SlowData
                <5> QED  BY <1>4, <5>1, <5>2
            <4>4. Own(c)'
                <5> DEFINE N == CountBits(keep, NChannels)
                           s1(ch) == Slice(words, Size - (Size % N),
                                           SplitBits(keep, NChannels)[ch], N, 0, Size)
                <5>1. ASSUME NEW ch \in Selected(keep)
                      PROVE  /\ Len(s1(ch)) = Size \div N
                             /\ \A k \in 1 .. Len(s1(ch)) :
                                   s1(ch)[k].channel = ch /\ s1(ch)[k].acq > since[c]
                    <6>1. /\ words \in Memory
                          /\ \A i \in 0 .. Size - 1 : words[i].channel = ChannelOf(keep, i)
                        BY <1>2, <3>3, <4>1, <4>3 DEF Typed, DevTyped
                    <6>2. /\ Len(s1(ch)) = Size \div N
                          /\ \A k \in 1 .. Len(s1(ch)) :
                                \E i \in 0 .. Size - 1 :
                                    s1(ch)[k] = words[i] /\ words[i].channel = ch
                        BY <1>4, <6>1, ChannelSlice
                    <6>3. \A i \in 0 .. Size - 1 : words[i].acq > since[c]
                        BY <1>2, <4>3 DEF WordsOfBank
                    <6> HIDE DEF N, s1
                    <6> QED  BY <6>2, <6>3
                <5>2. ASSUME NEW ch \in Selected(keep) PROVE got'[c][ch] = s1(ch)
                    <6>1. ch \in Channels  BY DEF Selected
                    <6>2. got'[c] = [ch1 \in Channels |->
                                      IF ch1 \in Selected(keep) THEN s1(ch1) ELSE <<>>]
                        <7> DEFINE g == [ch1 \in Channels |->
                                      IF ch1 \in Selected(keep) THEN s1(ch1) ELSE <<>>]
                        <7>1. got' = [got EXCEPT ![c] = g]  BY <3>5, <4>2 DEF ReadData
                        <7> HIDE DEF g
                        <7>2. got'[c] = g  BY <1>2, <7>1 DEF Typed, RawTyped
                        <7> QED  BY <7>2 DEF g
                    <6> HIDE DEF s1
                    <6> QED  BY <6>1, <6>2
                <5> HIDE DEF s1
                <5> QED  BY <3>2, <4>1, <4>2, <5>1, <5>2 DEF Own, N
            <4> QED  BY <4>4
        <3>6. CASE ReadTag(c) \/ WriteTag(c) \/ Arm(c) \/ Poll(c) \/ ReadSlowData(c) \/ Compare(c)
                   \/ Return(c)
            <4>1. at'[c] \notin {"readData", "done"} /\ (at[c] = "done" => at'[c] = "idle")
                BY <1>4, <3>6 DEF ReadTag, WriteTag, Arm, Poll, ReadSlowData, Compare, Return
            <4> QED  BY <1>1, <1>3, <1>7, <3>1, <3>2, <3>3, <4>1 DEF Kept
        <3> QED  BY <2>2, <3>4, <3>5, <3>6 DEF Client
    <2> QED  BY <2>1, <2>2
<1> QED  BY <1>6, <1>7

LEMMA OwnInvHolds == Spec => []OwnInv
<1>1. ASSUME Init PROVE OwnInv
    BY <1>1, InitTyped, InitOrdered, InitKept DEF OwnInv
<1>2. ASSUME OwnInv, [Next]_vars PROVE OwnInv'
    <2>1. Typed'  BY <1>2, NextTyped DEF OwnInv
    <2>2. CASE Fill
        <3>1. Ordered'  BY <1>2, <2>2, FillOrdered DEF OwnInv
        <3>2. \A c \in Clients : Kept(c)'  BY <1>2, <2>2, FillKept DEF OwnInv
        <3>3. WordsOfBank'
            BY <2>2 DEF Fill, WordsOfBank
        <3> QED  BY <2>1, <3>1, <3>2, <3>3 DEF OwnInv
    <2>3. CASE Ioc
        BY <1>2, <2>1, <2>3, IocOrdered, IocKept DEF OwnInv
    <2>4. ASSUME NEW c \in Clients, Client(c) PROVE OwnInv'
        <3>1. Ordered'  BY <1>2, <2>4, ClientOrdered DEF OwnInv
        <3>2. \A s \in Clients : Kept(s)'  BY <1>2, <2>4, ClientKept
        <3>3. WordsOfBank'
            <4>1. UNCHANGED <<slow, words>>  BY <1>2, <2>4, OthersStay DEF OwnInv
            <4> QED  BY <1>2, <4>1 DEF OwnInv, WordsOfBank
        <3> QED  BY <2>1, <3>1, <3>2, <3>3 DEF OwnInv
    <2>5. CASE UNCHANGED vars
        <3> USE <1>2, <2>5 DEF OwnInv, vars, devVars, iocVars, rawVars
        <3>1. OneUser' /\ TagsGrow' /\ BanksInOrder'
            BY DEF Ordered, OneUser, TagsGrow, BanksInOrder, Age
        <3>2. \A c \in Clients : Before(c)'  BY DEF Ordered, Before
        <3>3. \A c \in Clients : Kept(c)'  BY DEF Kept, Own
        <3>4. WordsOfBank'  BY DEF WordsOfBank
        <3> QED  BY <2>1, <3>1, <3>2, <3>3, <3>4 DEF Ordered
    <2> QED  BY <1>2, <2>2, <2>3, <2>4, <2>5 DEF Next
<1> QED  BY <1>1, <1>2, PTL DEF Spec

\* Whoever else sets masks and tags meanwhile: a tag that matches is of a bank begun
\* after the client's settings, unless it was in use when the client chose it; and
\* what get_channels returns are that client's channels, all samples of each, from that
\* bank or a later one, unless another client has changed the mask since (raw.py).
THEOREM OwnSamplesHold == Spec => []OwnSamples
<1>1. ASSUME OwnInv PROVE OwnSamples
    <2>1. \A c \in Clients \ reused :
              at[c] \in {"readKeep", "readData", "done"} => gotSlow[c].acq > since[c]
        BY <1>1 DEF OwnInv, Ordered, Before, Matched
    <2>2. \A c \in Clients \ reused : at[c] = "done" /\ c \notin disturbed => Own(c)
        BY <1>1 DEF OwnInv, Kept
    <2> QED  BY <2>1, <2>2 DEF OwnSamples, Own
<1> QED  BY <1>1, OwnInvHolds, PTL

----------------------------------------------------------------------------
\* The registers of what is on its way to the device, in order: sending goes over to
\* the wire from one end to the other.
Flights == 1 .. Len(wire) + Len(sending)

Flight(i) == IF i <= Len(wire) THEN wire[i].reg ELSE sending[i - Len(wire)]

Distinct == \A i, j \in Flights : Flight(i) = Flight(j) => i = j

\* Each register is on its way at most once, and only while it is being written, or
\* the chain of records waits for it.
OneEach ==
    /\ Distinct
    /\ \A i \in Flights :
          /\ Flight(i) \in Written_ => regState[Flight(i)] # "idle"
          /\ Flight(i) \in {"flip", "ready", "circle", "slow"} => chain = Flight(i)
    /\ regState["tag"] # "queued" /\ regState["flip"] # "queued"
    /\ (chain # "flip" => regState["flip"] = "idle")

\* What is written is the mask and the tag of the records, or will be written again.
Current ==
    /\ \A i \in 1 .. Len(wire) :
          /\ wire[i].reg = "keep" /\ regState["keep"] = "writing" => wire[i].value = mask
          /\ wire[i].reg = "tag" => wire[i].value = tagRbv
    /\ regState["keep"] = "idle" => keep = mask

\* The records of a channel that has seen the mask take its slice.
Configured ==
    \A ch \in Channels \ changed :
        /\ config[ch] = SplitBits(mask, NChannels)[ch]
        /\ ch \in Selected(mask) =>
              offset[ch] = SplitBits(mask, NChannels)[ch] /\ step[ch] = CountBits(mask, NChannels)

\* No bank is presented while the chain reads the one before.
Quiet ==
    /\ armed => chain = "ready" /\ ~ready
    /\ chain \in {"slow", "copy"} => memRx = words
    /\ chain = "copy" => slowRx = slow

\* A mask that is to be written is on its way, and it may be ahead of the tag.
Underway == \E i \in Flights : Flight(i) = "keep"

KeepFirst == \E i, j \in Flights : i < j /\ Flight(i) = "keep" /\ Flight(j) = "tag"

OnItsWay == regState["keep"] # "idle" => Underway

\* Tags count the increments, until they come round.
Counted ==
    /\ tags < TagMod =>
          /\ tagRbv = tags
          /\ tag <= tags /\ bank.tag <= tags /\ slow.old <= tags /\ slowRaw.old <= tags
    /\ inUse => tags >= TagMod

\* Nothing changes after the tag was incremented, and what has that tag is of the mask.
SettledFor ==
    /\ asked <= puts
    /\ tags > 0 /\ puts = asked /\ ~overtakes /\ ~inUse =>
          /\ changed \subseteq late /\ regState["keep"] # "queued"
          /\ keep = mask \/ KeepFirst
          /\ tag = tagRbv => keep = mask
          /\ bank.tag = tagRbv => tag = tagRbv /\ bank.keep = mask
          /\ slow.old = tagRbv => \A i \in 0 .. Size - 1 : words[i].channel = ChannelOf(mask, i)
          /\ slowRaw.old = tagRbv =>
                \A ch \in Selected(mask) \ late : Reflects(ch, SliceEnd(Size, size[ch]))

IocInv ==
    user = "ioc" =>
        OneEach /\ OnItsWay /\ Current /\ Configured /\ Quiet /\ Counted /\ SettledFor

ReflectInv == Typed /\ OneUser /\ WordsOfBank /\ IocInv

\* What is sent stays in its place.
LEMMA SendFlights ==
    ASSUME Typed, Send
    PROVE  Flights' = Flights /\ \A i \in Flights : Flight(i)' = Flight(i)
<1>1. wire \in Seq(Messages) /\ sending \in Seq(Registers_) /\ sending # <<>>
    BY DEF Typed, IocTyped, Send
<1>2. PICK e : wire' = Append(wire, e) /\ e.reg = Head(sending)
    <2> DEFINE e0 == [reg |-> Head(sending),
                      value |-> CASE Head(sending) = "keep" -> mask
                                  [] Head(sending) = "tag" -> tagRbv [] OTHER -> {}]
    <2>1. wire' = Append(wire, e0) /\ e0.reg = Head(sending)  BY DEF Send
    <2> QED  BY <2>1
<1>3. sending' = Tail(sending)  BY DEF Send
<1>4. /\ Len(wire) \in Nat /\ Len(sending) \in Nat \ {0}
      /\ Len(wire') = Len(wire) + 1 /\ Len(sending') = Len(sending) - 1
      /\ \A i \in 1 .. Len(wire) : wire'[i] = wire[i]
      /\ wire'[Len(wire) + 1] = e /\ Head(sending) = sending[1]
      /\ \A i \in 1 .. Len(sending) - 1 : sending'[i] = sending[i + 1]
    BY <1>1, <1>2, <1>3
<1>5. Flights' = Flights  BY <1>4 DEF Flights
<1>6. ASSUME NEW i \in Flights PROVE Flight(i)' = Flight(i)
    <2>1. CASE i <= Len(wire)  BY <1>4, <2>1 DEF Flight, Flights
    <2>2. CASE i = Len(wire) + 1
        <3>1. Flight(i)' = e.reg /\ Flight(i) = sending[1]  BY <1>4, <2>2 DEF Flight
        <3> QED  BY <1>2, <1>4, <3>1
    <2>3. CASE i > Len(wire) + 1
        <3>1. i - Len(wire') \in 1 .. Len(sending) - 1 /\ i - Len(wire') + 1 = i - Len(wire)
            BY <1>4, <2>3 DEF Flights
        <3> QED  BY <1>4, <2>3, <3>1 DEF Flight, Flights
    <2> QED  BY <1>4, <2>1, <2>2, <2>3 DEF Flights
<1> QED  BY <1>5, <1>6

\* An answer takes the first flight away (k = 1), and a register that is not on its
\* way may be added at the end (a = 1).
LEMMA ShiftedFlights ==
    ASSUME Distinct, NEW k \in 0 .. 1, NEW a \in 0 .. 1, NEW r,
           Len(wire) \in Nat, Len(sending) \in Nat, k <= Len(wire),
           Len(wire') = Len(wire) - k,
           \A i \in 1 .. Len(wire) - k : wire'[i] = wire[i + k],
           Len(sending') = Len(sending) + a,
           \A i \in 1 .. Len(sending) : sending'[i] = sending[i],
           a = 1 => sending'[Len(sending) + 1] = r,
           a = 1 => \A i \in Flights : Flight(i) = r => k = 1 /\ i = 1
    PROVE  /\ Distinct'
           /\ \A i \in Flights' :
                 \/ a = 1 /\ Flight(i)' = r
                 \/ \E j \in Flights : Flight(i)' = Flight(j) /\ (k = 1 => Flight(j) # Flight(1))
<1> DEFINE n == Len(wire) + Len(sending)
<1>1. Flights = 1 .. n /\ Flights' = 1 .. n - k + a  BY DEF Flights
<1>2. ASSUME NEW i \in 1 .. n - k PROVE Flight(i)' = Flight(i + k)
    <2>1. CASE i <= Len(wire) - k  BY <2>1 DEF Flight
    <2>2. CASE i > Len(wire) - k
        <3>1. Flight(i)' = sending'[i - (Len(wire) - k)]  BY <2>2 DEF Flight
        <3>2. Flight(i + k) = sending[i + k - Len(wire)]  BY <2>2 DEF Flight
        <3>3. i - (Len(wire) - k) = i + k - Len(wire) /\ i + k - Len(wire) \in 1 .. Len(sending)
            BY <2>2
        <3> QED  BY <3>1, <3>2, <3>3
    <2> QED  BY <2>1, <2>2
<1>3. ASSUME a = 1, NEW i \in Nat, i = n - k + 1 PROVE Flight(i)' = r
    <2>1. i - Len(wire') = Len(sending) + 1 /\ ~ (i <= Len(wire'))  BY <1>3
    <2>2. Flight(i)' = sending'[i - Len(wire')]  BY <2>1 DEF Flight
    <2> QED  BY <1>3, <2>1, <2>2
<1>4. n \in Nat /\ k <= n  OBVIOUS
<1>5. ASSUME NEW i \in Flights'
      PROVE  \/ i \in 1 .. n - k /\ Flight(i)' = Flight(i + k) /\ i + k \in Flights
                /\ (k = 1 => i + k # 1)
             \/ a = 1 /\ i = n - k + 1 /\ Flight(i)' = r
    <2> HIDE DEF n
    <2>1. CASE i \in 1 .. n - k
        <3>1. i + k \in 1 .. n /\ (k = 1 => i + k # 1)  BY <1>4, <2>1
        <3> QED  BY <1>1, <1>2, <2>1, <3>1
    <2>2. CASE i \notin 1 .. n - k
        <3>1. i \in 1 .. n - k + a  BY <1>1
        <3>2. a # 0  BY <1>4, <2>2, <3>1
        <3>3. a = 1 /\ i = n - k + 1  BY <1>4, <2>2, <3>1, <3>2
        <3> QED  BY <1>3, <3>1, <3>3
    <2> QED  BY <2>1, <2>2
<1> HIDE DEF n
<1>6. Distinct'
    <2> SUFFICES ASSUME NEW i \in Flights', NEW j \in Flights', Flight(i)' = Flight(j)'
                 PROVE  i = j
        BY DEF Distinct
    <2>1. i \in Nat /\ j \in Nat  BY <1>1
    <2>2. CASE i \in 1 .. n - k /\ Flight(i)' = Flight(i + k) /\ i + k \in Flights
               /\ (k = 1 => i + k # 1)
        <3>1. CASE Flight(j)' = Flight(j + k) /\ j + k \in Flights
            <4>1. i + k = j + k  BY <2>2, <3>1 DEF Distinct
            <4> QED  BY <2>1, <4>1
        <3>2. CASE a = 1 /\ Flight(j)' = r  BY <2>2, <3>2
        <3> QED  BY <1>5, <3>1, <3>2
    <2>3. CASE a = 1 /\ i = n - k + 1 /\ Flight(i)' = r
        <3>1. CASE Flight(j)' = Flight(j + k) /\ j + k \in Flights /\ (k = 1 => j + k # 1)
            BY <2>3, <3>1
        <3>2. CASE a = 1 /\ j = n - k + 1  BY <2>3, <3>2
        <3> QED  BY <1>5, <3>1, <3>2
    <2> QED  BY <1>5, <2>2, <2>3
<1>7. ASSUME NEW i \in Flights'
      PROVE  \/ a = 1 /\ Flight(i)' = r
             \/ \E j \in Flights : Flight(i)' = Flight(j) /\ (k = 1 => Flight(j) # Flight(1))
    <2>1. CASE i \in 1 .. n - k /\ Flight(i)' = Flight(i + k) /\ i + k \in Flights
               /\ (k = 1 => i + k # 1)
        <3>1. k = 1 => 1 \in Flights  BY <1>1, <1>4
        <3>2. k = 1 => Flight(i + k) # Flight(1)  BY <2>1, <3>1 DEF Distinct
        <3> QED  BY <2>1, <3>2
    <2> QED  BY <1>5, <2>1
<1> QED  BY <1>6, <1>7

\* The same in the words of the actions.
LEMMA Answered ==
    ASSUME Typed, Distinct, wire # <<>>, wire' = Tail(wire), sending' = sending
    PROVE  /\ Distinct'
           /\ \A i \in Flights' :
                 \E j \in Flights : Flight(i)' = Flight(j) /\ Flight(j) # Head(wire).reg
<1>1. wire \in Seq(Messages) /\ sending \in Seq(Registers_)  BY DEF Typed, IocTyped
<1>2. /\ Len(wire) \in Nat /\ 1 <= Len(wire) /\ Len(sending) \in Nat /\ Head(wire) = wire[1]
      /\ Len(wire') = Len(wire) - 1 /\ \A i \in 1 .. Len(wire) - 1 : wire'[i] = wire[i + 1]
    BY <1>1
<1>3. Flight(1) = Head(wire).reg  BY <1>2 DEF Flight
<1>4. Len(sending') = Len(sending) + 0  BY <1>2
<1>5. /\ Distinct'
      /\ \A i \in Flights' :
            \/ 0 = 1 /\ Flight(i)' = 0
            \/ \E j \in Flights : Flight(i)' = Flight(j) /\ (1 = 1 => Flight(j) # Flight(1))
    <2>1. 1 \in 0 .. 1 /\ 0 \in 0 .. 1 /\ 0 # 1  OBVIOUS
    <2>2. \A i \in 1 .. Len(sending) : sending'[i] = sending[i]  OBVIOUS
    <2>3. 0 = 1 => sending'[Len(sending) + 1] = 0  BY <2>1
    <2>4. 0 = 1 => \A i \in Flights : Flight(i) = 0 => 1 = 1 /\ i = 1  BY <2>1
    <2> QED  BY <1>2, <1>4, <2>1, <2>2, <2>3, <2>4, ShiftedFlights, Zenon
<1> QED  BY <1>3, <1>5

LEMMA AnsweredAdded ==
    ASSUME Typed, Distinct, NEW r, wire # <<>>, wire' = Tail(wire),
           sending' = Append(sending, r),
           \A i \in Flights : Flight(i) = r => r = Head(wire).reg
    PROVE  /\ Distinct'
           /\ \A i \in Flights' :
                 \/ Flight(i)' = r
                 \/ \E j \in Flights : Flight(i)' = Flight(j) /\ Flight(j) # Head(wire).reg
<1>1. wire \in Seq(Messages) /\ sending \in Seq(Registers_)  BY DEF Typed, IocTyped
<1>2. /\ Len(wire) \in Nat /\ 1 <= Len(wire) /\ Len(sending) \in Nat /\ Head(wire) = wire[1]
      /\ Len(wire') = Len(wire) - 1 /\ \A i \in 1 .. Len(wire) - 1 : wire'[i] = wire[i + 1]
    BY <1>1
<1>3. Flight(1) = Head(wire).reg /\ 1 \in Flights  BY <1>2 DEF Flight, Flights
<1>4. /\ Len(sending') = Len(sending) + 1 /\ sending'[Len(sending) + 1] = r
      /\ \A i \in 1 .. Len(sending) : sending'[i] = sending[i]
    BY <1>1
<1>5. \A i \in Flights : Flight(i) = r => i = 1  BY <1>3 DEF Distinct
<1>6. /\ Distinct'
      /\ \A i \in Flights' :
            \/ 1 = 1 /\ Flight(i)' = r
            \/ \E j \in Flights : Flight(i)' = Flight(j) /\ (1 = 1 => Flight(j) # Flight(1))
    <2>1. 1 \in 0 .. 1  OBVIOUS
    <2>2. 1 = 1 => \A i \in Flights : Flight(i) = r => 1 = 1 /\ i = 1  BY <1>5
    <2>3. 1 = 1 => sending'[Len(sending) + 1] = r  BY <1>4
    <2> QED  BY <1>2, <1>4, <2>1, <2>2, <2>3, ShiftedFlights, Zenon
<1> QED  BY <1>3, <1>6

LEMMA Added ==
    ASSUME Typed, Distinct, NEW r, wire' = wire, sending' = Append(sending, r),
           \A i \in Flights : Flight(i) # r
    PROVE  /\ Distinct'
           /\ \A i \in Flights' :
                 \/ Flight(i)' = r
                 \/ \E j \in Flights : Flight(i)' = Flight(j)
<1>1. wire \in Seq(Messages) /\ sending \in Seq(Registers_)  BY DEF Typed, IocTyped
<1>2. /\ Len(wire) \in Nat /\ 0 <= Len(wire) /\ Len(sending) \in Nat
      /\ Len(wire') = Len(wire) - 0 /\ \A i \in 1 .. Len(wire) - 0 : wire'[i] = wire[i + 0]
    BY <1>1
<1>3. /\ Len(sending') = Len(sending) + 1 /\ sending'[Len(sending) + 1] = r
      /\ \A i \in 1 .. Len(sending) : sending'[i] = sending[i]
    BY <1>1
<1>4. /\ Distinct'
      /\ \A i \in Flights' :
            \/ 1 = 1 /\ Flight(i)' = r
            \/ \E j \in Flights : Flight(i)' = Flight(j) /\ (0 = 1 => Flight(j) # Flight(1))
    <2>1. 1 \in 0 .. 1 /\ 0 \in 0 .. 1 /\ 0 # 1  OBVIOUS
    <2>2. 1 = 1 => sending'[Len(sending) + 1] = r  BY <1>3
    <2>3. 1 = 1 => \A i \in Flights : Flight(i) = r => 0 = 1 /\ i = 1  OBVIOUS
    <2> QED  BY <1>2, <1>3, <2>1, <2>2, <2>3, ShiftedFlights, Zenon
<1> QED  BY <1>4

\* What is behind the first k flights moves k places forward.
LEMMA FlightsShift ==
    ASSUME Typed, NEW k \in 0 .. 1, k = 0 => wire' = wire,
           k = 1 => wire # <<>> /\ wire' = Tail(wire),
           sending' = sending \/ \E r : sending' = Append(sending, r)
    PROVE  \A i \in Flights : i > k => i - k \in Flights' /\ Flight(i - k)' = Flight(i)
<1>1. wire \in Seq(Messages) /\ sending \in Seq(Registers_)  BY DEF Typed, IocTyped
<1>2. /\ Len(wire) \in Nat /\ k <= Len(wire) /\ Len(wire') = Len(wire) - k
      /\ \A i \in 1 .. Len(wire) - k : wire'[i] = wire[i + k]
    <2>1. CASE k = 0  BY <1>1, <2>1
    <2>2. CASE k = 1  BY <1>1, <2>2
    <2> QED  BY <2>1, <2>2
<1>3. /\ Len(sending) \in Nat /\ Len(sending') \in Nat /\ Len(sending) <= Len(sending')
      /\ \A i \in 1 .. Len(sending) : sending'[i] = sending[i]
    <2>1. CASE sending' = sending  BY <1>1, <2>1
    <2>2. ASSUME NEW r, sending' = Append(sending, r)
          PROVE  /\ Len(sending') = Len(sending) + 1 /\ Len(sending) \in Nat
                 /\ \A i \in 1 .. Len(sending) : sending'[i] = sending[i]
        BY <1>1, <2>2
    <2> QED  BY <2>1, <2>2
<1>4. ASSUME NEW i \in Flights, i > k PROVE i - k \in Flights' /\ Flight(i - k)' = Flight(i)
    <2>1. i \in 1 .. Len(wire) + Len(sending)  BY DEF Flights
    <2>2. i - k \in Flights'  BY <1>2, <1>3, <1>4, <2>1 DEF Flights
    <2>3. CASE i <= Len(wire)
        <3>1. i - k \in 1 .. Len(wire) - k /\ (i - k) + k = i  BY <1>2, <1>4, <2>1, <2>3
        <3>2. wire'[i - k] = wire[i]  BY <1>2, <3>1
        <3>3. Flight(i - k)' = wire'[i - k].reg  BY <1>2, <3>1 DEF Flight
        <3> QED  BY <2>2, <2>3, <3>2, <3>3 DEF Flight
    <2>4. CASE i > Len(wire)
        <3>1. /\ ~ (i - k <= Len(wire')) /\ ~ (i <= Len(wire))
              /\ (i - k) - Len(wire') = i - Len(wire) /\ i - Len(wire) \in 1 .. Len(sending)
            BY <1>2, <1>3, <2>1, <2>4
        <3>2. Flight(i - k)' = sending'[i - Len(wire)]  BY <3>1 DEF Flight
        <3>3. Flight(i) = sending[i - Len(wire)]  BY <3>1 DEF Flight
        <3> QED  BY <1>3, <2>2, <3>1, <3>2, <3>3
    <2> QED  BY <1>2, <2>1, <2>3, <2>4
<1> QED  BY <1>4

\* So a mask on its way stays so, and ahead of the tag, unless it, or the tag, arrives.
LEMMA KeepStays ==
    ASSUME Typed, NEW k \in 0 .. 1, k = 0 => wire' = wire,
           k = 1 => wire # <<>> /\ wire' = Tail(wire) /\ Head(wire).reg # "keep",
           sending' = sending \/ \E r : sending' = Append(sending, r)
    PROVE  /\ Underway => Underway'
           /\ KeepFirst /\ (k = 1 => Head(wire).reg # "tag") => KeepFirst'
<1>1. \A i \in Flights : i > k => i - k \in Flights' /\ Flight(i - k)' = Flight(i)
    BY FlightsShift
<1>2. \A i \in Flights : i \in Nat /\ i >= 1  BY DEF Flights
<1>3. k = 1 => Flight(1) = Head(wire).reg
    <2>1. wire \in Seq(Messages)  BY DEF Typed, IocTyped
    <2>2. k = 1 => 1 <= Len(wire) /\ Head(wire) = wire[1]  BY <2>1
    <2> QED  BY <2>2 DEF Flight
<1>4. ASSUME NEW i \in Flights, Flight(i) = "keep" PROVE i > k
    <2>1. k = 1 => i # 1  BY <1>3, <1>4
    <2> QED  BY <1>2, <2>1
<1>5. Underway => Underway'
    <2> SUFFICES ASSUME NEW i \in Flights, Flight(i) = "keep" PROVE Underway'
        BY DEF Underway
    <2>1. i - k \in Flights' /\ Flight(i - k)' = "keep"  BY <1>1, <1>4
    <2> QED  BY <2>1 DEF Underway
<1>6. KeepFirst /\ (k = 1 => Head(wire).reg # "tag") => KeepFirst'
    <2> SUFFICES ASSUME NEW i \in Flights, NEW j \in Flights, i < j, Flight(i) = "keep",
                        Flight(j) = "tag"
                 PROVE  KeepFirst'
        BY DEF KeepFirst
    <2>1. i > k  BY <1>4
    <2>2. j > k /\ i - k < j - k  BY <1>2, <2>1
    <2>3. /\ i - k \in Flights' /\ Flight(i - k)' = "keep"
          /\ j - k \in Flights' /\ Flight(j - k)' = "tag"
        BY <1>1, <2>1, <2>2
    <2> QED  BY <2>2, <2>3 DEF KeepFirst
<1> QED  BY <1>5, <1>6

\* What is added is the last flight.
LEMMA LastFlight ==
    ASSUME Typed, Len(wire') \in Nat, NEW r, sending' = Append(sending, r)
    PROVE  \E n \in Flights' : Flight(n)' = r /\ n = Len(wire') + Len(sending) + 1
<1>1. sending \in Seq(Registers_)  BY DEF Typed, IocTyped
<1>2. Len(sending) \in Nat /\ Len(sending') = Len(sending) + 1 /\ sending'[Len(sending) + 1] = r
    BY <1>1
<1>3. PICK n \in Nat : n = Len(wire') + Len(sending) + 1  BY <1>2
<1>4. n \in Flights'  BY <1>2, <1>3 DEF Flights
<1>5. ~ (n <= Len(wire')) /\ n - Len(wire') = Len(sending) + 1  BY <1>2, <1>3
<1>6. Flight(n)' = r  BY <1>2, <1>5 DEF Flight
<1> QED  BY <1>3, <1>4, <1>6

\* What SettledFor is about is not changed.
LEMMA SettledStays ==
    ASSUME SettledFor,
           UNCHANGED <<puts, tags, keep, tag, bank, words, slow, mask, tagRbv, changed, size, wf,
                       slowRaw, incremented>>,
           regState'["keep"] = regState["keep"], KeepFirst => KeepFirst'
    PROVE  SettledFor'
BY DEF SettledFor, Reflects

\* The words of a channel among the first n.
ItsWords(m, ch, n) == {i \in 0 .. n - 1 : ChannelOf(m, i) = ch}

\* What is taken out of mem for channel ch of the mask m is every word of that channel
\* up to the size g, and nothing else.
TakesChannel(mem, m, ch, g) ==
    LET w == Slice(mem, Size, SplitBits(m, NChannels)[ch], CountBits(m, NChannels), g, Size)
    IN  /\ Len(w) = Cardinality(ItsWords(m, ch, SliceEnd(Size, g)))
        /\ \A k \in 1 .. Len(w) :
               \E i \in 0 .. Size - 1 : w[k] = mem[i] /\ mem[i].channel = ch

\* So does WF, out of a bank that is all of the mask.
LEMMA WholeChannel ==
    ASSUME NEW m \in Masks, NEW ch \in Selected(m), NEW mem \in Memory,
           \A i \in 0 .. Size - 1 : mem[i].channel = ChannelOf(m, i),
           NEW g \in Nat
    PROVE  TakesChannel(mem, m, ch, g)
<1> DEFINE N == CountBits(m, NChannels)
           p == SplitBits(m, NChannels)[ch]
           n == SliceLen(Size, p, N, g, Size)
           w == Slice(mem, Size, p, N, g, Size)
           E == SliceEnd(Size, g)
           S == ItsWords(m, ch, E)
<1>1. m \in SUBSET Channels /\ N \in Nat \ {0} /\ Size \in Nat \ {0}
    BY SomeSelected, AcquisitionAssumption
<1>2. p \in 0 .. N - 1  BY <1>1, SelectedCounted, Zenon
<1>5. E \in Nat /\ E <= Size  BY <1>1 DEF SliceEnd
<1>3. ASSUME NEW i \in 0 .. Size - 1 PROVE ChannelOf(m, i) = ch <=> i % N = p
    <2>1. i \in Nat  BY <1>1
    <2>2. /\ SplitBits(m, NChannels)[ChannelOf(m, i)] = i % N
          /\ p = i % N => ChannelOf(m, i) = ch
        BY <2>1, ChannelOfWord
    <2> QED  BY <2>2
<1> HIDE DEF N, p
<1>4. S = {i \in 0 .. E - 1 : i % N = p}
    <2> HIDE DEF E
    <2> QED  BY <1>1, <1>3, <1>5 DEF ItsWords
<1>12. SliceLen(Size, p, N, g, Size) =
          LET fit == IF p >= E THEN 0 ELSE (E - p + N - 1) \div N
          IN  IF fit < Size THEN fit ELSE Size
    BY DEF SliceLen
<1> HIDE DEF E
<1>6. /\ n \in Nat
      /\ \A k \in 1 .. n : p + (k - 1) * N \in 0 .. E - 1 /\ (p + (k - 1) * N) % N = p
      /\ \A i \in 0 .. E - 1 : i % N = p => \E k \in 1 .. n : i = p + (k - 1) * N
    <2>1. CASE p >= E
        <3>1. n = 0  BY <1>1, <1>2, <1>5, <1>12, <2>1
        <3>2. ASSUME NEW i \in 0 .. E - 1, i % N = p PROVE FALSE
            <4>1. i - (i % N) = (i \div N) * N /\ i \div N \in Nat  BY <1>1, <1>5, Quotient
            <4>2. (i \div N) * N \in Nat  BY <1>1, <4>1
            <4> QED  BY <1>1, <1>2, <1>5, <2>1, <3>2, <4>1, <4>2
        <3> QED  BY <3>1, <3>2
    <2>2. CASE p < E
        <3> DEFINE room == E - p + N - 1
                   f == room \div N
        <3>1. room \in Nat  BY <1>1, <1>2, <1>5, <2>2
        <3>2. f \in Nat /\ room % N \in 0 .. N - 1 /\ room - (room % N) = f * N
            <4> HIDE DEF room
            <4> QED  BY <1>1, <3>1, Quotient
        <3>3. n = IF f < Size THEN f ELSE Size
            BY <1>1, <1>2, <1>5, <1>12, <2>2
        <3> HIDE DEF f
        <3>4. f <= E
            <4> SUFFICES ASSUME f >= E + 1 PROVE FALSE  BY <1>1, <1>5, <3>2
            <4>1. (E + 1) * N <= f * N  BY <1>1, <1>5, <3>2
            <4>2. (E + 1) * N = E * N + N /\ E * 1 <= E * N  BY <1>1, <1>5
            <4>3. f * N \in Nat /\ E * N \in Nat  BY <1>1, <1>5, <3>2
            <4> QED  BY <1>1, <1>2, <1>5, <3>1, <3>2, <4>1, <4>2, <4>3
        <3>5. n = f  BY <1>1, <1>5, <3>2, <3>3, <3>4
        <3>6. ASSUME NEW k \in 1 .. f
              PROVE  p + (k - 1) * N \in 0 .. E - 1 /\ (p + (k - 1) * N) % N = p
            <4>1. k \in Nat /\ k - 1 \in Nat /\ k <= f  BY <3>2
            <4>2. k * N <= f * N  BY <1>1, <3>2, <4>1
            <4>3. (k - 1) * N = k * N - N /\ (k - 1) * N \in Nat /\ k * N \in Nat /\ f * N \in Nat
                BY <1>1, <3>2, <4>1
            <4>4. p + (k - 1) * N \in 0 .. E - 1
                BY <1>1, <1>2, <1>5, <3>1, <3>2, <4>2, <4>3
            <4>5. ((k - 1) * N + p) % N = p  BY <1>1, <1>2, <4>1, Divided
            <4>6. (k - 1) * N + p = p + (k - 1) * N  BY <1>1, <1>2, <4>3
            <4> QED  BY <4>4, <4>5, <4>6
        <3>7. ASSUME NEW i \in 0 .. E - 1, i % N = p
              PROVE  \E k \in 1 .. f : i = p + (k - 1) * N
            <4> DEFINE d == i \div N
            <4>1. d \in Nat /\ i - (i % N) = d * N  BY <1>1, <1>5, Quotient
            <4> HIDE DEF d
            <4>2. d * N \in Nat /\ i = p + d * N  BY <1>1, <1>2, <1>5, <3>7, <4>1
            <4>3. (d + 1) * N = d * N + N  BY <1>1, <4>1
            <4>4. d + 1 <= f
                <5> SUFFICES ASSUME f <= d PROVE FALSE  BY <3>2, <4>1
                <5>1. f * N <= d * N /\ f * N \in Nat  BY <1>1, <3>2, <4>1
                <5> QED  BY <1>1, <1>2, <1>5, <3>1, <3>2, <4>2, <5>1
            <4>5. d + 1 \in 1 .. f /\ (d + 1) - 1 = d  BY <3>2, <4>1, <4>4
            <4> QED  BY <4>2, <4>5
        <3> QED  BY <3>2, <3>5, <3>6, <3>7
    <2> QED  BY <1>1, <1>2, <1>5, <2>1, <2>2
<1>7. w = [k \in 1 .. n |-> mem[p + (k - 1) * N]]  BY DEF Slice
<1> HIDE DEF n
<1>8. Len(w) = n  BY <1>6, <1>7
<1>9. Cardinality(S) = n
    <2> DEFINE f == [k \in 1 .. n |-> p + (k - 1) * N]
    <2>1. \A k \in 1 .. n : f[k] \in S  BY <1>4, <1>6
    <2>2. \A i \in S : \E k \in 1 .. n : f[k] = i  BY <1>4, <1>6
    <2>3. ASSUME NEW k \in 1 .. n, NEW l \in 1 .. n, f[k] = f[l] PROVE k = l
        <3>1. k \in Nat /\ l \in Nat /\ (k - 1) * N = (l - 1) * N
            <4>1. k \in Nat /\ l \in Nat /\ k - 1 \in Nat /\ l - 1 \in Nat  BY <1>6
            <4>2. (k - 1) * N \in Nat /\ (l - 1) * N \in Nat  BY <1>1, <4>1
            <4>3. p + (k - 1) * N = p + (l - 1) * N  BY <2>3
            <4> QED  BY <1>2, <4>1, <4>2, <4>3
        <3>2. (k - 1) * N = k * N - N /\ (l - 1) * N = l * N - N  BY <1>1, <3>1
        <3>3. ASSUME NEW x \in Nat, NEW y \in Nat, x < y PROVE x * N < y * N
            <4>1. (x + 1) * N <= y * N /\ (x + 1) * N = x * N + N  BY <1>1, <3>3
            <4>2. x * N \in Nat /\ y * N \in Nat  BY <1>1
            <4> QED  BY <1>1, <4>1, <4>2
        <3>4. k * N \in Nat /\ l * N \in Nat /\ k * N = l * N  BY <1>1, <3>1, <3>2
        <3> QED  BY <3>1, <3>3, <3>4
    <2>4. f \in Bijection(1 .. n, S)
        <3> f \in [1 .. n -> S]  BY <2>1
        <3> HIDE DEF f
        <3> QED  BY <2>2, <2>3 DEF Bijection, Injection, Surjection, IsInjective
    <2>5. ExistsBijection(1 .. n, S)  BY <2>4 DEF ExistsBijection
    <2>6. IsFiniteSet(1 .. n) /\ Cardinality(1 .. n) = n  BY <1>6, FS_Interval
    <2> QED  BY <2>5, <2>6, FS_Bijection
<1>10. ASSUME NEW k \in 1 .. n
       PROVE  \E i \in 0 .. Size - 1 : w[k] = mem[i] /\ mem[i].channel = ch
    <2> DEFINE i == p + (k - 1) * N
    <2>1. w[k] = mem[i]  BY <1>7
    <2>2. i \in 0 .. E - 1 /\ i \in S  BY <1>4, <1>6
    <2> HIDE DEF i
    <2>3. i \in 0 .. Size - 1 /\ ChannelOf(m, i) = ch  BY <1>1, <1>5, <2>2 DEF ItsWords
    <2> QED  BY <2>1, <2>3
<1>11. Len(w) = Cardinality(S) /\ \A k \in 1 .. Len(w) :
          \E i \in 0 .. Size - 1 : w[k] = mem[i] /\ mem[i].channel = ch
    BY <1>8, <1>9, <1>10
<1> QED  BY <1>11 DEF TakesChannel, w, S, N, p, E

LEMMA SendIoc ==
    ASSUME Typed, user = "ioc", IocInv, Send PROVE IocInv'
<1>1. OneEach /\ OnItsWay /\ Current /\ Configured /\ Quiet /\ Counted /\ SettledFor
    BY DEF IocInv
<1>2. Flights' = Flights /\ \A i \in Flights : Flight(i)' = Flight(i)  BY SendFlights, Zenon
<1>3. OneEach'
    <2>1. Distinct'  BY <1>1, <1>2 DEF OneEach, Distinct
    <2>2. regState' = regState /\ chain' = chain  BY DEF Send
    <2> QED  BY <1>1, <1>2, <2>1, <2>2 DEF OneEach
<1>4. Current'
    <2>1. wire \in Seq(Messages)  BY DEF Typed, IocTyped
    <2> DEFINE r == Head(sending)
               e == [reg |-> r, value |-> CASE r = "keep" -> mask [] r = "tag" -> tagRbv
                                            [] OTHER -> {}]
    <2>2. e.reg = "keep" => e.value = mask  OBVIOUS
    <2>3. e.reg = "tag" => e.value = tagRbv  OBVIOUS
    <2>4. wire' = Append(wire, e)  BY DEF Send
    <2> HIDE DEF e
    <2>5. /\ Len(wire') = Len(wire) + 1 /\ Len(wire) \in Nat /\ wire'[Len(wire) + 1] = e
          /\ \A i \in 1 .. Len(wire) : wire'[i] = wire[i]
        BY <2>1, <2>4
    <2>6. UNCHANGED <<mask, tagRbv, regState, keep>>  BY DEF Send, devVars
    <2>7. ASSUME NEW i \in 1 .. Len(wire')
          PROVE  /\ wire'[i].reg = "keep" /\ regState["keep"] = "writing" => wire'[i].value = mask
                 /\ wire'[i].reg = "tag" => wire'[i].value = tagRbv
        <3>1. i \in 1 .. Len(wire) \/ i = Len(wire) + 1  BY <2>5
        <3>2. CASE i \in 1 .. Len(wire)  BY <1>1, <2>5, <3>2 DEF Current
        <3>3. CASE i = Len(wire) + 1  BY <2>2, <2>3, <2>5, <3>3
        <3> QED  BY <3>1, <3>2, <3>3
    <2> QED  BY <1>1, <2>6, <2>7 DEF Current
<1>5. Configured' /\ Quiet' /\ Counted'
    BY <1>1 DEF Send, devVars, Configured, Quiet, Counted
<1>6. (Underway => Underway') /\ (KeepFirst => KeepFirst')
    BY <1>2 DEF Underway, KeepFirst
<1>7. OnItsWay'  BY <1>1, <1>6 DEF Send, OnItsWay
<1>8. SettledFor'  BY <1>1, <1>6, SettledStays DEF Send, devVars
<1> QED  BY <1>3, <1>4, <1>5, <1>7, <1>8 DEF IocInv

\* An answer that is not of a write in flight leaves what the others carry.
LEMMA TailCurrent ==
    ASSUME Typed, Current, wire # <<>>, wire' = Tail(wire)
    PROVE  \A i \in 1 .. Len(wire') :
              /\ i + 1 \in 1 .. Len(wire) /\ wire'[i] = wire[i + 1]
              /\ wire'[i].reg = "keep" /\ regState["keep"] = "writing" => wire'[i].value = mask
              /\ wire'[i].reg = "tag" => wire'[i].value = tagRbv
<1>1. wire \in Seq(Messages)  BY DEF Typed, IocTyped
<1>2. \A i \in 1 .. Len(wire') : i + 1 \in 1 .. Len(wire) /\ wire'[i] = wire[i + 1]  BY <1>1
<1> HIDE DEF Typed
<1> QED  BY <1>2 DEF Current

\* The head of the wire is the first flight.
LEMMA HeadFlight ==
    ASSUME Typed, wire # <<>>
    PROVE  /\ 1 \in Flights /\ Flight(1) = Head(wire).reg
           /\ 1 \in 1 .. Len(wire) /\ Head(wire) = wire[1]
           /\ \A i \in 1 .. Len(wire) : i \in Flights /\ Flight(i) = wire[i].reg
<1>1. wire \in Seq(Messages) /\ sending \in Seq(Registers_)  BY DEF Typed, IocTyped
<1>2. Len(wire) \in Nat /\ Len(wire) > 0 /\ Len(sending) \in Nat /\ Head(wire) = wire[1]
    BY <1>1
<1> QED  BY <1>2 DEF Flights, Flight

LEMMA WrittenKeepIoc ==
    ASSUME Typed, user = "ioc", IocInv, WrittenKeep PROVE IocInv'
<1>1. OneEach /\ OnItsWay /\ Current /\ Configured /\ Quiet /\ Counted /\ SettledFor
    BY DEF IocInv
<1>2. wire # <<>> /\ Head(wire).reg = "keep" /\ wire' = Tail(wire)
      /\ regState' = [regState EXCEPT !["keep"] = IF @ = "queued" THEN "writing" ELSE "idle"]
      /\ keep' = Head(wire).value
      /\ UNCHANGED <<mask, tagRbv, chain>>
    BY DEF WrittenKeep, Written
<1>3. regState \in [Written_ -> {"idle", "writing", "queued"}]  BY DEF Typed, IocTyped
<1>4. /\ 1 \in Flights /\ Flight(1) = "keep" /\ 1 \in 1 .. Len(wire) /\ Head(wire) = wire[1]
      /\ \A i \in 1 .. Len(wire) : i \in Flights /\ Flight(i) = wire[i].reg
    BY <1>2, HeadFlight
<1>5. regState["keep"] \in {"writing", "queued"} /\ "keep" \in Written_
    BY <1>1, <1>3, <1>4 DEF OneEach, Written_
<1>6. /\ \A r \in Written_ \ {"keep"} : regState'[r] = regState[r]
      /\ regState["keep"] = "queued" => regState'["keep"] = "writing"
      /\ regState["keep"] # "queued" => regState'["keep"] = "idle"
    BY <1>2, <1>3, <1>5
<1>7. OneEach'
    <2>1. CASE regState["keep"] = "queued"
        <3>1. sending' = Append(sending, "keep")  BY <2>1 DEF WrittenKeep
        <3>2. /\ Distinct'
              /\ \A i \in Flights' :
                    \/ Flight(i)' = "keep"
                    \/ \E j \in Flights : Flight(i)' = Flight(j) /\ Flight(j) # Head(wire).reg
            BY <1>1, <1>2, <3>1, AnsweredAdded DEF OneEach
        <3>3. ASSUME NEW i \in Flights'
              PROVE  /\ Flight(i)' \in Written_ => regState'[Flight(i)'] # "idle"
                     /\ Flight(i)' \in {"flip", "ready", "circle", "slow"} => chain' = Flight(i)'
            <4>1. CASE Flight(i)' = "keep"  BY <1>6, <2>1, <4>1
            <4>2. CASE \E j \in Flights : Flight(i)' = Flight(j) /\ Flight(j) # "keep"
                BY <1>1, <1>2, <1>6, <4>2 DEF OneEach
            <4> QED  BY <1>2, <3>2, <4>1, <4>2
        <3> QED  BY <1>1, <1>2, <1>6, <3>2, <3>3 DEF OneEach, Written_
    <2>2. CASE regState["keep"] # "queued"
        <3>1. sending' = sending  BY <2>2 DEF WrittenKeep
        <3>2. /\ Distinct'
              /\ \A i \in Flights' :
                    \E j \in Flights : Flight(i)' = Flight(j) /\ Flight(j) # Head(wire).reg
            BY <1>1, <1>2, <3>1, Answered DEF OneEach
        <3>3. ASSUME NEW i \in Flights'
              PROVE  /\ Flight(i)' \in Written_ => regState'[Flight(i)'] # "idle"
                     /\ Flight(i)' \in {"flip", "ready", "circle", "slow"} => chain' = Flight(i)'
            BY <1>1, <1>2, <1>6, <3>2 DEF OneEach
        <3> QED  BY <1>1, <1>2, <1>6, <3>2, <3>3 DEF OneEach, Written_
    <2> QED  BY <2>1, <2>2
<1>8. Current'
    <2>1. ASSUME NEW i \in 1 .. Len(wire') PROVE wire'[i].reg # "keep"
        <3>1. i + 1 \in 1 .. Len(wire) /\ wire'[i] = wire[i + 1]  BY <1>1, <1>2, TailCurrent
        <3>2. wire[i + 1].reg = "keep" => i + 1 = 1
            BY <1>1, <1>4, <3>1 DEF OneEach, Distinct
        <3> QED  BY <3>1, <3>2
    <2>2. \A i \in 1 .. Len(wire') : wire'[i].reg = "tag" => wire'[i].value = tagRbv
        BY <1>1, <1>2, TailCurrent
    <2>3. regState'["keep"] = "idle" => keep' = mask
        BY <1>1, <1>2, <1>4, <1>5, <1>6 DEF Current
    <2> QED  BY <1>2, <2>1, <2>2, <2>3 DEF Current
<1>9. Configured' /\ Quiet' /\ Counted'
    BY <1>1 DEF WrittenKeep, Configured, Quiet, Counted
<1>10. OnItsWay'
    <2>1. CASE regState["keep"] = "queued"
        <3>1. sending' = Append(sending, "keep")  BY <2>1 DEF WrittenKeep
        <3>2. wire \in Seq(Messages)  BY DEF Typed, IocTyped
        <3>3. Len(wire') \in Nat  BY <1>2, <3>2
        <3>4. \E n \in Flights' : Flight(n)' = "keep"  BY <3>1, <3>3, LastFlight
        <3> QED  BY <3>4 DEF OnItsWay, Underway
    <2>2. CASE regState["keep"] # "queued"  BY <1>6, <2>2 DEF OnItsWay
    <2> QED  BY <2>1, <2>2
<1>11. SettledFor'
    <2>1. regState["keep"] # "queued" => keep' = mask
        BY <1>1, <1>2, <1>4, <1>5 DEF Current
    <2>2. /\ UNCHANGED <<puts, tags, tag, bank, words, slow, mask, tagRbv, changed, size, wf,
                         slowRaw, incremented>>
        BY DEF WrittenKeep
    <2> QED  BY <1>1, <1>6, <2>1, <2>2 DEF SettledFor, Reflects
<1> QED  BY <1>7, <1>8, <1>9, <1>10, <1>11 DEF IocInv

LEMMA WrittenTagIoc ==
    ASSUME Typed, user = "ioc", IocInv, WrittenTag PROVE IocInv'
<1>1. OneEach /\ OnItsWay /\ Current /\ Configured /\ Quiet /\ Counted /\ SettledFor
    BY DEF IocInv
<1>2. wire # <<>> /\ Head(wire).reg = "tag" /\ wire' = Tail(wire) /\ sending' = sending
      /\ regState' = [regState EXCEPT !["tag"] = IF @ = "queued" THEN "writing" ELSE "idle"]
      /\ tag' = Head(wire).value
      /\ UNCHANGED <<mask, tagRbv, chain, keep>>
    BY DEF WrittenTag, Written
<1>3. regState \in [Written_ -> {"idle", "writing", "queued"}]  BY DEF Typed, IocTyped
<1>4. /\ 1 \in 1 .. Len(wire) /\ Head(wire) = wire[1]
    BY <1>2, HeadFlight
<1>5. \A r \in Written_ \ {"tag"} : regState'[r] = regState[r]  BY <1>2, <1>3
<1>6. regState'["tag"] = "idle"  BY <1>1, <1>2, <1>3 DEF OneEach, Written_
<1>7. OneEach'
    <2>1. /\ Distinct'
          /\ \A i \in Flights' :
                \E j \in Flights : Flight(i)' = Flight(j) /\ Flight(j) # Head(wire).reg
        BY <1>1, <1>2, Answered DEF OneEach
    <2>2. ASSUME NEW i \in Flights'
          PROVE  /\ Flight(i)' \in Written_ => regState'[Flight(i)'] # "idle"
                 /\ Flight(i)' \in {"flip", "ready", "circle", "slow"} => chain' = Flight(i)'
        BY <1>1, <1>2, <1>5, <2>1 DEF OneEach
    <2> QED  BY <1>1, <1>2, <1>5, <1>6, <2>1, <2>2 DEF OneEach, Written_
<1>8. regState'["keep"] = regState["keep"]  BY <1>5 DEF Written_
<1>9. Current'
    <2>1. \A i \in 1 .. Len(wire') :
              /\ wire'[i].reg = "keep" /\ regState["keep"] = "writing" => wire'[i].value = mask
              /\ wire'[i].reg = "tag" => wire'[i].value = tagRbv
        BY <1>1, <1>2, TailCurrent
    <2> QED  BY <1>1, <1>2, <1>8, <2>1 DEF Current
<1>10. tag' = tagRbv  BY <1>1, <1>2, <1>4 DEF Current
<1>11. Counted'
    <2>1. tags \in Nat  BY DEF Typed, CountsTyped
    <2> QED  BY <1>1, <1>10, <2>1 DEF WrittenTag, Counted
<1>12. Configured' /\ Quiet'  BY <1>1 DEF WrittenTag, Configured, Quiet
<1>13. OnItsWay'
    <2>1. 1 \in 0 .. 1 /\ Head(wire).reg # "keep"  BY <1>2
    <2>2. Underway => Underway'  BY <1>2, <2>1, KeepStays
    <2> QED  BY <1>1, <1>8, <2>2 DEF OnItsWay
<1>14. SettledFor'
    <2>1. ~KeepFirst
        <3> SUFFICES ASSUME NEW i \in Flights, NEW j \in Flights, i < j, Flight(j) = "tag"
                     PROVE  FALSE
            BY DEF KeepFirst
        <3>1. 1 \in Flights /\ Flight(1) = "tag"  BY <1>2, HeadFlight
        <3>2. j = 1  BY <1>1, <3>1 DEF OneEach, Distinct
        <3>3. i \in Nat /\ i >= 1  BY DEF Flights
        <3> QED  BY <3>2, <3>3
    <2>2. UNCHANGED <<puts, tags, keep, bank, words, slow, mask, tagRbv, changed, size, wf,
                      slowRaw, incremented>>
        BY DEF WrittenTag
    <2> QED  BY <1>1, <1>8, <1>10, <2>1, <2>2 DEF SettledFor, Reflects
<1> QED  BY <1>7, <1>9, <1>11, <1>12, <1>13, <1>14 DEF IocInv

LEMMA FlightType ==
    ASSUME Typed PROVE \A i \in Flights : Flight(i) \in Registers_
<1>1. wire \in Seq(Messages) /\ sending \in Seq(Registers_)  BY DEF Typed, IocTyped
<1>2. Len(wire) \in Nat /\ Len(sending) \in Nat  BY <1>1
<1>3. ASSUME NEW i \in Flights PROVE Flight(i) \in Registers_
    <2>1. CASE i <= Len(wire)
        <3>1. wire[i] \in Messages  BY <1>1, <1>2, <2>1 DEF Flights
        <3>2. wire[i].reg \in Registers_  BY <3>1 DEF Messages, Registers_
        <3> QED  BY <2>1, <3>2 DEF Flight
    <2>2. CASE i > Len(wire)
        <3>1. i - Len(wire) \in 1 .. Len(sending)  BY <1>2, <2>2 DEF Flights
        <3>2. sending[i - Len(wire)] \in Registers_  BY <1>1, <3>1
        <3>3. ~ (i <= Len(wire))  BY <1>2, <2>2 DEF Flights
        <3> QED  BY <3>2, <3>3 DEF Flight
    <2> QED  BY <1>2, <2>1, <2>2 DEF Flights
<1> QED  BY <1>3

\* An answer of the chain is the one it waits for; what it asks for next is then the
\* only flight of the chain.
LEMMA ChainAsks ==
    ASSUME Typed, OneEach, NEW r \in {"flip", "ready", "circle", "slow"}, wire # <<>>,
           Head(wire).reg = r, wire' = Tail(wire), NEW q \in {"ready", "circle", "slow"},
           sending' = Append(sending, q)
    PROVE  /\ chain = r /\ Distinct'
           /\ \A i \in Flights' :
                 \/ Flight(i)' = q
                 \/ Flight(i)' \in {"keep", "tag"} /\ regState[Flight(i)'] # "idle"
<1>1. 1 \in Flights /\ Flight(1) = r  BY HeadFlight
<1>2. chain = r  BY <1>1 DEF OneEach
<1>3. \A i \in Flights : Flight(i) = q => q = Head(wire).reg  BY <1>2 DEF OneEach
<1>4. /\ Distinct'
      /\ \A i \in Flights' :
            \/ Flight(i)' = q
            \/ \E j \in Flights : Flight(i)' = Flight(j) /\ Flight(j) # Head(wire).reg
    BY <1>3, AnsweredAdded DEF OneEach
<1>5. ASSUME NEW j \in Flights, Flight(j) # Head(wire).reg
      PROVE  Flight(j) \in {"keep", "tag"} /\ regState[Flight(j)] # "idle"
    <2>1. Flight(j) \in Registers_  BY FlightType
    <2>2. Flight(j) \notin {"flip", "ready", "circle", "slow"}  BY <1>2, <1>5 DEF OneEach
    <2>3. Flight(j) \in {"keep", "tag"}  BY <2>1, <2>2 DEF Registers_
    <2> QED  BY <2>3 DEF OneEach, Written_
<1> QED  BY <1>2, <1>4, <1>5

LEMMA WrittenFlipIoc ==
    ASSUME Typed, user = "ioc", IocInv, WrittenFlip PROVE IocInv'
<1>1. OneEach /\ OnItsWay /\ Current /\ Configured /\ Quiet /\ Counted /\ SettledFor
    BY DEF IocInv
<1>2. /\ wire # <<>> /\ Head(wire).reg = "flip" /\ wire' = Tail(wire)
      /\ sending' = Append(sending, "ready") /\ chain' = "ready"
      /\ regState' = [regState EXCEPT !["flip"] = IF @ = "queued" THEN "writing" ELSE "idle"]
      /\ ready' = FALSE /\ armed' = TRUE
      /\ UNCHANGED <<mask, tagRbv, keep>>
    BY DEF WrittenFlip, Written, Ask, Flip
<1>3. regState \in [Written_ -> {"idle", "writing", "queued"}]  BY DEF Typed, IocTyped
<1>4. \A r \in Written_ \ {"flip"} : regState'[r] = regState[r]  BY <1>2, <1>3
<1>5. regState'["flip"] = "idle"  BY <1>1, <1>2, <1>3 DEF OneEach, Written_
<1>6. OneEach'
    <2>1. /\ Distinct'
          /\ \A i \in Flights' :
                \/ Flight(i)' = "ready"
                \/ Flight(i)' \in {"keep", "tag"} /\ regState[Flight(i)'] # "idle"
        BY <1>1, <1>2, ChainAsks
    <2>2. ASSUME NEW i \in Flights'
          PROVE  /\ Flight(i)' \in Written_ => regState'[Flight(i)'] # "idle"
                 /\ Flight(i)' \in {"flip", "ready", "circle", "slow"} => chain' = Flight(i)'
        BY <1>2, <1>4, <2>1 DEF Written_
    <2> QED  BY <1>1, <1>2, <1>4, <1>5, <2>1, <2>2 DEF OneEach, Written_
<1>7. regState'["keep"] = regState["keep"]  BY <1>4 DEF Written_
<1>8. Current'
    <2>1. \A i \in 1 .. Len(wire') :
              /\ wire'[i].reg = "keep" /\ regState["keep"] = "writing" => wire'[i].value = mask
              /\ wire'[i].reg = "tag" => wire'[i].value = tagRbv
        BY <1>1, <1>2, TailCurrent
    <2> QED  BY <1>1, <1>2, <1>7, <2>1 DEF Current
<1>9. Quiet'  BY <1>2 DEF Quiet
<1>10. Configured' /\ Counted'  BY <1>1 DEF WrittenFlip, Flip, Configured, Counted
<1>11. (Underway => Underway') /\ (KeepFirst => KeepFirst')
    <2>1. 1 \in 0 .. 1 /\ Head(wire).reg # "keep" /\ Head(wire).reg # "tag"  BY <1>2
    <2> QED  BY <1>2, <2>1, KeepStays
<1>12. OnItsWay'  BY <1>1, <1>7, <1>11 DEF OnItsWay
<1>13. SettledFor'  BY <1>1, <1>7, <1>11, SettledStays DEF WrittenFlip, Flip
<1> QED  BY <1>6, <1>8, <1>9, <1>10, <1>12, <1>13 DEF IocInv

\* A read of the chain, whose answer changes nothing but what Quiet is about.
LEMMA ReadIoc ==
    ASSUME Typed, user = "ioc", IocInv, NEW r \in {"ready", "circle", "slow"}, Read(r), OneEach',
           Quiet', sending' = sending \/ \E q : sending' = Append(sending, q)
    PROVE  IocInv'
<1>1. OneEach /\ OnItsWay /\ Current /\ Configured /\ Quiet /\ Counted /\ SettledFor
    BY DEF IocInv
<1>2. wire # <<>> /\ Head(wire).reg = r /\ wire' = Tail(wire)
      /\ UNCHANGED <<mask, tagRbv, keep, regState>>
    BY DEF Read, devVars
<1>3. Current'
    <2>1. \A i \in 1 .. Len(wire') :
              /\ wire'[i].reg = "keep" /\ regState["keep"] = "writing" => wire'[i].value = mask
              /\ wire'[i].reg = "tag" => wire'[i].value = tagRbv
        BY <1>1, <1>2, TailCurrent
    <2> QED  BY <1>1, <1>2, <2>1 DEF Current
<1>4. Configured' /\ Counted'  BY <1>1 DEF Read, devVars, Configured, Counted
<1>5. (Underway => Underway') /\ (KeepFirst => KeepFirst')
    <2>1. 1 \in 0 .. 1 /\ Head(wire).reg # "keep" /\ Head(wire).reg # "tag"  BY <1>2
    <2> QED  BY <1>2, <2>1, KeepStays
<1>6. OnItsWay'  BY <1>1, <1>2, <1>5 DEF OnItsWay
<1>7. SettledFor'  BY <1>1, <1>5, SettledStays DEF Read, devVars
<1> QED  BY <1>1, <1>3, <1>4, <1>6, <1>7 DEF IocInv

LEMMA ReadAsks ==
    ASSUME Typed, OneEach, NEW r \in {"ready", "circle", "slow"}, Read(r),
           NEW q \in {"ready", "circle", "slow"}, Ask(q)
    PROVE  chain = r /\ chain' = q /\ OneEach'
<1>1. /\ wire # <<>> /\ Head(wire).reg = r /\ wire' = Tail(wire) /\ regState' = regState
      /\ sending' = Append(sending, q) /\ chain' = q
    BY DEF Read, Ask
<1>2. /\ chain = r /\ Distinct'
      /\ \A i \in Flights' :
            \/ Flight(i)' = q
            \/ Flight(i)' \in {"keep", "tag"} /\ regState[Flight(i)'] # "idle"
    BY <1>1, ChainAsks
<1>3. regState["flip"] = "idle"  BY <1>2 DEF OneEach
<1>4. ASSUME NEW i \in Flights'
      PROVE  /\ Flight(i)' \in Written_ => regState'[Flight(i)'] # "idle"
             /\ Flight(i)' \in {"flip", "ready", "circle", "slow"} => chain' = Flight(i)'
    BY <1>1, <1>2 DEF Written_
<1>5. OneEach'  BY <1>1, <1>2, <1>3, <1>4 DEF OneEach
<1> QED  BY <1>1, <1>2, <1>5

LEMMA ReadReadyIoc ==
    ASSUME Typed, user = "ioc", IocInv, ReadReady PROVE IocInv'
<1>1. OneEach /\ Quiet  BY DEF IocInv
<1>2. Read("ready") /\ Ask(IF ready THEN "circle" ELSE "ready")
      /\ UNCHANGED <<ready, armed, memRx, slowRx, words, slow>>
    BY DEF ReadReady, Read, devVars
<1>3. CASE ready
    <2>1. OneEach' /\ chain = "ready" /\ chain' = "circle"  BY <1>1, <1>2, <1>3, ReadAsks
    <2>2. Quiet'  BY <1>1, <1>2, <1>3, <2>1 DEF Quiet
    <2> QED  BY <1>2, <2>1, <2>2, ReadIoc DEF Ask
<1>4. CASE ~ready
    <2>1. OneEach' /\ chain = "ready" /\ chain' = "ready"  BY <1>1, <1>2, <1>4, ReadAsks
    <2>2. Quiet'  BY <1>1, <1>2, <2>1 DEF Quiet
    <2> QED  BY <1>2, <2>1, <2>2, ReadIoc DEF Ask
<1> QED  BY <1>3, <1>4

LEMMA ReadCircleIoc ==
    ASSUME Typed, user = "ioc", IocInv, ReadCircle PROVE IocInv'
<1>1. OneEach /\ Quiet  BY DEF IocInv
<1>2. Read("circle") /\ Ask("slow") /\ memRx' = words /\ UNCHANGED <<armed, words>>
    BY DEF ReadCircle, Read, devVars
<1>3. OneEach' /\ chain = "circle" /\ chain' = "slow"  BY <1>1, <1>2, ReadAsks
<1>4. Quiet'  BY <1>1, <1>2, <1>3 DEF Quiet
<1> QED  BY <1>2, <1>3, <1>4, ReadIoc DEF Ask

LEMMA ReadSlowIoc ==
    ASSUME Typed, user = "ioc", IocInv, ReadSlow PROVE IocInv'
<1>1. OneEach /\ Quiet  BY DEF IocInv
<1>2. /\ Read("slow") /\ wire # <<>> /\ Head(wire).reg = "slow" /\ wire' = Tail(wire)
      /\ sending' = sending /\ regState' = regState
      /\ chain' = "copy" /\ slowRx' = slow /\ UNCHANGED <<armed, words, slow, memRx>>
    BY DEF ReadSlow, Read, devVars
<1>3. 1 \in Flights /\ Flight(1) = "slow"  BY <1>2, HeadFlight
<1>4. chain = "slow" /\ regState["flip"] = "idle"  BY <1>1, <1>3 DEF OneEach
<1>5. OneEach'
    <2>1. /\ Distinct'
          /\ \A i \in Flights' :
                \E j \in Flights : Flight(i)' = Flight(j) /\ Flight(j) # Head(wire).reg
        BY <1>1, <1>2, Answered DEF OneEach
    <2>2. ASSUME NEW i \in Flights'
          PROVE  /\ Flight(i)' \in Written_ => regState'[Flight(i)'] # "idle"
                 /\ Flight(i)' \in {"flip", "ready", "circle", "slow"} => chain' = Flight(i)'
        BY <1>1, <1>2, <1>4, <2>1 DEF OneEach
    <2> QED  BY <1>1, <1>2, <1>4, <2>1, <2>2 DEF OneEach
<1>6. Quiet'  BY <1>1, <1>2, <1>4 DEF Quiet
<1> QED  BY <1>2, <1>5, <1>6, ReadIoc

LEMMA CopyIoc ==
    ASSUME Typed, user = "ioc", IocInv, WordsOfBank, Copy
    PROVE  IocInv'
<1>1. OneEach /\ OnItsWay /\ Current /\ Configured /\ Quiet /\ Counted /\ SettledFor
    BY DEF IocInv
<1>2. /\ chain = "copy" /\ chain' = "off" /\ slowRaw' = slowRx
      /\ wf' = [ch \in Channels |-> IF config[ch] = -1 THEN wf[ch]
                                    ELSE Slice(memRx, Size, offset[ch], step[ch], size[ch], Size)]
    BY DEF Copy
<1>3. memRx = words /\ slowRx = slow /\ ~armed  BY <1>1, <1>2 DEF Quiet
<1>4. UNCHANGED <<wire, sending, regState, mask, tagRbv, keep>>  BY DEF Copy, devVars
<1>5. OneEach'
    <2>1. Flights' = Flights /\ \A i \in Flights : Flight(i)' = Flight(i)
        BY <1>4 DEF Flights, Flight
    <2>2. \A i \in Flights : Flight(i) \notin {"flip", "ready", "circle", "slow"}
        BY <1>1, <1>2 DEF OneEach
    <2>3. Distinct'  BY <1>1, <2>1 DEF OneEach, Distinct
    <2> QED  BY <1>1, <1>2, <1>4, <2>1, <2>2, <2>3 DEF OneEach
<1>6. Current'  BY <1>1, <1>4 DEF Current
<1>7. Configured' /\ Counted'
    <2>1. tags < TagMod => slowRaw'.old <= tags  BY <1>1, <1>2, <1>3 DEF Counted
    <2> QED  BY <1>1, <2>1 DEF Copy, devVars, Configured, Counted
<1>8. Quiet'  BY <1>2, <1>3 DEF Copy, devVars, Quiet
<1>9. SettledFor'
    <2> DEFINE Settled == tags > 0 /\ puts = asked /\ ~overtakes /\ ~inUse
    <2>1. ASSUME Settled, slow.old = tagRbv, NEW ch \in Selected(mask) \ late
          PROVE  /\ Len(wf'[ch]) = Cardinality({i \in 0 .. SliceEnd(Size, size[ch]) - 1 :
                                                   ChannelOf(mask, i) = ch})
                 /\ \A k \in 1 .. Len(wf'[ch]) :
                       wf'[ch][k] = [channel |-> ch, acq |-> slow.acq]
        <3>1. ch \notin changed /\ \A i \in 0 .. Size - 1 : words[i].channel = ChannelOf(mask, i)
            BY <1>1, <2>1 DEF SettledFor
        <3>2. mask \in Masks /\ words \in Memory /\ ch \in Channels /\ mask \in SUBSET Channels
            BY AcquisitionAssumption DEF Typed, DevTyped, IocTyped, Selected
        <3>3. /\ config[ch] = SplitBits(mask, NChannels)[ch]
              /\ offset[ch] = SplitBits(mask, NChannels)[ch]
              /\ step[ch] = CountBits(mask, NChannels)
            BY <1>1, <3>1, <3>2 DEF Configured
        <3>4. SplitBits(mask, NChannels)[ch] # -1
            <4>1. SplitBits(mask, NChannels)[ch] \in 0 .. CountBits(mask, NChannels) - 1
                BY <3>2, SelectedCounted, Zenon
            <4> QED  BY <4>1
        <3>5. PICK g \in Nat : g = size[ch]  BY <3>2 DEF Typed, IocTyped
        <3> DEFINE w == Slice(words, Size, SplitBits(mask, NChannels)[ch],
                              CountBits(mask, NChannels), g, Size)
                   E == SliceEnd(Size, g)
        <3>6. wf'[ch] = w  BY <1>2, <1>3, <3>2, <3>3, <3>4, <3>5
        <3>7. /\ Len(w) = Cardinality(ItsWords(mask, ch, E))
              /\ \A k \in 1 .. Len(w) :
                    \E i \in 0 .. Size - 1 : w[k] = words[i] /\ words[i].channel = ch
            <4>1. ch \in Selected(mask)  OBVIOUS
            <4>2. TakesChannel(words, mask, ch, g)  BY <3>1, <3>2, <4>1, WholeChannel
            <4> QED  BY <4>2 DEF TakesChannel
        <3> HIDE DEF w, E
        <3>8. ASSUME NEW k \in 1 .. Len(w) PROVE w[k] = [channel |-> ch, acq |-> slow.acq]
            <4>1. PICK i \in 0 .. Size - 1 : w[k] = words[i] /\ words[i].channel = ch  BY <3>7
            <4>2. words[i].acq = slow.acq  BY DEF WordsOfBank
            <4>3. words[i] \in Words  BY <3>2 DEF Memory
            <4> QED  BY <4>1, <4>2, <4>3 DEF Words
        <3> QED  BY <3>5, <3>6, <3>7, <3>8 DEF E, ItsWords
    <2>2. UNCHANGED <<puts, tags, keep, tag, bank, words, slow, mask, tagRbv, changed, size,
                      regState, incremented>>
        BY DEF Copy, devVars
    <2>3. KeepFirst => KeepFirst'  BY <1>4 DEF KeepFirst, Flights, Flight
    <2>4. ASSUME Settled, slowRaw'.old = tagRbv, NEW ch \in Selected(mask) \ late
          PROVE  Reflects(ch, SliceEnd(Size, size[ch]))'
        <3>1. slow.old = tagRbv /\ slowRaw'.acq = slow.acq
            BY <1>2, <1>3, <2>4
        <3> QED  BY <2>1, <2>2, <2>4, <3>1 DEF Reflects
    <2> QED  BY <1>1, <2>2, <2>3, <2>4 DEF SettledFor
<1>10. OnItsWay'
    <2>1. Underway => Underway'  BY <1>4 DEF Underway, Flights, Flight
    <2> QED  BY <1>1, <1>4, <2>1 DEF OnItsWay
<1> QED  BY <1>5, <1>6, <1>7, <1>8, <1>9, <1>10 DEF IocInv

\* What a write adds to the flights.
LEMMA QueueFlights ==
    ASSUME Typed, OneEach, NEW r \in Written_, QueueWrite(r), wire' = wire
    PROVE  /\ Distinct'
           /\ \A i \in Flights' :
                 \/ Flight(i)' = r
                 \/ \E j \in Flights : Flight(i)' = Flight(j)
           /\ \A q \in Written_ \ {r} : regState'[q] = regState[q]
           /\ regState'[r] = IF regState[r] = "idle" THEN "writing" ELSE "queued"
           /\ regState[r] = "idle" => \A i \in Flights : Flight(i) # r
           /\ (Underway => Underway') /\ (KeepFirst => KeepFirst')
<1>1. regState \in [Written_ -> {"idle", "writing", "queued"}]  BY DEF Typed, IocTyped
<1>2. \A q \in Written_ \ {r} : regState'[q] = regState[q]  BY <1>1 DEF QueueWrite
<1>3. regState'[r] = IF regState[r] = "idle" THEN "writing" ELSE "queued"
    BY <1>1 DEF QueueWrite
<1>4. regState[r] = "idle" => \A i \in Flights : Flight(i) # r  BY DEF OneEach
<1>5. (Underway => Underway') /\ (KeepFirst => KeepFirst')
    <2>1. sending' = sending \/ \E q : sending' = Append(sending, q)  BY DEF QueueWrite
    <2>2. 0 \in 0 .. 1 /\ 0 # 1  OBVIOUS
    <2> QED  BY <2>1, <2>2, KeepStays
<1>6. CASE regState[r] = "idle"
    <2>1. sending' = Append(sending, r)  BY <1>6 DEF QueueWrite
    <2>2. /\ Distinct'
          /\ \A i \in Flights' :
                \/ Flight(i)' = r
                \/ \E j \in Flights : Flight(i)' = Flight(j)
        BY <1>4, <1>6, <2>1, Added DEF OneEach
    <2> QED  BY <1>2, <1>3, <1>4, <1>5, <2>2
<1>7. CASE regState[r] # "idle"
    <2>1. sending' = sending  BY <1>7 DEF QueueWrite
    <2>2. Flights' = Flights /\ \A i \in Flights : Flight(i)' = Flight(i)
        BY <2>1 DEF Flights, Flight
    <2>3. Distinct'  BY <2>2 DEF OneEach, Distinct
    <2> QED  BY <1>2, <1>3, <1>4, <1>5, <2>2, <2>3
<1> QED  BY <1>6, <1>7

LEMMA CommandIoc ==
    ASSUME Typed, user = "ioc", IocInv, Command PROVE IocInv'
<1>1. OneEach /\ OnItsWay /\ Current /\ Configured /\ Quiet /\ Counted /\ SettledFor
    BY DEF IocInv
<1>2. /\ chain = "off" /\ chain' = "flip" /\ QueueWrite("flip") /\ wire' = wire
      /\ UNCHANGED <<mask, tagRbv, keep>>
    BY DEF Command, devVars
<1>3. /\ Distinct'
      /\ \A i \in Flights' :
            \/ Flight(i)' = "flip"
            \/ \E j \in Flights : Flight(i)' = Flight(j)
      /\ \A q \in Written_ \ {"flip"} : regState'[q] = regState[q]
      /\ regState'["flip"] = IF regState["flip"] = "idle" THEN "writing" ELSE "queued"
      /\ (Underway => Underway') /\ (KeepFirst => KeepFirst')
    BY <1>1, <1>2, QueueFlights DEF Written_
<1>4. regState'["flip"] = "writing"  BY <1>1, <1>2, <1>3 DEF OneEach
<1>5. regState'["keep"] = regState["keep"] /\ regState'["tag"] = regState["tag"]
    BY <1>3 DEF Written_
<1>6. OneEach'
    <2>1. ASSUME NEW i \in Flights'
          PROVE  /\ Flight(i)' \in Written_ => regState'[Flight(i)'] # "idle"
                 /\ Flight(i)' \in {"flip", "ready", "circle", "slow"} => chain' = Flight(i)'
        <3>1. CASE Flight(i)' = "flip"  BY <1>2, <1>4, <3>1
        <3>2. ASSUME NEW j \in Flights, Flight(i)' = Flight(j), Flight(i)' # "flip"
              PROVE  /\ Flight(i)' \in Written_ => regState'[Flight(i)'] # "idle"
                     /\ Flight(i)' \in {"flip", "ready", "circle", "slow"} => chain' = Flight(i)'
            BY <1>1, <1>2, <1>3, <3>2 DEF OneEach
        <3> QED  BY <1>3, <3>1, <3>2
    <2> QED  BY <1>1, <1>2, <1>3, <1>4, <1>5, <2>1 DEF OneEach
<1>7. Current'  BY <1>1, <1>2, <1>5 DEF Current
<1>8. Quiet'  BY <1>1, <1>2 DEF Command, devVars, Quiet
<1>9. Configured' /\ Counted'  BY <1>1 DEF Command, devVars, Configured, Counted
<1>10. OnItsWay'  BY <1>1, <1>3, <1>5 DEF OnItsWay
<1>11. SettledFor'  BY <1>1, <1>3, <1>5, SettledStays DEF Command, devVars
<1> QED  BY <1>6, <1>7, <1>8, <1>9, <1>10, <1>11 DEF IocInv

LEMMA PutMaskIoc ==
    ASSUME Typed, user = "ioc", IocInv, NEW m \in Masks, PutMask(m) PROVE IocInv'
<1>1. OneEach /\ OnItsWay /\ Current /\ Configured /\ Quiet /\ Counted /\ SettledFor
    BY DEF IocInv
<1>2. /\ QueueWrite("keep") /\ wire' = wire /\ mask' = m /\ puts' = puts + 1 /\ changed' = Channels
      /\ UNCHANGED <<chain, tagRbv, keep, asked, tags>>
    BY DEF PutMask, devVars
<1>3. /\ Distinct'
      /\ \A i \in Flights' :
            \/ Flight(i)' = "keep"
            \/ \E j \in Flights : Flight(i)' = Flight(j)
      /\ \A q \in Written_ \ {"keep"} : regState'[q] = regState[q]
      /\ regState'["keep"] = IF regState["keep"] = "idle" THEN "writing" ELSE "queued"
      /\ regState["keep"] = "idle" => \A i \in Flights : Flight(i) # "keep"
      /\ Underway => Underway'
    BY <1>1, <1>2, QueueFlights DEF Written_
<1>4. regState'["keep"] # "idle"  BY <1>3
<1>5. regState'["flip"] = regState["flip"] /\ regState'["tag"] = regState["tag"]
    BY <1>3 DEF Written_
<1>6. OneEach'
    <2>1. ASSUME NEW i \in Flights'
          PROVE  /\ Flight(i)' \in Written_ => regState'[Flight(i)'] # "idle"
                 /\ Flight(i)' \in {"flip", "ready", "circle", "slow"} => chain' = Flight(i)'
        <3>1. CASE Flight(i)' = "keep"  BY <1>4, <3>1
        <3>2. ASSUME NEW j \in Flights, Flight(i)' = Flight(j), Flight(i)' # "keep"
              PROVE  /\ Flight(i)' \in Written_ => regState'[Flight(i)'] # "idle"
                     /\ Flight(i)' \in {"flip", "ready", "circle", "slow"} => chain' = Flight(i)'
            BY <1>1, <1>2, <1>3, <3>2 DEF OneEach
        <3> QED  BY <1>3, <3>1, <3>2
    <2> QED  BY <1>1, <1>2, <1>3, <1>5, <2>1 DEF OneEach
<1>7. Current'
    <2>1. ASSUME NEW i \in 1 .. Len(wire), wire[i].reg = "keep" PROVE regState'["keep"] = "queued"
        <3>1. wire # <<>>
            <4>1. wire \in Seq(Messages)  BY DEF Typed, IocTyped
            <4> QED  BY <4>1
        <3>2. i \in Flights /\ Flight(i) = "keep"  BY <2>1, <3>1, HeadFlight
        <3> QED  BY <1>3, <3>2
    <2>2. ASSUME NEW i \in 1 .. Len(wire'), wire'[i].reg = "keep" PROVE regState'["keep"] = "queued"
        BY <1>2, <2>1, <2>2
    <2>3. \A i \in 1 .. Len(wire') : wire'[i].reg = "tag" => wire'[i].value = tagRbv'
        BY <1>1, <1>2 DEF Current
    <2> QED  BY <1>4, <2>2, <2>3 DEF Current
<1>8. Configured'  BY <1>2 DEF Configured
<1>9. Quiet' /\ Counted'  BY <1>1 DEF PutMask, devVars, Quiet, Counted
<1>10. SettledFor'
    <2>1. asked <= puts /\ asked \in Nat /\ puts \in Nat
        BY <1>1 DEF SettledFor, Typed, CountsTyped, IocTyped
    <2>2. asked' <= puts' /\ puts' # asked'  BY <1>2, <2>1
    <2> QED  BY <2>2 DEF SettledFor
<1>11. OnItsWay'
    <2>1. CASE regState["keep"] = "idle"
        <3>1. sending' = Append(sending, "keep")  BY <1>2, <2>1 DEF QueueWrite
        <3>2. wire \in Seq(Messages)  BY DEF Typed, IocTyped
        <3>3. Len(wire') \in Nat  BY <1>2, <3>2
        <3>4. \E n \in Flights' : Flight(n)' = "keep"  BY <3>1, <3>3, LastFlight
        <3> QED  BY <3>4 DEF OnItsWay, Underway
    <2>2. CASE regState["keep"] # "idle"  BY <1>1, <1>3, <2>2 DEF OnItsWay
    <2> QED  BY <2>1, <2>2
<1> QED  BY <1>6, <1>7, <1>8, <1>9, <1>10, <1>11 DEF IocInv

LEMMA ConfigureIoc ==
    ASSUME Typed, user = "ioc", IocInv, NEW ch \in Channels, Configure(ch) PROVE IocInv'
<1>1. OneEach /\ OnItsWay /\ Current /\ Configured /\ Quiet /\ Counted /\ SettledFor
    BY DEF IocInv
<1> DEFINE slot == SplitBits(mask, NChannels)[ch]
           count == CountBits(mask, NChannels)
<1>2. /\ ch \in changed /\ changed' = changed \ {ch} /\ mask' = mask
      /\ config' = [config EXCEPT ![ch] = slot]
      /\ offset' = IF slot >= 0 THEN [offset EXCEPT ![ch] = slot] ELSE offset
      /\ step' = IF slot >= 0 /\ count > 0 THEN [step EXCEPT ![ch] = count] ELSE step
    BY DEF Configure
<1>3. config \in [Channels -> Int] /\ offset \in [Channels -> Nat] 
      /\ step \in [Channels -> Nat \ {0}] /\ mask \in Masks
    BY DEF Typed, IocTyped
<1>4. count \in Nat \ {0} /\ mask \in SUBSET Channels  BY <1>3, SomeSelected
<1>5. ch \in Selected(mask) => slot >= 0
    <2> SUFFICES ASSUME ch \in Selected(mask) PROVE slot >= 0  OBVIOUS
    <2>1. slot \in 0 .. count - 1  BY <1>4, SelectedCounted, Zenon
    <2> HIDE DEF slot
    <2> QED  BY <1>4, <2>1
<1> HIDE DEF slot, count
<1>6. config'[ch] = slot /\ (ch \in Selected(mask) => offset'[ch] = slot /\ step'[ch] = count)
    BY <1>2, <1>3, <1>4, <1>5
<1>7. \A c \in Channels \ {ch} :
          config'[c] = config[c] /\ offset'[c] = offset[c] /\ step'[c] = step[c]
    BY <1>2, <1>3
<1>8. Configured'
    <2>1. ASSUME NEW c \in Channels \ changed'
          PROVE  /\ config'[c] = SplitBits(mask, NChannels)[c]
                 /\ c \in Selected(mask) =>
                       /\ offset'[c] = SplitBits(mask, NChannels)[c]
                       /\ step'[c] = CountBits(mask, NChannels)
        <3>1. CASE c = ch  BY <1>6, <3>1 DEF slot, count
        <3>2. CASE c # ch
            <4>1. c \in Channels \ changed  BY <1>2, <3>2
            <4> QED  BY <1>1, <1>7, <3>2, <4>1 DEF Configured
        <3> QED  BY <3>1, <3>2
    <2> QED  BY <1>2, <2>1 DEF Configured
<1>9. OneEach' /\ Current'
    BY <1>1 DEF Configure, devVars, OneEach, Distinct, Flights, Flight, Current
<1>10. Quiet' /\ Counted'  BY <1>1 DEF Configure, devVars, Quiet, Counted
<1>11. (Underway => Underway') /\ (KeepFirst => KeepFirst')
    BY DEF Configure, Underway, KeepFirst, Flights, Flight
<1>12. OnItsWay'  BY <1>1, <1>11 DEF Configure, OnItsWay
<1>13. SettledFor'
    <2>1. changed' \subseteq changed  BY <1>2
    <2>2. UNCHANGED <<puts, tags, keep, tag, bank, words, slow, mask, tagRbv, regState, size, wf,
                      slowRaw, incremented>>
        BY DEF Configure, devVars
    <2> QED  BY <1>1, <1>11, <2>1, <2>2 DEF SettledFor, Reflects
<1> QED  BY <1>8, <1>9, <1>10, <1>12, <1>13 DEF IocInv

LEMMA IncrementTagIoc ==
    ASSUME Typed, user = "ioc", IocInv, IncrementTag PROVE IocInv'
<1>1. OneEach /\ OnItsWay /\ Current /\ Configured /\ Quiet /\ Counted /\ SettledFor
    BY DEF IocInv
<1>2. /\ regState["tag"] = "idle" /\ QueueWrite("tag")
      /\ tags' = tags + 1 /\ tagRbv' = NextTag(tagRbv) /\ asked' = puts
      /\ overtakes' = (regState["keep"] = "queued") /\ late' = changed
      /\ inUse' = (tagRbv' \in {tag, bank.tag, slow.old, slowRaw.old})
      /\ UNCHANGED <<mask, chain, keep, tag, bank, slow, words, slowRaw, changed, puts, wire>>
    BY DEF IncrementTag, devVars
<1>3. /\ Distinct'
      /\ \A i \in Flights' :
            \/ Flight(i)' = "tag"
            \/ \E j \in Flights : Flight(i)' = Flight(j)
      /\ \A q \in Written_ \ {"tag"} : regState'[q] = regState[q]
      /\ regState'["tag"] = IF regState["tag"] = "idle" THEN "writing" ELSE "queued"
      /\ regState["tag"] = "idle" => \A i \in Flights : Flight(i) # "tag"
      /\ Underway => Underway'
    BY <1>1, <1>2, QueueFlights DEF Written_
<1>4. regState'["tag"] = "writing"  BY <1>2, <1>3
<1>5. regState'["flip"] = regState["flip"] /\ regState'["keep"] = regState["keep"]
    BY <1>3 DEF Written_
<1>6. OneEach'
    <2>1. ASSUME NEW i \in Flights'
          PROVE  /\ Flight(i)' \in Written_ => regState'[Flight(i)'] # "idle"
                 /\ Flight(i)' \in {"flip", "ready", "circle", "slow"} => chain' = Flight(i)'
        <3>1. CASE Flight(i)' = "tag"  BY <1>4, <3>1
        <3>2. ASSUME NEW j \in Flights, Flight(i)' = Flight(j), Flight(i)' # "tag"
              PROVE  /\ Flight(i)' \in Written_ => regState'[Flight(i)'] # "idle"
                     /\ Flight(i)' \in {"flip", "ready", "circle", "slow"} => chain' = Flight(i)'
            BY <1>1, <1>2, <1>3, <3>2 DEF OneEach
        <3> QED  BY <1>3, <3>1, <3>2
    <2> QED  BY <1>1, <1>2, <1>3, <1>4, <1>5, <2>1 DEF OneEach
<1>7. Current'
    <2>1. ASSUME NEW i \in 1 .. Len(wire) PROVE wire[i].reg # "tag"
        <3>1. wire # <<>>
            <4>1. wire \in Seq(Messages)  BY DEF Typed, IocTyped
            <4> QED  BY <4>1
        <3> QED  BY <1>2, <1>3, <3>1, HeadFlight
    <2> QED  BY <1>1, <1>2, <1>5, <2>1 DEF Current
<1>8. Configured' /\ Quiet'
    BY <1>1 DEF IncrementTag, devVars, Configured, Quiet
<1>9. /\ tags \in Nat /\ TagMod \in Nat \ {0} /\ tag \in Nat /\ bank.tag \in Nat
      /\ slow.old \in Nat /\ slowRaw.old \in Nat
    BY AcquisitionAssumption DEF Typed, CountsTyped, DevTyped, IocTyped, SlowData, Tags
<1>10. Counted'
    <2>1. ASSUME tags + 1 < TagMod PROVE tagRbv' = tags + 1
        <3>1. tags + 1 \in 0 .. TagMod - 1  BY <1>9, <2>1
        <3>2. (0 * TagMod + (tags + 1)) % TagMod = tags + 1  BY <1>9, <3>1, Divided
        <3>3. 0 * TagMod + (tags + 1) = tags + 1  BY <1>9
        <3>4. tagRbv = tags  BY <1>1, <1>9, <2>1 DEF Counted
        <3> QED  BY <1>2, <3>2, <3>3, <3>4 DEF NextTag
    <2>2. ASSUME tags + 1 < TagMod
          PROVE  /\ tag <= tags /\ bank.tag <= tags /\ slow.old <= tags /\ slowRaw.old <= tags
                 /\ tagRbv' \notin {tag, bank.tag, slow.old, slowRaw.old}
        <3>1. tag <= tags /\ bank.tag <= tags /\ slow.old <= tags /\ slowRaw.old <= tags
            BY <1>1, <1>9, <2>2 DEF Counted
        <3> QED  BY <1>9, <2>1, <2>2, <3>1
    <2>3. inUse' => ~(tags + 1 < TagMod)  BY <1>2, <2>2
    <2> QED  BY <1>2, <1>9, <2>1, <2>2, <2>3 DEF Counted
<1>11. OnItsWay'  BY <1>1, <1>3, <1>5 DEF OnItsWay
<1>12. regState["keep"] # "idle" => KeepFirst'
    <2> SUFFICES ASSUME regState["keep"] # "idle" PROVE KeepFirst'  OBVIOUS
    <2>1. PICK i \in Flights : Flight(i) = "keep"  BY <1>1 DEF OnItsWay, Underway
    <2>2. wire \in Seq(Messages) /\ sending \in Seq(Registers_)  BY DEF Typed, IocTyped
    <2>3. Len(wire') \in Nat /\ Len(wire') = Len(wire) /\ Len(sending) \in Nat  BY <1>2, <2>2
    <2>4. sending' = Append(sending, "tag")  BY <1>2 DEF QueueWrite
    <2>5. PICK n \in Flights' : Flight(n)' = "tag" /\ n = Len(wire') + Len(sending) + 1
        BY <2>3, <2>4, LastFlight
    <2>6. i - 0 \in Flights' /\ Flight(i - 0)' = Flight(i) /\ i - 0 = i
        <3>1. 0 \in 0 .. 1 /\ 0 # 1 /\ i > 0 /\ i - 0 = i  BY DEF Flights
        <3> QED  BY <1>2, <2>4, <3>1, FlightsShift
    <2>7. i \in Flights' /\ Flight(i)' = "keep"  BY <2>1, <2>6
    <2>8. i < n  BY <2>3, <2>5 DEF Flights
    <2> QED  BY <2>5, <2>7, <2>8 DEF KeepFirst
<1>13. SettledFor'
    <2>1. puts \in Nat  BY DEF Typed, CountsTyped
    <2>2. ~inUse' => tag' # tagRbv' /\ bank'.tag # tagRbv' /\ slow'.old # tagRbv'
                     /\ slowRaw'.old # tagRbv'
        BY <1>2
    <2>3. ~overtakes' => regState'["keep"] # "queued" /\ (keep' = mask' \/ KeepFirst')
        BY <1>1, <1>2, <1>5, <1>12 DEF Current
    <2> QED  BY <1>2, <2>1, <2>2, <2>3 DEF SettledFor
<1> QED  BY <1>6, <1>7, <1>8, <1>10, <1>11, <1>13 DEF IocInv

LEMMA FillIoc ==
    ASSUME Typed, user = "ioc", IocInv, Fill PROVE IocInv'
<1>1. OneEach /\ OnItsWay /\ Current /\ Configured /\ Quiet /\ Counted /\ SettledFor
    BY DEF IocInv
<1> DEFINE m(i) == IF i < Size \div 2 THEN bank.keep ELSE keep
<1>2. /\ armed /\ ~armed'
      /\ words' = [i \in 0 .. Size - 1 |-> [channel |-> ChannelOf(m(i), i), acq |-> bank.number]]
      /\ bank' = [number |-> bank.number + 1, keep |-> keep, tag |-> tag]
      /\ slow' = [old |-> bank.tag, new |-> tag, acq |-> bank.number]
      /\ UNCHANGED <<user, puts, tags, keep, tag, iocVars, rawVars>>
    BY DEF Fill
<1>3. OneEach' /\ OnItsWay' /\ Current' /\ Configured'
    <2> HIDE DEF m
    <2> QED  BY <1>1, <1>2 DEF iocVars, OneEach, OnItsWay, Underway, Distinct, Flights, Flight,
                               Current, Configured
<1>4. Quiet'
    <2> HIDE DEF m
    <2> QED  BY <1>1, <1>2 DEF iocVars, Quiet
<1>5. Counted'
    <2> HIDE DEF m
    <2> QED  BY <1>1, <1>2 DEF iocVars, Counted
<1>6. SettledFor'
    <2> DEFINE Settled == tags > 0 /\ puts = asked /\ ~overtakes /\ ~inUse
    <2>1. ASSUME Settled, bank.tag = tagRbv, NEW i \in 0 .. Size - 1
          PROVE  words'[i].channel = ChannelOf(mask, i)
        <3>1. bank.keep = mask /\ keep = mask  BY <1>1, <2>1 DEF SettledFor
        <3>2. m(i) = mask  BY <3>1
        <3> HIDE DEF m
        <3> QED  BY <1>2, <3>2
    <2>2. Settled /\ bank'.tag = tagRbv => tag = tagRbv /\ bank'.keep = mask
        BY <1>1, <1>2 DEF SettledFor
    <2>3. slow'.old = bank.tag  BY <1>2
    <2>4. UNCHANGED <<puts, tags, keep, tag, regState, changed, mask, tagRbv, slowRaw, wf, size,
                      incremented>>
        BY <1>2 DEF iocVars
    <2>5. KeepFirst => KeepFirst'  BY <1>2 DEF iocVars, KeepFirst, Flights, Flight
    <2> HIDE DEF m
    <2> QED  BY <1>1, <2>1, <2>2, <2>3, <2>4, <2>5 DEF SettledFor, Reflects
<1> QED  BY <1>3, <1>4, <1>5, <1>6 DEF IocInv

LEMMA InitReflect ==
    ASSUME Init PROVE ReflectInv
<1>1. Typed  BY InitTyped
<1>2. OneUser /\ WordsOfBank  BY InitOrdered, InitKept DEF Ordered
<1>4. ASSUME user = "ioc"
      PROVE  OneEach /\ OnItsWay /\ Current /\ Configured /\ Quiet /\ Counted /\ SettledFor
    <2>1. sending = <<>> /\ wire = <<>>  BY DEF Init
    <2>2. Flights = {}  BY <2>1 DEF Flights
    <2>3. OneEach  BY <2>2 DEF Init, OneEach, Distinct
    <2>4. Current  BY <2>1 DEF Init, Current
    <2>5. Configured
        <3>1. ASSUME NEW ch \in Selected(mask)
              PROVE  SplitBits(mask, NChannels)[ch] >= 0
            <4>1. mask \in Masks  BY DEF Init
            <4>2. mask \in SUBSET Channels /\ CountBits(mask, NChannels) \in Nat \ {0}
                BY <4>1, SomeSelected
            <4>3. SplitBits(mask, NChannels)[ch] \in 0 .. CountBits(mask, NChannels) - 1
                BY <4>2, SelectedCounted, Zenon
            <4> QED  BY <4>2, <4>3
        <3> QED  BY <3>1 DEF Init, Configured
    <2>6. Quiet  BY DEF Init, Quiet
    <2>7. Counted  BY <1>4, AcquisitionAssumption DEF Init, Counted
    <2>8. SettledFor  BY DEF Init, SettledFor
    <2>9. OnItsWay  BY DEF Init, OnItsWay
    <2> QED  BY <2>3, <2>4, <2>5, <2>6, <2>7, <2>8, <2>9
<1> QED  BY <1>1, <1>2, <1>4 DEF ReflectInv, IocInv

\* A user that is not the other stays so.
LEMMA OneUserStays ==
    ASSUME Typed, OneUser, [Next]_vars PROVE OneUser' /\ (user' = user)
<1>1. CASE Fill  BY <1>1 DEF Fill, iocVars, rawVars, OneUser
<1>2. CASE Ioc
    <2>1. user = "ioc" /\ user' = user /\ at' = at /\ reused' = reused  BY <1>2, IocUser DEF rawVars
    <2> QED  BY <2>1 DEF OneUser
<1>3. ASSUME NEW c \in Clients, Client(c) PROVE OneUser' /\ user' = user
    <2>1. user = "raw" /\ UNCHANGED <<user, iocVars>>  BY <1>3, OthersStay, Zenon
    <2> QED  BY <2>1 DEF iocVars, OneUser
<1>4. CASE UNCHANGED vars  BY <1>4 DEF vars, iocVars, rawVars, OneUser
<1> QED  BY <1>1, <1>2, <1>3, <1>4 DEF Next

LEMMA IocStepReflect ==
    ASSUME ReflectInv, Ioc PROVE IocInv'
<1>1. Typed /\ OneUser /\ WordsOfBank /\ IocInv  BY DEF ReflectInv
<1>2. user = "ioc"  BY <1>1, IocUser
<1> QED  BY <1>1, <1>2, SendIoc, WrittenKeepIoc, WrittenTagIoc, WrittenFlipIoc, ReadReadyIoc,
            ReadCircleIoc, ReadSlowIoc, CopyIoc, CommandIoc, PutMaskIoc, ConfigureIoc,
            IncrementTagIoc DEF Ioc

LEMMA ReflectInvHolds == Spec => []ReflectInv
<1>1. Init => ReflectInv  BY InitReflect
<1>2. ASSUME ReflectInv, [Next]_vars PROVE ReflectInv'
    <2>1. Typed /\ OneUser /\ WordsOfBank /\ IocInv  BY <1>2 DEF ReflectInv
    <2>2. Typed' /\ OneUser' /\ user' = user  BY <1>2, <2>1, NextTyped, OneUserStays
    <2>3. CASE Fill
        <3>1. WordsOfBank'  BY <2>3 DEF Fill, WordsOfBank
        <3>2. IocInv'
            <4>1. CASE user = "ioc"  BY <2>1, <2>3, <4>1, FillIoc
            <4>2. CASE user # "ioc"  BY <2>2, <4>2 DEF IocInv
            <4> QED  BY <4>1, <4>2
        <3> QED  BY <2>2, <3>1, <3>2 DEF ReflectInv
    <2>4. CASE Ioc
        <3>1. WordsOfBank'
            <4>1. UNCHANGED <<words, slow>>  BY <2>1, <2>4, IocUser
            <4> QED  BY <2>1, <4>1 DEF WordsOfBank
        <3>2. IocInv'  BY <1>2, <2>4, IocStepReflect
        <3> QED  BY <2>2, <3>1, <3>2 DEF ReflectInv
    <2>5. ASSUME NEW c \in Clients, Client(c) PROVE ReflectInv'
        <3>1. user = "raw" /\ UNCHANGED <<words, slow>>  BY <2>1, <2>5, OthersStay
        <3>2. WordsOfBank'  BY <2>1, <3>1 DEF WordsOfBank
        <3>3. IocInv'  BY <2>2, <3>1 DEF IocInv
        <3> QED  BY <2>2, <3>2, <3>3 DEF ReflectInv
    <2>6. CASE UNCHANGED vars
        <3>1. UNCHANGED <<devVars, iocVars, user, puts, tags>>  BY <2>6 DEF vars
        <3>2. WordsOfBank'  BY <2>1, <3>1 DEF WordsOfBank, devVars
        <3>3. IocInv'
            <4>1. CASE user = "ioc"
                <5>1. OneEach /\ OnItsWay /\ Current /\ Configured /\ Quiet /\ Counted /\ SettledFor
                    BY <2>1, <4>1 DEF IocInv
                <5>2. OneEach'  BY <3>1, <5>1 DEF iocVars, OneEach, Distinct, Flights, Flight
                <5>3. OnItsWay' /\ (KeepFirst => KeepFirst')
                    BY <3>1, <5>1 DEF iocVars, OnItsWay, Underway, KeepFirst, Flights, Flight
                <5>4. Current' /\ Configured'
                    BY <3>1, <5>1 DEF devVars, iocVars, Current, Configured
                <5>5. Quiet' /\ Counted'  BY <3>1, <5>1 DEF devVars, iocVars, Quiet, Counted
                <5>6. SettledFor'  BY <3>1, <5>1, <5>3, SettledStays DEF devVars, iocVars
                <5> QED  BY <5>2, <5>3, <5>4, <5>5, <5>6 DEF IocInv
            <4>2. CASE user # "ioc"  BY <2>2, <4>2 DEF IocInv
            <4> QED  BY <4>1, <4>2
        <3> QED  BY <2>2, <3>2, <3>3 DEF ReflectInv
    <2> QED  BY <1>2, <2>3, <2>4, <2>5, <2>6 DEF Next
<1> QED  BY <1>1, <1>2, PTL DEF Spec

\* Once SLOWRAW has the tag that was incremented after the last change, each WF record
\* of a channel whose CONFIG_ had seen the mask by then holds all samples of its channel
\* up to the size it was left with, from that acquisition and no other (ca.py), unless
\* the tag was in use, or the increment overtook the mask.
THEOREM ReflectsSettingsHold == Spec => []ReflectsSettings
<1>1. ReflectInv => ReflectsSettings
    BY DEF ReflectInv, IocInv, SettledFor, TagShown, ReflectsSettings
<1> QED  BY <1>1, ReflectInvHolds, PTL

\* A user chooses a tag that is in use only when the tags have come round, or, among
\* clients, when one has set the tag back (TAGINC_CMD, raw.py).
THEOREM TagsFreshHold == Spec => []TagsFresh
<1>1. ASSUME ReflectInv, OwnInv PROVE TagsFresh
    <2>1. user \in {"ioc", "raw"}  BY <1>1 DEF OwnInv, Typed, CountsTyped
    <2>2. CASE user = "ioc"
        <3>1. reused = {}  BY <1>1, <2>2 DEF ReflectInv, OneUser
        <3>2. inUse => tags >= TagMod  BY <1>1, <2>2 DEF ReflectInv, IocInv, Counted
        <3> QED  BY <3>1, <3>2 DEF TagsFresh
    <2>3. CASE user = "raw"
        <3>1. ~inUse  BY <1>1, <2>3 DEF ReflectInv, OneUser
        <3>2. reused # {} => setBack \/ tags + 1 >= TagMod
            BY <1>1, <2>3 DEF OwnInv, Ordered, TagsGrow
        <3> QED  BY <3>1, <3>2 DEF TagsFresh
    <2> QED  BY <2>1, <2>2, <2>3
<1> QED  BY <1>1, ReflectInvHolds, OwnInvHolds, PTL
=============================================================================
