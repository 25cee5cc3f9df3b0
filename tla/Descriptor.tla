----------------------------- MODULE Descriptor -----------------------------
(***************************************************************************)
(* What a device says of itself: the image of its ROM, which prepare()     *)
(* writes and parse() reads (rom.cpp), and the JSON text in it, which      *)
(* yajl takes apart into the calls of jblob.cpp.                           *)
(*                                                                         *)
(* A word of the image is its four bytes.  A text is a sequence of bytes,  *)
(* a BigInt one of hexadecimal digits.  Compression (zlib) is a prefix     *)
(* that says how much follows.                                             *)
(***************************************************************************)
EXTENDS Integers, Sequences, FiniteSets, SequencesExt

CONSTANTS
    Images,       \* lists of descriptors to write, each [type, value]
    RomSize,      \* words of the image
    SizeLimit,    \* 0x4000, the number of words that a header cannot hold
    OldWords,     \* what a word of the image holds before
    RegNames, Meta,      \* keys of the document; Meta is "__metadata__"
    Ints, Strings,       \* values
    AddrSize,            \* 2^24, one past the last address
    WordSize,            \* 2^32: an address, or an int32, has 32 bits
    IntOf(_), NoInt,     \* the integer a string stands for, or NoInt
    Letters(_),          \* the letters in a string
    MaxEvents            \* bound: calls that yajl makes for a document

\* "__metadata__" is no register; a value is a number or a text.
ASSUME DocumentAssumption ==
    /\ Meta \notin RegNames
    /\ Ints \subseteq Int /\ NoInt \notin Ints /\ Ints \cap Strings = {}
    /\ \A val \in Strings : IntOf(val) # NoInt => IntOf(val) \in Int
    /\ AddrSize \in Nat \ {0} /\ WordSize \in Nat \ {0}

VARIABLES
    romPhase,     \* "prepare", "parse", "done", "failed"
    image, todo,  \* the list to write, and how many of it are not written
    rom, romAt,   \* the image, and the next word
    old,          \* what it held before
    hostOrder,    \* prepare() of words, not of bytes
    swap,         \* parse() of bytes in network order
    infos         \* the descriptors read
romVars == <<romPhase, image, todo, rom, romAt, old, hostOrder, swap, infos>>

VARIABLES
    jsonPhase,    \* "parse", "accepted", "failed"
    nesting,      \* of yajl: "root", "key", "value", "array", "end" for each level
    calls,       \* made so far
    depth, inMetadata, ignoreScratch, regname, param, scratch,   \* context
    registers, info32,
    defined       \* objects that define registers, or metadata, so far (history)
jsonVars == <<jsonPhase, nesting, calls, depth, inMetadata, ignoreScratch, regname, param, scratch,
              registers, info32, defined>>

Text == 1
BigInt == 2
JSON == 3

\* A text or a compressed one is of bytes, a BigInt of digits.
Descriptors ==
    [type : {Text, JSON}, value : Seq(0 .. 255)] \cup [type : {BigInt}, value : Seq(0 .. 15)]

\* Fourteen bits of a header are for the number of words.
ASSUME RomAssumption ==
    /\ Images \subseteq Seq(Descriptors)
    /\ RomSize \in Nat /\ SizeLimit \in 0 .. 16384
    /\ OldWords \subseteq [1 .. 4 -> 0 .. 255]

----------------------------------------------------------------------------
\* The bytes of the image are padded to whole words of two.
Even_Never(bytes) == bytes

Even(bytes) == IF Len(bytes) % 2 = 0 THEN bytes ELSE Append(bytes, 0)

Deflate(value) == <<120, Len(value)>> \o value

Inflates(bytes) == Len(bytes) >= 2 /\ bytes[1] = 120 /\ Len(bytes) >= 2 + bytes[2]

Contents(info) ==
    CASE info.type = Text -> info.value
      [] info.type = BigInt ->
           [k \in 1 .. (Len(info.value) + 1) \div 2 |->
               16 * info.value[2 * k - 1]
                   + IF 2 * k > Len(info.value) THEN 0 ELSE info.value[2 * k]]
      [] info.type = JSON -> Deflate(info.value)

Encoded(info) ==
    LET bytes == Even(Contents(info))
        count == Len(bytes) \div 2
    IN  <<<<0, 0, 64 * info.type + count \div 256, count % 256>>>>
            \o [k \in 1 .. count |-> <<0, 0, bytes[2 * k - 1], bytes[2 * k]>>]

\* One descriptor is written, if there is room for it.
PrepareOne ==
    /\ romPhase = "prepare" /\ todo > 0
    /\ LET words == Encoded(image[Len(image) - todo + 1])
       IN  IF Len(words) - 1 < SizeLimit /\ romAt + Len(words) <= RomSize
           THEN /\ rom' = [i \in 1 .. RomSize |->
                             IF i - romAt \in DOMAIN words THEN words[i - romAt] ELSE rom[i]]
                /\ romAt' = romAt + Len(words)
                /\ UNCHANGED romPhase
           ELSE romPhase' = "failed" /\ UNCHANGED <<rom, romAt>>
    /\ todo' = todo - 1
    /\ UNCHANGED <<image, old, hostOrder, swap, infos, jsonVars>>

\* There must be room for an end descriptor, which is not written; prepare() of
\* words then turns them into numbers.
PrepareEnd ==
    /\ romPhase = "prepare" /\ todo = 0
    /\ romPhase' = IF romAt < RomSize THEN "parse" ELSE "failed"
    /\ rom' = [i \in 1 .. RomSize |-> IF hostOrder THEN Reverse(rom[i]) ELSE rom[i]]
    /\ romAt' = 0
    /\ UNCHANGED <<image, todo, old, hostOrder, swap, infos, jsonVars>>

\* A word, most significant byte first.
Word(i) == IF swap THEN rom[i] ELSE Reverse(rom[i])

UpToNul(bytes) ==
    LET nuls == {k \in DOMAIN bytes : bytes[k] = 0}
    IN  IF nuls = {} THEN bytes ELSE SubSeq(bytes, 1, (CHOOSE k \in nuls : \A n \in nuls : k <= n) - 1)

Decoded(type, bytes) ==
    CASE type = Text -> UpToNul(bytes)
      [] type = BigInt ->
           [k \in 1 .. 2 * Len(bytes) |->
               IF k % 2 = 1 THEN bytes[(k + 1) \div 2] \div 16 ELSE bytes[k \div 2] % 16]
      [] type = JSON -> SubSeq(bytes, 3, 2 + bytes[2])

\* One descriptor is read: an end descriptor, or a truncated one, ends the list.
ParseOne ==
    /\ romPhase = "parse"
    /\ IF romAt = RomSize THEN romPhase' = "done" /\ UNCHANGED <<romAt, infos>>
       ELSE LET header == Word(romAt + 1)
                type == header[3] \div 64
                size == (header[3] % 64) * 256 + header[4]
                bytes == [k \in 1 .. 2 * size |->
                             Word(romAt + 1 + (k + 1) \div 2)[IF k % 2 = 1 THEN 3 ELSE 4]]
            IN  IF header[1] # 0 \/ header[2] # 0
                THEN romPhase' = "failed" /\ UNCHANGED <<romAt, infos>>
                ELSE IF type = 0 \/ size > RomSize - romAt - 1
                THEN romPhase' = "done" /\ UNCHANGED <<romAt, infos>>
                ELSE IF type = JSON /\ ~Inflates(bytes)
                THEN romPhase' = "failed" /\ UNCHANGED <<romAt, infos>>
                ELSE /\ infos' = Append(infos, [type |-> type, value |-> Decoded(type, bytes)])
                     /\ romAt' = romAt + 1 + size
                     /\ UNCHANGED romPhase
    /\ UNCHANGED <<image, todo, rom, old, hostOrder, swap, jsonVars>>

----------------------------------------------------------------------------
Blank == [base_addr |-> 0, data_width |-> 0, readable |-> FALSE, writable |-> FALSE]

Inner == nesting[Len(nesting)]

\* What yajl expects after a value at the innermost level.
ValueDone ==
    [nesting EXCEPT ![Len(nesting)] =
        CASE Inner = "root" -> "end" [] Inner = "value" -> "key" [] OTHER -> Inner]

Event ==
    /\ jsonPhase = "parse" /\ calls < MaxEvents
    /\ calls' = calls + 1
    /\ UNCHANGED romVars

TakesValue == Event /\ Inner \in {"root", "value", "array"}

\* An integer is wider than what it is stored in: the address is an unsigned
\* number of 32 bits, the width one of 8, and the metadata are signed, of 32.
Stored(name, val) == IF name = "data_width" THEN val % 256 ELSE val % WordSize

Signed(val) ==
    LET low == val % WordSize
    IN  IF low < WordSize \div 2 THEN low ELSE low - WordSize

\* Of an address, the mask tests the bits from AddrSize on to the 32nd, and none
\* beyond that.
OutOfRange(name, val) ==
    CASE name = "base_addr" -> val % WordSize >= AddrSize
      [] name = "data_width" -> val > 32
      [] OTHER -> FALSE

\* The history of values that an object gives to its parameters.
Noted(val) ==
    IF depth # 2 THEN defined
    ELSE [defined EXCEPT ![Len(defined)].given = Append(@, [param |-> param, val |-> val])]

\* jblob_integer.
TakeInteger(val) ==
    IF depth # 2 THEN UNCHANGED <<info32, ignoreScratch, scratch>>
    ELSE IF inMetadata
    THEN /\ info32' = [p \in DOMAIN info32 \cup {param} |->
                          IF p = param THEN Signed(val) ELSE info32[p]]
         /\ UNCHANGED <<ignoreScratch, scratch>>
    ELSE /\ ignoreScratch' = (ignoreScratch \/ OutOfRange(param, val))
         /\ scratch' = IF param \in {"base_addr", "data_width"} /\ ~OutOfRange(param, val)
                       THEN [scratch EXCEPT ![param] = Stored(param, val)]
                       ELSE scratch
         /\ UNCHANGED info32

Integer(val) ==
    /\ TakesValue
    /\ nesting' = ValueDone
    /\ defined' = Noted(val)
    /\ TakeInteger(val)
    /\ UNCHANGED <<jsonPhase, depth, inMetadata, regname, param, registers>>

\* jblob_string: the letters of "access", or an integer after all.
String(val) ==
    /\ TakesValue
    /\ nesting' = ValueDone
    /\ defined' = Noted(val)
    /\ IF depth = 2 /\ ~inMetadata /\ param = "access"
       THEN /\ scratch' = [scratch EXCEPT !.readable = "r" \in Letters(val),
                                          !.writable = "w" \in Letters(val)]
            /\ UNCHANGED <<info32, ignoreScratch>>
       ELSE IF depth = 2 /\ ~inMetadata /\ IntOf(val) # NoInt
       THEN TakeInteger(IntOf(val))
       ELSE UNCHANGED <<scratch, info32, ignoreScratch>>
    /\ UNCHANGED <<jsonPhase, depth, inMetadata, regname, param, registers>>

\* yajl makes no call for the brackets of an array.
Array ==
    /\ \/ TakesValue /\ nesting' = Append(ValueDone, "array")
       \/ Event /\ Inner = "array" /\ nesting' = Front(nesting)
    /\ UNCHANGED <<jsonPhase, depth, inMetadata, ignoreScratch, regname, param, scratch, registers,
                   info32, defined>>

\* jblob_start_map.
StartMap ==
    /\ TakesValue
    /\ nesting' = Append(ValueDone, "key")
    /\ depth' = depth + 1
    /\ IF depth = 2 THEN jsonPhase' = "failed" ELSE UNCHANGED jsonPhase
    /\ ignoreScratch' = IF depth = 1 THEN FALSE ELSE ignoreScratch
    /\ defined' = IF depth = 1
                  THEN Append(defined, [name |-> regname, given |-> <<>>,
                                        plain |-> inMetadata = (regname = Meta)])
                  ELSE defined
    /\ UNCHANGED <<inMetadata, regname, param, scratch, registers, info32>>

\* jblob_map_key.
MapKey(key) ==
    /\ Event /\ Inner = "key"
    /\ nesting' = [nesting EXCEPT ![Len(nesting)] = "value"]
    /\ IF depth = 1
       THEN /\ regname' = key
            /\ inMetadata' = (inMetadata \/ key = Meta)
            /\ UNCHANGED param
       ELSE param' = key /\ UNCHANGED <<regname, inMetadata>>
    /\ UNCHANGED <<jsonPhase, depth, ignoreScratch, scratch, registers, info32, defined>>

EndMap_KeepsScratch ==
    /\ Event /\ Inner = "key" /\ depth > 0
    /\ nesting' = Front(nesting)
    /\ depth' = depth - 1
    /\ IF depth = 2
       THEN /\ registers' = IF ignoreScratch THEN registers
                            ELSE [r \in DOMAIN registers \cup {regname} |->
                                     IF r = regname THEN scratch ELSE registers[r]]
            /\ ignoreScratch' = FALSE /\ inMetadata' = FALSE
       ELSE UNCHANGED <<registers, ignoreScratch, inMetadata>>
    /\ UNCHANGED <<jsonPhase, regname, param, scratch, info32, defined>>

\* jblob_end_map: the object of a register is kept, unless part of it was ill-formed.
EndMap ==
    /\ Event /\ Inner = "key" /\ depth > 0
    /\ nesting' = Front(nesting)
    /\ depth' = depth - 1
    /\ IF depth = 2
       THEN /\ registers' = IF ignoreScratch THEN registers
                            ELSE [r \in DOMAIN registers \cup {regname} |->
                                     IF r = regname THEN scratch ELSE registers[r]]
            /\ ignoreScratch' = FALSE /\ inMetadata' = FALSE
            /\ scratch' = Blank
       ELSE UNCHANGED <<registers, ignoreScratch, inMetadata, scratch>>
    /\ UNCHANGED <<jsonPhase, regname, param, info32, defined>>

\* The document ends; or yajl finds that it is none.
ParseEnd ==
    /\ jsonPhase = "parse"
    /\ \/ nesting = <<"end">> /\ jsonPhase' = "accepted"
       \/ jsonPhase' = "failed"
    /\ UNCHANGED <<romVars, nesting, calls, depth, inMetadata, ignoreScratch, regname, param, scratch,
                   registers, info32, defined>>

----------------------------------------------------------------------------
RomInit ==
    /\ romPhase = "prepare" /\ image \in Images /\ todo = Len(image) /\ romAt = 0
    /\ old \in OldWords
    /\ rom = [i \in 1 .. RomSize |-> old]
    /\ hostOrder \in BOOLEAN /\ swap \in BOOLEAN
    /\ infos = <<>>

JsonInit ==
    /\ jsonPhase = "parse" /\ nesting = <<"root">> /\ calls = 0
    /\ depth = 0 /\ inMetadata = FALSE /\ ignoreScratch = FALSE
    /\ regname = "" /\ param = "" /\ scratch = Blank
    /\ registers = <<>> /\ info32 = <<>>
    /\ defined = <<>>

RomNext == PrepareOne \/ PrepareEnd \/ ParseOne

JsonNext ==
    \/ \E val \in Ints : Integer(val)
    \/ \E val \in Strings : String(val)
    \/ Array \/ StartMap \/ EndMap \/ ParseEnd
    \/ \E key \in IF depth = 1 THEN RegNames \cup {Meta} ELSE {"base_addr", "data_width", "access"} :
           MapKey(key)

DescriptorSpec == RomInit /\ JsonInit /\ [][RomNext \/ JsonNext]_<<romVars, jsonVars>>

----------------------------------------------------------------------------
\* What is left of a descriptor when it has been written and read: a text ends at
\* its first NUL, and digits are padded to whole words.
AsRead(info) ==
    CASE info.type = Text -> [info EXCEPT !.value = UpToNul(@)]
      [] info.type = BigInt ->
           [info EXCEPT !.value = @ \o [k \in 1 .. (4 - (Len(@) % 4)) % 4 |-> 0]]
      [] info.type = JSON -> info

Fits ==
    LET encoded == [i \in DOMAIN image |-> Encoded(image[i])]
    IN  /\ \A i \in DOMAIN image : Len(encoded[i]) - 1 < SizeLimit
        /\ Len(FlattenSeq(encoded)) < RomSize

\* What prepare() writes, in either byte order, parse() reads back, descriptor by
\* descriptor; it fails only for want of room.  Old contents that were not cleared
\* may follow, since no end descriptor is written, but never come between.
RomReadBack ==
    swap = ~hostOrder =>
        LET expected == [i \in DOMAIN image |-> AsRead(image[i])]
        IN  /\ romPhase = "done" =>
                  IF old = <<0, 0, 0, 0>> THEN infos = expected ELSE IsPrefix(expected, infos)
            /\ romPhase = "failed" /\ old = <<0, 0, 0, 0>> => ~Fits

\* A Type 0 descriptor indicates the end of the ROM: what prepare() writes is all that
\* parse() reads, whatever the buffer held before.
RomEnds ==
    swap = ~hostOrder /\ romPhase = "done" => infos = [i \in DOMAIN image |-> AsRead(image[i])]

----------------------------------------------------------------------------
\* The number a value stands for.
Number(val) == IF val \in Ints THEN val ELSE IntOf(val)

IsNumber(val) == Number(val) # NoInt

\* The last number, or text, that is given to a parameter, if one is: a set.
LastGiven(def, name, Is(_)) ==
    LET at == {i \in DOMAIN def.given : def.given[i].param = name /\ Is(def.given[i].val)}
    IN  {def.given[i].val : i \in {i \in at : \A j \in at : j <= i}}

WellFormed(def) ==
    \A i \in DOMAIN def.given :
        LET g == def.given[i]
        IN  g.param # "access" /\ IsNumber(g.val) => ~OutOfRange(g.param, Number(g.val))

IsString(val) == val \in Strings

RegisterOf(def) ==
    LET letters == UNION {Letters(val) : val \in LastGiven(def, "access", IsString)}
        Latest(name) == SumSet({Number(val) : val \in LastGiven(def, name, IsNumber)})
    IN  [base_addr |-> Latest("base_addr") % WordSize, data_width |-> Latest("data_width") % 256,
         readable |-> "r" \in letters, writable |-> "w" \in letters]

\* What was given to a parameter makes x of it.
Says(given, name, x) == given.param = name /\ given.val \in Ints /\ x = Signed(given.val)

\* Each register is as its last well-formed definition says, in which nothing of
\* other definitions, of ill-formed ones, or of the metadata has got mixed; and
\* info32 holds what the metadata say: the low bits of it, where a number is too
\* wide.  (Metadata that are not an object, or are objects in an array, are taken
\* for something else.)
JsonRead ==
    jsonPhase = "accepted" /\ (\A i \in DOMAIN defined : defined[i].plain) =>
        LET Defs(name) == {i \in DOMAIN defined : defined[i].name = name /\ WellFormed(defined[i])}
            metas == {i \in DOMAIN defined : defined[i].name = Meta}
        IN  /\ DOMAIN registers \ {Meta} = {name \in RegNames : Defs(name) # {}}
            /\ \A name \in DOMAIN registers \ {Meta} :
                   registers[name] =
                       RegisterOf(defined[CHOOSE i \in Defs(name) : \A j \in Defs(name) : j <= i])
            /\ \A p \in DOMAIN info32 : \E i \in metas : \E k \in DOMAIN defined[i].given :
                   Says(defined[i].given[k], p, info32[p])
            /\ \A i \in metas : \A k \in DOMAIN defined[i].given :
                   defined[i].given[k].val \in Ints => defined[i].given[k].param \in DOMAIN info32

\* The address of a register is the one its definition gives: a definition with one
\* that is out of range is ignored.
AddressGiven ==
    jsonPhase = "accepted" /\ (\A i \in DOMAIN defined : defined[i].plain) =>
        \A name \in DOMAIN registers \ {Meta} :
            registers[name].base_addr # 0 =>
                \E i \in DOMAIN defined : \E k \in DOMAIN defined[i].given :
                    /\ defined[i].name = name /\ defined[i].given[k].param = "base_addr"
                    /\ Number(defined[i].given[k].val) = registers[name].base_addr
=============================================================================
