------------------------------ MODULE CoderProofs ------------------------------
(****************************************************************************)
(* What the two coders compute. HammingCoder<7, 4> gives back every message *)
(* any one bit of each block of which was turned, counts the blocks hit,    *)
(* and reads from every text what the client means. The table-driven CRC-32 *)
(* computes the remainder of the polynomial division for every text that    *)
(* fits size_t.                                                             *)
(****************************************************************************)
EXTENDS HammingCoder, CRC32Coder, SequenceLemmas, SequenceTheorems, FiniteSetTheorems,
        TLAPS

--------------------------------------------------------------------------------
(* HammingCoder: bits and bytes. *)

\* The values of the bits.
LEMMA Powers ==
    /\ 2^0 = 1 /\ 2^1 = 2 /\ 2^2 = 4 /\ 2^3 = 8
    /\ 2^4 = 16 /\ 2^5 = 32 /\ 2^6 = 64 /\ 2^7 = 128
OBVIOUS

\* A byte is eight bits.
LEMMA ByteHasBits ==
    ASSUME NEW b \in Byte
    PROVE  \E x0, x1, x2, x3, x4, x5, x6, x7 \in {0, 1} :
              b = x0 + 2 * x1 + 4 * x2 + 8 * x3 + 16 * x4 + 32 * x5 + 64 * x6 + 128 * x7
<1>1. /\ b % 2 \in {0, 1} /\ (b \div 2) % 2 \in {0, 1} /\ (b \div 4) % 2 \in {0, 1}
      /\ (b \div 8) % 2 \in {0, 1} /\ (b \div 16) % 2 \in {0, 1}
      /\ (b \div 32) % 2 \in {0, 1} /\ (b \div 64) % 2 \in {0, 1}
      /\ (b \div 128) % 2 \in {0, 1}
  BY DEF Byte
<1>2. b = (b % 2) + 2 * ((b \div 2) % 2) + 4 * ((b \div 4) % 2) + 8 * ((b \div 8) % 2)
            + 16 * ((b \div 16) % 2) + 32 * ((b \div 32) % 2) + 64 * ((b \div 64) % 2)
            + 128 * ((b \div 128) % 2)
  BY DEF Byte
<1> QED
  BY <1>1, <1>2

\* What division and remainder leave of the eight bits.
LEMMA PartsOfByte ==
    ASSUME NEW x0 \in {0, 1}, NEW x1 \in {0, 1}, NEW x2 \in {0, 1}, NEW x3 \in {0, 1},
           NEW x4 \in {0, 1}, NEW x5 \in {0, 1}, NEW x6 \in {0, 1}, NEW x7 \in {0, 1},
           NEW b,
           b = x0 + 2 * x1 + 4 * x2 + 8 * x3 + 16 * x4 + 32 * x5 + 64 * x6 + 128 * x7
    PROVE  /\ b \in Byte
           /\ b \div 1 = b
           /\ b \div 2 = x1 + 2 * x2 + 4 * x3 + 8 * x4 + 16 * x5 + 32 * x6 + 64 * x7
           /\ b \div 4 = x2 + 2 * x3 + 4 * x4 + 8 * x5 + 16 * x6 + 32 * x7
           /\ b \div 8 = x3 + 2 * x4 + 4 * x5 + 8 * x6 + 16 * x7
           /\ b \div 16 = x4 + 2 * x5 + 4 * x6 + 8 * x7
           /\ b \div 32 = x5 + 2 * x6 + 4 * x7
           /\ b \div 64 = x6 + 2 * x7
           /\ b \div 128 = x7
           /\ b % 4 = x0 + 2 * x1
           /\ b % 16 = x0 + 2 * x1 + 4 * x2 + 8 * x3
           /\ b % 64 = x0 + 2 * x1 + 4 * x2 + 8 * x3 + 16 * x4 + 32 * x5
BY DEF Byte

\* And its bits.
LEMMA BitsOfByte ==
    ASSUME NEW x0 \in {0, 1}, NEW x1 \in {0, 1}, NEW x2 \in {0, 1}, NEW x3 \in {0, 1},
           NEW x4 \in {0, 1}, NEW x5 \in {0, 1}, NEW x6 \in {0, 1}, NEW x7 \in {0, 1},
           NEW b,
           b = x0 + 2 * x1 + 4 * x2 + 8 * x3 + 16 * x4 + 32 * x5 + 64 * x6 + 128 * x7
    PROVE  /\ GetBit(b, 0) <=> x0 = 1
           /\ GetBit(b, 1) <=> x1 = 1
           /\ GetBit(b, 2) <=> x2 = 1
           /\ GetBit(b, 3) <=> x3 = 1
           /\ GetBit(b, 4) <=> x4 = 1
           /\ GetBit(b, 5) <=> x5 = 1
           /\ GetBit(b, 6) <=> x6 = 1
           /\ GetBit(b, 7) <=> x7 = 1
<1>1. /\ b \div 1 = b
      /\ b \div 2 = x1 + 2 * (x2 + 2 * x3 + 4 * x4 + 8 * x5 + 16 * x6 + 32 * x7)
      /\ b \div 4 = x2 + 2 * (x3 + 2 * x4 + 4 * x5 + 8 * x6 + 16 * x7)
      /\ b \div 8 = x3 + 2 * (x4 + 2 * x5 + 4 * x6 + 8 * x7)
      /\ b \div 16 = x4 + 2 * (x5 + 2 * x6 + 4 * x7)
      /\ b \div 32 = x5 + 2 * (x6 + 2 * x7)
      /\ b \div 64 = x6 + 2 * x7
      /\ b \div 128 = x7
  BY PartsOfByte
<1>2. b = x0 + 2 * (x1 + 2 * x2 + 4 * x3 + 8 * x4 + 16 * x5 + 32 * x6 + 64 * x7)
  OBVIOUS
<1>3. \A x \in {0, 1}, y \in Int : (x + 2 * y) % 2 = 1 <=> x = 1
  OBVIOUS
<1> QED
  BY <1>1, <1>2, <1>3, Powers DEF GetBit

\* setBit() for some of the eight bits sets them and no other.
LEMMA ByteOfHas ==
    ASSUME NEW S
    PROVE  /\ ByteOf(S) \in Byte
           /\ \A i \in 0 .. 7 : GetBit(ByteOf(S), i) <=> i \in S
<1> DEFINE x(i) == IF i \in S THEN 1 ELSE 0
<1>1. /\ x(0) \in {0, 1} /\ x(1) \in {0, 1} /\ x(2) \in {0, 1} /\ x(3) \in {0, 1}
      /\ x(4) \in {0, 1} /\ x(5) \in {0, 1} /\ x(6) \in {0, 1} /\ x(7) \in {0, 1}
  OBVIOUS
<1>2. ByteOf(S) = x(0) + 2 * x(1) + 4 * x(2) + 8 * x(3) + 16 * x(4) + 32 * x(5)
                    + 64 * x(6) + 128 * x(7)
  BY Powers DEF ByteOf
<1>3. \A i : x(i) = 1 <=> i \in S
  OBVIOUS
<1> HIDE DEF x
<1>4. ByteOf(S) \in Byte
  BY <1>1, <1>2, PartsOfByte
<1>5. /\ GetBit(ByteOf(S), 0) <=> x(0) = 1
      /\ GetBit(ByteOf(S), 1) <=> x(1) = 1
      /\ GetBit(ByteOf(S), 2) <=> x(2) = 1
      /\ GetBit(ByteOf(S), 3) <=> x(3) = 1
      /\ GetBit(ByteOf(S), 4) <=> x(4) = 1
      /\ GetBit(ByteOf(S), 5) <=> x(5) = 1
      /\ GetBit(ByteOf(S), 6) <=> x(6) = 1
      /\ GetBit(ByteOf(S), 7) <=> x(7) = 1
  BY <1>1, <1>2, BitsOfByte
<1>6. ASSUME NEW i \in 0 .. 7 PROVE GetBit(ByteOf(S), i) <=> i \in S
  <2>1. \/ i = 0 \/ i = 1 \/ i = 2 \/ i = 3 \/ i = 4 \/ i = 5 \/ i = 6 \/ i = 7
    OBVIOUS
  <2>2. GetBit(ByteOf(S), i) <=> x(i) = 1
    BY <1>5, <2>1, Zenon
  <2> QED
    BY <1>3, <2>2
<1> QED
  BY <1>4, <1>6

\* A byte is the one with its bits set.
LEMMA ByteOfBits ==
    ASSUME NEW b \in Byte
    PROVE  ByteOf({i \in 0 .. 7 : GetBit(b, i)}) = b
<1>1. PICK x0 \in {0, 1}, x1 \in {0, 1}, x2 \in {0, 1}, x3 \in {0, 1},
           x4 \in {0, 1}, x5 \in {0, 1}, x6 \in {0, 1}, x7 \in {0, 1} :
              b = x0 + 2 * x1 + 4 * x2 + 8 * x3 + 16 * x4 + 32 * x5 + 64 * x6 + 128 * x7
  BY ByteHasBits
<1>2. /\ GetBit(b, 0) <=> x0 = 1
      /\ GetBit(b, 1) <=> x1 = 1
      /\ GetBit(b, 2) <=> x2 = 1
      /\ GetBit(b, 3) <=> x3 = 1
      /\ GetBit(b, 4) <=> x4 = 1
      /\ GetBit(b, 5) <=> x5 = 1
      /\ GetBit(b, 6) <=> x6 = 1
      /\ GetBit(b, 7) <=> x7 = 1
  BY <1>1, BitsOfByte
<1> DEFINE S == {i \in 0 .. 7 : GetBit(b, i)}
<1>3. /\ 0 \in S <=> x0 = 1
      /\ 1 \in S <=> x1 = 1
      /\ 2 \in S <=> x2 = 1
      /\ 3 \in S <=> x3 = 1
      /\ 4 \in S <=> x4 = 1
      /\ 5 \in S <=> x5 = 1
      /\ 6 \in S <=> x6 = 1
      /\ 7 \in S <=> x7 = 1
  BY <1>2
<1> HIDE DEF S
<1>4. ByteOf(S) = b
  BY <1>1, <1>3, Powers DEF ByteOf
<1> QED
  BY <1>4 DEF S

\* Bytes with the same bits are the same.
LEMMA SameBits ==
    ASSUME NEW a \in Byte, NEW b \in Byte, \A i \in 0 .. 7 : GetBit(a, i) <=> GetBit(b, i)
    PROVE  a = b
<1>1. {i \in 0 .. 7 : GetBit(a, i)} = {i \in 0 .. 7 : GetBit(b, i)}
  OBVIOUS
<1> QED
  BY <1>1, ByteOfBits, Zenon

\* A block goes into a byte and comes out of it.
LEMMA BlockAndByte ==
    /\ \A b : BlockOf(b) \in Block
    /\ \A block \in Block : BlockByte(block) \in Byte /\ BlockOf(BlockByte(block)) = block
<1>1. ASSUME NEW b PROVE BlockOf(b) \in Block
  BY DEF BlockOf, Block, GetBit
<1>2. ASSUME NEW block \in Block
      PROVE  BlockByte(block) \in Byte /\ BlockOf(BlockByte(block)) = block
  <2> DEFINE S == {i \in 0 .. CHBits - 1 : block[i + 1]}
             b == ByteOf(S)
  <2>1. b \in Byte /\ \A i \in 0 .. 7 : GetBit(b, i) <=> i \in S
    <3> HIDE DEF S
    <3> QED
      BY ByteOfHas
  <2>2. BlockByte(block) = b
    BY DEF BlockByte
  <2> HIDE DEF b
  <2>3. ASSUME NEW i \in 1 .. 8 PROVE GetBit(b, i - 1) = block[i]
    <3>1. i - 1 \in 0 .. 7 /\ (i - 1) + 1 = i /\ CHBits - 1 = 7
      BY DEF CHBits
    <3>2. i - 1 \in S <=> block[i]
      BY <3>1
    <3>3. GetBit(b, i - 1) <=> block[i]
      BY <2>1, <3>1, <3>2
    <3>4. GetBit(b, i - 1) \in BOOLEAN /\ block[i] \in BOOLEAN
      BY DEF GetBit, Block, CHBits
    <3> QED
      BY <3>3, <3>4
  <2>4. BlockOf(b) = block
    BY <2>3 DEF BlockOf, Block, CHBits
  <2> QED
    BY <2>1, <2>2, <2>4
<1> QED
  BY <1>1, <1>2

--------------------------------------------------------------------------------
(* HammingCoder: one block. *)

\* Whether an odd number of three positions is in a set of them.
LEMMA OddOfThree ==
    ASSUME NEW a, NEW b, NEW c, a # b, a # c, b # c, NEW T \in SUBSET {a, b, c}
    PROVE  Odd(T) <=> (a \in T <=> (b \in T <=> c \in T))
<1>1. IsFiniteSet({}) /\ Cardinality({}) = 0
  BY FS_EmptySet
<1>2. \A x : IsFiniteSet({x}) /\ Cardinality({x}) = 1
  BY FS_Singleton
<1>3. \A x, y : x # y => IsFiniteSet({x, y}) /\ Cardinality({x, y}) = 2
  <2> TAKE x, y
  <2> HAVE x # y
  <2>1. IsFiniteSet({x} \union {y}) /\ Cardinality({x} \union {y}) = Cardinality({x}) + 1
    <3>1. y \notin {x}
      OBVIOUS
    <3> QED
      BY <1>2, <3>1, FS_AddElement
  <2>2. {x} \union {y} = {x, y}
    OBVIOUS
  <2>3. Cardinality({x}) = 1
    BY <1>2
  <2> QED
    BY <2>1, <2>2, <2>3
<1>4. Cardinality({a, b, c}) = 3
  <2>1. Cardinality({a, b} \union {c}) = Cardinality({a, b}) + 1
    <3>1. c \notin {a, b} /\ IsFiniteSet({a, b})
      BY <1>3
    <3> QED
      BY <3>1, FS_AddElement
  <2>2. {a, b} \union {c} = {a, b, c}
    OBVIOUS
  <2>3. Cardinality({a, b}) = 2
    BY <1>3
  <2> QED
    BY <2>1, <2>2, <2>3
<1>5. 0 % 2 # 1 /\ 1 % 2 = 1 /\ 2 % 2 # 1 /\ 3 % 2 = 1
  OBVIOUS
<1>6. CASE a \in T /\ b \in T /\ c \in T
  <2>1. T = {a, b, c}
    BY <1>6
  <2> QED
    BY <1>4, <1>5, <1>6, <2>1 DEF Odd
<1>7. CASE a \in T /\ b \in T /\ c \notin T
  <2>1. T = {a, b}
    BY <1>7
  <2> QED
    BY <1>3, <1>5, <1>7, <2>1 DEF Odd
<1>8. CASE a \in T /\ b \notin T /\ c \in T
  <2>1. T = {a, c}
    BY <1>8
  <2> QED
    BY <1>3, <1>5, <1>8, <2>1 DEF Odd
<1>9. CASE a \notin T /\ b \in T /\ c \in T
  <2>1. T = {b, c}
    BY <1>9
  <2> QED
    BY <1>3, <1>5, <1>9, <2>1 DEF Odd
<1>10. CASE a \in T /\ b \notin T /\ c \notin T
  <2>1. T = {a}
    BY <1>10
  <2> QED
    BY <1>2, <1>5, <1>10, <2>1 DEF Odd
<1>11. CASE a \notin T /\ b \in T /\ c \notin T
  <2>1. T = {b}
    BY <1>11
  <2> QED
    BY <1>2, <1>5, <1>11, <2>1 DEF Odd
<1>12. CASE a \notin T /\ b \notin T /\ c \in T
  <2>1. T = {c}
    BY <1>12
  <2> QED
    BY <1>2, <1>5, <1>12, <2>1 DEF Odd
<1>13. CASE a \notin T /\ b \notin T /\ c \notin T
  <2>1. T = {}
    BY <1>13
  <2> QED
    BY <1>1, <1>5, <1>13, <2>1 DEF Odd
<1> QED
  BY <1>6, <1>7, <1>8, <1>9, <1>10, <1>11, <1>12, <1>13

\* What each parity bit covers.
LEMMA ParityCovers ==
    ASSUME NEW block
    PROVE  /\ calculateParityBit(block, 1) <=> (block[3] <=> (block[5] <=> block[7]))
           /\ calculateParityBit(block, 2) <=> (block[3] <=> (block[6] <=> block[7]))
           /\ calculateParityBit(block, 4) <=> (block[5] <=> (block[6] <=> block[7]))
<1> DEFINE T(mask) == {i \in 1 .. PacketBits : i # mask /\ HasBit(i, mask) /\ block[i]}
<1>1. \A i \in 1 .. 7 : \/ i = 1 \/ i = 2 \/ i = 3 \/ i = 4 \/ i = 5 \/ i = 6 \/ i = 7
  OBVIOUS
<1>2. /\ \A i \in 1 .. 7 : i # 1 /\ HasBit(i, 1) <=> i \in {3, 5, 7}
      /\ \A i \in 1 .. 7 : i # 2 /\ HasBit(i, 2) <=> i \in {3, 6, 7}
      /\ \A i \in 1 .. 7 : i # 4 /\ HasBit(i, 4) <=> i \in {5, 6, 7}
  BY <1>1 DEF HasBit
<1>3. T(1) \in SUBSET {3, 5, 7} /\ \A i \in {3, 5, 7} : i \in T(1) <=> block[i]
  BY <1>2 DEF PacketBits
<1>4. T(2) \in SUBSET {3, 6, 7} /\ \A i \in {3, 6, 7} : i \in T(2) <=> block[i]
  BY <1>2 DEF PacketBits
<1>5. T(4) \in SUBSET {5, 6, 7} /\ \A i \in {5, 6, 7} : i \in T(4) <=> block[i]
  BY <1>2 DEF PacketBits
<1> HIDE DEF T
<1>6. 3 # 5 /\ 3 # 6 /\ 3 # 7 /\ 5 # 6 /\ 5 # 7 /\ 6 # 7
  OBVIOUS
<1>7. Odd(T(1)) <=> (3 \in T(1) <=> (5 \in T(1) <=> 7 \in T(1)))
  BY <1>3, <1>6, OddOfThree
<1>8. Odd(T(2)) <=> (3 \in T(2) <=> (6 \in T(2) <=> 7 \in T(2)))
  BY <1>4, <1>6, OddOfThree
<1>9. Odd(T(4)) <=> (5 \in T(4) <=> (6 \in T(4) <=> 7 \in T(4)))
  BY <1>5, <1>6, OddOfThree
<1>10. Odd(T(1)) <=> (block[3] <=> (block[5] <=> block[7]))
  BY <1>3, <1>7
<1>11. Odd(T(2)) <=> (block[3] <=> (block[6] <=> block[7]))
  BY <1>4, <1>8
<1>12. Odd(T(4)) <=> (block[5] <=> (block[6] <=> block[7]))
  BY <1>5, <1>9
<1> QED
  BY <1>10, <1>11, <1>12, Zenon DEF calculateParityBit, T

\* The blocks encode() makes.
CodeWord(e) == /\ e \in Block
               /\ e[1] <=> (e[3] <=> (e[5] <=> e[7]))
               /\ e[2] <=> (e[3] <=> (e[6] <=> e[7]))
               /\ e[4] <=> (e[5] <=> (e[6] <=> e[7]))

\* Each encoded block is a code word that holds the information.
LEMMA EncodesCodeWord ==
    ASSUME NEW info \in Info, NEW stale \in Block
    PROVE  /\ CodeWord(EncodeBlock(info, stale))
           /\ \A k \in 1 .. InfoBits : EncodeBlock(info, stale)[InfoPosition[k]] = info[k]
<1> DEFINE w == WithInfo(info, stale)
           e == EncodeBlock(info, stale)
<1>1. /\ w[3] = info[1] /\ w[5] = info[2] /\ w[6] = info[3] /\ w[7] = info[4]
      /\ w[8] = stale[8]
  <2>1. /\ InfoPosition[1] = 3 /\ InfoPosition[2] = 5 /\ InfoPosition[3] = 6
        /\ InfoPosition[4] = 7
    BY DEF InfoPosition
  <2>2. ASSUME NEW k \in 1 .. 4, NEW i \in 1 .. 8, InfoPosition[k] = i
        PROVE  w[i] = info[k]
    <3>1. \A j \in 1 .. 4 : InfoPosition[j] = i => j = k
      BY <2>1, <2>2
    <3>2. (CHOOSE j \in 1 .. InfoBits : InfoPosition[j] = i) = k
      BY <2>2, <3>1 DEF InfoBits
    <3>3. \E j \in 1 .. InfoBits : InfoPosition[j] = i
      BY <2>2 DEF InfoBits
    <3> QED
      BY <3>2, <3>3 DEF WithInfo, CHBits
  <2>3. w[8] = stale[8]
    <3>1. ~ \E j \in 1 .. InfoBits : InfoPosition[j] = 8
      BY <2>1 DEF InfoBits
    <3> QED
      BY <3>1 DEF WithInfo, CHBits
  <2> HIDE DEF w
  <2>4. w[3] = info[1]
    BY <2>1, <2>2, 1 \in 1 .. 4, 3 \in 1 .. 8
  <2>5. w[5] = info[2]
    BY <2>1, <2>2, 2 \in 1 .. 4, 5 \in 1 .. 8
  <2>6. w[6] = info[3]
    BY <2>1, <2>2, 3 \in 1 .. 4, 6 \in 1 .. 8
  <2>7. w[7] = info[4]
    BY <2>1, <2>2, 4 \in 1 .. 4, 7 \in 1 .. 8
  <2> QED
    BY <2>3, <2>4, <2>5, <2>6, <2>7
<1> HIDE DEF w
<1>2. e = [i \in 1 .. 8 |-> IF i \in {1, 2, 4} THEN calculateParityBit(w, i) ELSE w[i]]
  BY DEF EncodeBlock, w, ParityMasks, CHBits
<1> HIDE DEF e
<1>3. /\ e[1] = calculateParityBit(w, 1) /\ e[2] = calculateParityBit(w, 2)
      /\ e[4] = calculateParityBit(w, 4)
      /\ e[3] = w[3] /\ e[5] = w[5] /\ e[6] = w[6] /\ e[7] = w[7] /\ e[8] = w[8]
  BY <1>2
<1>4. /\ info[1] \in BOOLEAN /\ info[2] \in BOOLEAN /\ info[3] \in BOOLEAN
      /\ info[4] \in BOOLEAN /\ stale[8] \in BOOLEAN
  BY DEF Info, InfoBits, Block, CHBits
<1>5. \A i \in 1 .. 8 : e[i] \in BOOLEAN
  <2>1. \A mask : calculateParityBit(w, mask) \in BOOLEAN
    BY DEF calculateParityBit, Odd
  <2>2. /\ e[1] \in BOOLEAN /\ e[2] \in BOOLEAN /\ e[3] \in BOOLEAN /\ e[4] \in BOOLEAN
        /\ e[5] \in BOOLEAN /\ e[6] \in BOOLEAN /\ e[7] \in BOOLEAN /\ e[8] \in BOOLEAN
    BY <1>1, <1>3, <1>4, <2>1
  <2>3. \A i \in 1 .. 8 : \/ i = 1 \/ i = 2 \/ i = 3 \/ i = 4
                          \/ i = 5 \/ i = 6 \/ i = 7 \/ i = 8
    OBVIOUS
  <2> QED
    BY <2>2, <2>3, Zenon
<1>6. e \in Block
  BY <1>2, <1>5 DEF Block, CHBits
<1>7. /\ e[1] <=> (e[3] <=> (e[5] <=> e[7]))
      /\ e[2] <=> (e[3] <=> (e[6] <=> e[7]))
      /\ e[4] <=> (e[5] <=> (e[6] <=> e[7]))
  BY <1>3, ParityCovers, Zenon
<1>8. \A k \in 1 .. InfoBits : e[InfoPosition[k]] = info[k]
  BY <1>1, <1>3 DEF InfoBits, InfoPosition
<1> QED
  BY <1>6, <1>7, <1>8 DEF CodeWord, e

\* When a parity bit does not agree.
LEMMA MismatchOf ==
    ASSUME NEW d \in Block
    PROVE  /\ Mismatch(d, 1) <=> ~ (d[1] <=> (d[3] <=> (d[5] <=> d[7])))
           /\ Mismatch(d, 2) <=> ~ (d[2] <=> (d[3] <=> (d[6] <=> d[7])))
           /\ Mismatch(d, 4) <=> ~ (d[4] <=> (d[5] <=> (d[6] <=> d[7])))
<1>1. /\ d[1] \in BOOLEAN /\ d[2] \in BOOLEAN /\ d[4] \in BOOLEAN
      /\ \A mask : calculateParityBit(d, mask) \in BOOLEAN
  BY DEF Block, CHBits, calculateParityBit, Odd
<1>2. /\ Mismatch(d, 1) <=> ~ (calculateParityBit(d, 1) <=> d[1])
      /\ Mismatch(d, 2) <=> ~ (calculateParityBit(d, 2) <=> d[2])
      /\ Mismatch(d, 4) <=> ~ (calculateParityBit(d, 4) <=> d[4])
  BY <1>1 DEF Mismatch
<1> QED
  BY <1>2, ParityCovers

\* A code word is decoded as it is.
LEMMA CodeWordIntact ==
    ASSUME NEW e, CodeWord(e)
    PROVE  /\ ErrIndex(e) = 0
           /\ DecodeBlock(e) = [k \in 1 .. InfoBits |-> e[InfoPosition[k]]]
<1>1. ~ Mismatch(e, 1) /\ ~ Mismatch(e, 2) /\ ~ Mismatch(e, 4)
  BY MismatchOf DEF CodeWord
<1>2. ErrIndex(e) = 0
  BY <1>1 DEF ErrIndex
<1>3. Correct(e) = e
  BY <1>2 DEF Correct, Corrects
<1> QED
  BY <1>2, <1>3 DEF DecodeBlock

\* The masks that do not agree add up to the position of the bit that was turned, and
\* the information comes out all the same.
LEMMA ErrorFound ==
    ASSUME NEW e, CodeWord(e), NEW i \in 1 .. 8, NEW d \in Block,
           ~ (d[i] <=> e[i]),
           \A j \in 1 .. 8 : j # i => (d[j] <=> e[j])
    PROVE  /\ ErrIndex(d) = IF i <= 7 THEN i ELSE 0
           /\ DecodeBlock(d) = [k \in 1 .. InfoBits |-> e[InfoPosition[k]]]
<1>1. /\ e[1] <=> (e[3] <=> (e[5] <=> e[7]))
      /\ e[2] <=> (e[3] <=> (e[6] <=> e[7]))
      /\ e[4] <=> (e[5] <=> (e[6] <=> e[7]))
  BY DEF CodeWord
<1>2. \A j \in 1 .. 8 : e[j] \in BOOLEAN /\ d[j] \in BOOLEAN
  BY DEF CodeWord, Block, CHBits
<1>3. /\ Mismatch(d, 1) <=> i \in {1, 3, 5, 7}
      /\ Mismatch(d, 2) <=> i \in {2, 3, 6, 7}
      /\ Mismatch(d, 4) <=> i \in {4, 5, 6, 7}
  <2>1. \/ i = 1 \/ i = 2 \/ i = 3 \/ i = 4 \/ i = 5 \/ i = 6 \/ i = 7 \/ i = 8
    OBVIOUS
  <2>2. /\ d[1] <=> ~ (e[1] <=> i = 1)
        /\ d[2] <=> ~ (e[2] <=> i = 2)
        /\ d[3] <=> ~ (e[3] <=> i = 3)
        /\ d[4] <=> ~ (e[4] <=> i = 4)
        /\ d[5] <=> ~ (e[5] <=> i = 5)
        /\ d[6] <=> ~ (e[6] <=> i = 6)
        /\ d[7] <=> ~ (e[7] <=> i = 7)
    OBVIOUS
  <2>3. Mismatch(d, 1) <=> i \in {1, 3, 5, 7}
    <3>1. Mismatch(d, 1) <=> ~ (d[1] <=> (d[3] <=> (d[5] <=> d[7])))
      BY MismatchOf
    <3> QED
      BY <1>1, <2>1, <2>2, <3>1
  <2>4. Mismatch(d, 2) <=> i \in {2, 3, 6, 7}
    <3>1. Mismatch(d, 2) <=> ~ (d[2] <=> (d[3] <=> (d[6] <=> d[7])))
      BY MismatchOf
    <3> QED
      BY <1>1, <2>1, <2>2, <3>1
  <2>5. Mismatch(d, 4) <=> i \in {4, 5, 6, 7}
    <3>1. Mismatch(d, 4) <=> ~ (d[4] <=> (d[5] <=> (d[6] <=> d[7])))
      BY MismatchOf
    <3> QED
      BY <1>1, <2>1, <2>2, <3>1
  <2> QED
    BY <2>3, <2>4, <2>5
<1>4. ErrIndex(d) = IF i <= 7 THEN i ELSE 0
  BY <1>3 DEF ErrIndex
<1>5. ASSUME NEW p \in {3, 5, 6, 7} PROVE Correct(d)[p] = e[p]
  <2>1. p \in 1 .. 8 /\ d[p] \in BOOLEAN /\ e[p] \in BOOLEAN
    BY <1>2
  <2>2. CASE p = i
    <3>1. ErrIndex(d) = p /\ Corrects(ErrIndex(d))
      BY <1>4, <2>2 DEF Corrects
    <3>2. Correct(d)[p] = ~ d[p]
      BY <2>1, <3>1 DEF Correct, Block, CHBits
    <3> QED
      BY <2>1, <2>2, <3>2
  <2>3. CASE p # i
    <3>1. ErrIndex(d) # p
      BY <1>4, <2>3
    <3>2. Correct(d)[p] = d[p]
      BY <2>1, <3>1 DEF Correct, Block, CHBits
    <3> QED
      BY <2>1, <2>3, <3>2
  <2> QED
    BY <2>2, <2>3
<1>6. \A k \in 1 .. InfoBits : InfoPosition[k] \in {3, 5, 6, 7}
  BY DEF InfoBits, InfoPosition
<1>7. DecodeBlock(d) = [k \in 1 .. InfoBits |-> e[InfoPosition[k]]]
  BY <1>5, <1>6 DEF DecodeBlock
<1> QED
  BY <1>4, <1>7

--------------------------------------------------------------------------------
(* HammingCoder: base64 as the server and the clients have it. *)

\* The quotient and the remainder of a place in groups of so many.
LEMMA Groups ==
    ASSUME NEW x \in Nat
    PROVE  /\ \E g \in Nat, r \in 0 .. 1 : x = 2 * g + r
           /\ \E g \in Nat, r \in 0 .. 2 : x = 3 * g + r
           /\ \E g \in Nat, r \in 0 .. 3 : x = 4 * g + r
           /\ \E g \in Nat, r \in 0 .. 5 : x = 6 * g + r
           /\ \E g \in Nat, r \in 0 .. 7 : x = 8 * g + r
<1>2. x \div 2 \in Nat /\ x % 2 \in 0 .. 1 /\ x = 2 * (x \div 2) + (x % 2)
  OBVIOUS
<1>3. x \div 3 \in Nat /\ x % 3 \in 0 .. 2 /\ x = 3 * (x \div 3) + (x % 3)
  OBVIOUS
<1>4. x \div 4 \in Nat /\ x % 4 \in 0 .. 3 /\ x = 4 * (x \div 4) + (x % 4)
  OBVIOUS
<1>6. x \div 6 \in Nat /\ x % 6 \in 0 .. 5 /\ x = 6 * (x \div 6) + (x % 6)
  OBVIOUS
<1>8. x \div 8 \in Nat /\ x % 8 \in 0 .. 7 /\ x = 8 * (x \div 8) + (x % 8)
  OBVIOUS
<1> QED
  BY <1>2, <1>3, <1>4, <1>6, <1>8

LEMMA GroupParts ==
    ASSUME NEW g \in Nat
    PROVE  /\ \A r \in 0 .. 1 : (2 * g + r) \div 2 = g /\ (2 * g + r) % 2 = r
           /\ \A r \in 0 .. 2 : (3 * g + r) \div 3 = g /\ (3 * g + r) % 3 = r
           /\ \A r \in 0 .. 3 : (4 * g + r) \div 4 = g /\ (4 * g + r) % 4 = r
           /\ \A r \in 0 .. 5 : (6 * g + r) \div 6 = g /\ (6 * g + r) % 6 = r
           /\ \A r \in 0 .. 7 : (8 * g + r) \div 8 = g /\ (8 * g + r) % 8 = r
OBVIOUS

\* The bits of the four characters are those of the three bytes, the highest first.
LEMMA SextetBits ==
    ASSUME NEW b1 \in Byte, NEW b2 \in Byte, NEW b3 \in Byte,
           NEW s1, s1 = b1 \div 4,
           NEW s2, s2 = (b1 % 4) * 16 + b2 \div 16,
           NEW s3, s3 = (b2 % 16) * 4 + b3 \div 64,
           NEW s4, s4 = b3 % 64
    PROVE  /\ s1 \in Sextet /\ s2 \in Sextet /\ s3 \in Sextet /\ s4 \in Sextet
           /\ \A j \in 0 .. 5 : GetBit(s1, j) <=> GetBit(b1, j + 2)
           /\ \A j \in 0 .. 3 : GetBit(s2, j) <=> GetBit(b2, j + 4)
           /\ \A j \in 4 .. 5 : GetBit(s2, j) <=> GetBit(b1, j - 4)
           /\ \A j \in 0 .. 1 : GetBit(s3, j) <=> GetBit(b3, j + 6)
           /\ \A j \in 2 .. 5 : GetBit(s3, j) <=> GetBit(b2, j - 2)
           /\ \A j \in 0 .. 5 : GetBit(s4, j) <=> GetBit(b3, j)
<1>1. PICK x0 \in {0, 1}, x1 \in {0, 1}, x2 \in {0, 1}, x3 \in {0, 1},
           x4 \in {0, 1}, x5 \in {0, 1}, x6 \in {0, 1}, x7 \in {0, 1} :
              b1 = x0 + 2 * x1 + 4 * x2 + 8 * x3 + 16 * x4 + 32 * x5 + 64 * x6 + 128 * x7
  BY ByteHasBits
<1>2. PICK y0 \in {0, 1}, y1 \in {0, 1}, y2 \in {0, 1}, y3 \in {0, 1},
           y4 \in {0, 1}, y5 \in {0, 1}, y6 \in {0, 1}, y7 \in {0, 1} :
              b2 = y0 + 2 * y1 + 4 * y2 + 8 * y3 + 16 * y4 + 32 * y5 + 64 * y6 + 128 * y7
  BY ByteHasBits
<1>3. PICK z0 \in {0, 1}, z1 \in {0, 1}, z2 \in {0, 1}, z3 \in {0, 1},
           z4 \in {0, 1}, z5 \in {0, 1}, z6 \in {0, 1}, z7 \in {0, 1} :
              b3 = z0 + 2 * z1 + 4 * z2 + 8 * z3 + 16 * z4 + 32 * z5 + 64 * z6 + 128 * z7
  BY ByteHasBits
<1>4. /\ b1 \div 4 = x2 + 2 * x3 + 4 * x4 + 8 * x5 + 16 * x6 + 32 * x7
      /\ b1 % 4 = x0 + 2 * x1
  BY <1>1, PartsOfByte
<1>5. /\ b2 \div 16 = y4 + 2 * y5 + 4 * y6 + 8 * y7
      /\ b2 % 16 = y0 + 2 * y1 + 4 * y2 + 8 * y3
  BY <1>2, PartsOfByte
<1>6. /\ b3 \div 64 = z6 + 2 * z7
      /\ b3 % 64 = z0 + 2 * z1 + 4 * z2 + 8 * z3 + 16 * z4 + 32 * z5
  BY <1>3, PartsOfByte
<1>7. /\ s1 = x2 + 2 * x3 + 4 * x4 + 8 * x5 + 16 * x6 + 32 * x7 + 64 * 0 + 128 * 0
      /\ s2 = y4 + 2 * y5 + 4 * y6 + 8 * y7 + 16 * x0 + 32 * x1 + 64 * 0 + 128 * 0
      /\ s3 = z6 + 2 * z7 + 4 * y0 + 8 * y1 + 16 * y2 + 32 * y3 + 64 * 0 + 128 * 0
      /\ s4 = z0 + 2 * z1 + 4 * z2 + 8 * z3 + 16 * z4 + 32 * z5 + 64 * 0 + 128 * 0
  BY <1>4, <1>5, <1>6
<1>8. s1 \in Sextet /\ s2 \in Sextet /\ s3 \in Sextet /\ s4 \in Sextet
  BY <1>7 DEF Sextet
<1>9. /\ GetBit(b1, 0) <=> x0 = 1
      /\ GetBit(b1, 1) <=> x1 = 1
      /\ GetBit(b1, 2) <=> x2 = 1
      /\ GetBit(b1, 3) <=> x3 = 1
      /\ GetBit(b1, 4) <=> x4 = 1
      /\ GetBit(b1, 5) <=> x5 = 1
      /\ GetBit(b1, 6) <=> x6 = 1
      /\ GetBit(b1, 7) <=> x7 = 1
  BY <1>1, BitsOfByte
<1>10. /\ GetBit(b2, 0) <=> y0 = 1
       /\ GetBit(b2, 1) <=> y1 = 1
       /\ GetBit(b2, 2) <=> y2 = 1
       /\ GetBit(b2, 3) <=> y3 = 1
       /\ GetBit(b2, 4) <=> y4 = 1
       /\ GetBit(b2, 5) <=> y5 = 1
       /\ GetBit(b2, 6) <=> y6 = 1
       /\ GetBit(b2, 7) <=> y7 = 1
  BY <1>2, BitsOfByte
<1>11. /\ GetBit(b3, 0) <=> z0 = 1
       /\ GetBit(b3, 1) <=> z1 = 1
       /\ GetBit(b3, 2) <=> z2 = 1
       /\ GetBit(b3, 3) <=> z3 = 1
       /\ GetBit(b3, 4) <=> z4 = 1
       /\ GetBit(b3, 5) <=> z5 = 1
       /\ GetBit(b3, 6) <=> z6 = 1
       /\ GetBit(b3, 7) <=> z7 = 1
  BY <1>3, BitsOfByte
<1>12. 0 \in {0, 1}
  OBVIOUS
<1>13. /\ GetBit(s1, 0) <=> x2 = 1
       /\ GetBit(s1, 1) <=> x3 = 1
       /\ GetBit(s1, 2) <=> x4 = 1
       /\ GetBit(s1, 3) <=> x5 = 1
       /\ GetBit(s1, 4) <=> x6 = 1
       /\ GetBit(s1, 5) <=> x7 = 1
  BY <1>7, <1>12, BitsOfByte
<1>14. /\ GetBit(s2, 0) <=> y4 = 1
       /\ GetBit(s2, 1) <=> y5 = 1
       /\ GetBit(s2, 2) <=> y6 = 1
       /\ GetBit(s2, 3) <=> y7 = 1
       /\ GetBit(s2, 4) <=> x0 = 1
       /\ GetBit(s2, 5) <=> x1 = 1
  BY <1>7, <1>12, BitsOfByte
<1>15. /\ GetBit(s3, 0) <=> z6 = 1
       /\ GetBit(s3, 1) <=> z7 = 1
       /\ GetBit(s3, 2) <=> y0 = 1
       /\ GetBit(s3, 3) <=> y1 = 1
       /\ GetBit(s3, 4) <=> y2 = 1
       /\ GetBit(s3, 5) <=> y3 = 1
  BY <1>7, <1>12, BitsOfByte
<1>16. /\ GetBit(s4, 0) <=> z0 = 1
       /\ GetBit(s4, 1) <=> z1 = 1
       /\ GetBit(s4, 2) <=> z2 = 1
       /\ GetBit(s4, 3) <=> z3 = 1
       /\ GetBit(s4, 4) <=> z4 = 1
       /\ GetBit(s4, 5) <=> z5 = 1
  BY <1>7, <1>12, BitsOfByte
<1>17. \A j \in 0 .. 5 : \/ (j = 0 /\ j + 2 = 2)
                         \/ (j = 1 /\ j + 2 = 3)
                         \/ (j = 2 /\ j + 2 = 4)
                         \/ (j = 3 /\ j + 2 = 5)
                         \/ (j = 4 /\ j + 2 = 6)
                         \/ (j = 5 /\ j + 2 = 7)
  OBVIOUS
<1>18. \A j \in 0 .. 5 : GetBit(s1, j) <=> GetBit(b1, j + 2)
  BY <1>9, <1>13, <1>17, Zenon
<1>19. \A j \in 0 .. 3 : GetBit(s2, j) <=> GetBit(b2, j + 4)
  <2>1. \A j \in 0 .. 3 : \/ (j = 0 /\ j + 4 = 4)
                          \/ (j = 1 /\ j + 4 = 5)
                          \/ (j = 2 /\ j + 4 = 6)
                          \/ (j = 3 /\ j + 4 = 7)
    OBVIOUS
  <2> QED
    BY <1>10, <1>14, <2>1, Zenon
<1>20. \A j \in 4 .. 5 : GetBit(s2, j) <=> GetBit(b1, j - 4)
  <2>1. \A j \in 4 .. 5 : \/ (j = 4 /\ j - 4 = 0)
                          \/ (j = 5 /\ j - 4 = 1)
    OBVIOUS
  <2> QED
    BY <1>9, <1>14, <2>1, Zenon
<1>21. \A j \in 0 .. 1 : GetBit(s3, j) <=> GetBit(b3, j + 6)
  <2>1. \A j \in 0 .. 1 : \/ (j = 0 /\ j + 6 = 6)
                          \/ (j = 1 /\ j + 6 = 7)
    OBVIOUS
  <2> QED
    BY <1>11, <1>15, <2>1, Zenon
<1>22. \A j \in 2 .. 5 : GetBit(s3, j) <=> GetBit(b2, j - 2)
  <2>1. \A j \in 2 .. 5 : \/ (j = 2 /\ j - 2 = 0)
                          \/ (j = 3 /\ j - 2 = 1)
                          \/ (j = 4 /\ j - 2 = 2)
                          \/ (j = 5 /\ j - 2 = 3)
    OBVIOUS
  <2> QED
    BY <1>10, <1>15, <2>1, Zenon
<1>23. \A j \in 0 .. 5 : GetBit(s4, j) <=> GetBit(b3, j)
  <2>1. \A j \in 0 .. 5 : j = 0 \/ j = 1 \/ j = 2 \/ j = 3 \/ j = 4 \/ j = 5
    OBVIOUS
  <2>2. /\ GetBit(s4, 0) <=> GetBit(b3, 0)
        /\ GetBit(s4, 1) <=> GetBit(b3, 1)
        /\ GetBit(s4, 2) <=> GetBit(b3, 2)
        /\ GetBit(s4, 3) <=> GetBit(b3, 3)
        /\ GetBit(s4, 4) <=> GetBit(b3, 4)
        /\ GetBit(s4, 5) <=> GetBit(b3, 5)
    BY <1>11, <1>16, Zenon
  <2>3. ASSUME NEW j \in 0 .. 5 PROVE GetBit(s4, j) <=> GetBit(b3, j)
    <3>1. CASE j = 0
      BY <2>2, <3>1, Zenon
    <3>2. CASE j = 1
      BY <2>2, <3>2, Zenon
    <3>3. CASE j = 2
      BY <2>2, <3>3, Zenon
    <3>4. CASE j = 3
      BY <2>2, <3>4, Zenon
    <3>5. CASE j = 4
      BY <2>2, <3>5, Zenon
    <3>6. CASE j = 5
      BY <2>2, <3>6, Zenon
    <3> QED
      BY <2>1, <3>1, <3>2, <3>3, <3>4, <3>5, <3>6, Zenon
  <2> QED
    BY <2>3, Zenon
<1> QED
  BY <1>8, <1>18, <1>19, <1>20, <1>21, <1>22, <1>23, Zenon

\* What decoding puts together of the characters of a group.
LEMMA TripleOfSextets ==
    ASSUME NEW b1 \in Byte, NEW b2 \in Byte, NEW b3 \in Byte,
           NEW s1, s1 = b1 \div 4,
           NEW s2, s2 = (b1 % 4) * 16 + b2 \div 16,
           NEW s3, s3 = (b2 % 16) * 4 + b3 \div 64,
           NEW s4, s4 = b3 % 64
    PROVE  /\ (s1 * 4 + ((s2 \div 16) % 4)) % 256 = b1
           /\ ((s2 % 16) * 16 + ((s3 \div 4) % 16)) % 256 = b2
           /\ ((s3 % 4) * 64 + s4) % 256 = b3
<1>1. /\ s1 \in 0 .. 63 /\ (s2 \div 16) % 4 = b1 % 4 /\ s1 * 4 + (b1 % 4) = b1
  BY DEF Byte
<1>2. s2 % 16 = b2 \div 16 /\ (s3 \div 4) % 16 = b2 % 16 /\ (b2 \div 16) * 16 + (b2 % 16) = b2
  BY DEF Byte
<1>3. s3 % 4 = b3 \div 64 /\ (b3 \div 64) * 64 + (b3 % 64) = b3
  BY DEF Byte
<1>4. \A b \in Byte : b % 256 = b
  BY DEF Byte
<1> QED
  BY <1>1, <1>2, <1>3, <1>4

\* The bits of the text of bytes, and zeros behind them.
LEMMA BytesBitAt ==
    ASSUME NEW bytes \in Seq(Byte), NEW q \in Nat, NEW i, i = q + 1, NEW j \in 0 .. 7,
           NEW n, n = 8 * q + 7 - j
    PROVE  BytesBit(bytes, n) <=> GetBit(ByteAt(bytes, i), j)
<1>1. Len(bytes) \in Nat /\ DOMAIN bytes = 1 .. Len(bytes)
  BY LenProperties
<1>2. n \div 8 = q /\ n % 8 = 7 - j
  <2>1. 7 - j \in 0 .. 7 /\ n = 8 * q + (7 - j)
    OBVIOUS
  <2> QED
    BY <2>1, GroupParts
<1>3. 7 - (7 - j) = j
  OBVIOUS
<1>4. CASE q < Len(bytes)
  <2>1. n < 8 * Len(bytes) /\ i \in 1 .. Len(bytes)
    BY <1>1, <1>4
  <2> QED
    BY <1>1, <1>2, <1>3, <2>1 DEF BytesBit, ByteAt
<1>5. CASE q >= Len(bytes)
  <2>1. ~ (n < 8 * Len(bytes)) /\ i \notin 1 .. Len(bytes)
    BY <1>1, <1>5
  <2>2. ByteAt(bytes, i) = 0
    BY <1>1, <2>1 DEF ByteAt
  <2>3. ~ GetBit(0, j)
    <3>1. /\ ~ GetBit(0, 0) /\ ~ GetBit(0, 1) /\ ~ GetBit(0, 2) /\ ~ GetBit(0, 3)
          /\ ~ GetBit(0, 4) /\ ~ GetBit(0, 5) /\ ~ GetBit(0, 6) /\ ~ GetBit(0, 7)
      BY Powers DEF GetBit
    <3>2. \/ j = 0 \/ j = 1 \/ j = 2 \/ j = 3 \/ j = 4 \/ j = 5 \/ j = 6 \/ j = 7
      OBVIOUS
    <3> QED
      BY <3>1, <3>2, Zenon
  <2> QED
    BY <2>1, <2>2, <2>3 DEF BytesBit
<1> QED
  BY <1>1, <1>4, <1>5

\* The character that base64_encode makes of six bits.
LEMMA CharHasBits ==
    ASSUME NEW bytes \in Seq(Byte), NEW g \in Nat, NEW k \in 0 .. 3,
           NEW v, v = Sextets(bytes, 3 * g + 1)[k + 1]
    PROVE  /\ v \in Sextet
           /\ \A bit \in 0 .. 5 : GetBit(v, bit) <=> BytesBit(bytes, 6 * (4 * g + k) + 5 - bit)
<1> DEFINE i == 3 * g + 1
           b1 == ByteAt(bytes, i)
           b2 == ByteAt(bytes, i + 1)
           b3 == ByteAt(bytes, i + 2)
           s1 == b1 \div 4
           s2 == (b1 % 4) * 16 + b2 \div 16
           s3 == (b2 % 16) * 4 + b3 \div 64
           s4 == b3 % 64
<1>1. b1 \in Byte /\ b2 \in Byte /\ b3 \in Byte
  <2>1. \A j : ByteAt(bytes, j) \in Byte
    <3> TAKE j
    <3>1. DOMAIN bytes = 1 .. Len(bytes) /\ 0 \in Byte
      BY LenProperties DEF Byte
    <3> QED
      BY <3>1, ElementOfSeq DEF ByteAt
  <2> QED
    BY <2>1
<1>2. v = << s1, s2, s3, s4 >>[k + 1]
  BY DEF Sextets
<1> HIDE DEF b1, b2, b3
<1>3. /\ s1 \in Sextet /\ s2 \in Sextet /\ s3 \in Sextet /\ s4 \in Sextet
      /\ \A j \in 0 .. 5 : GetBit(s1, j) <=> GetBit(b1, j + 2)
      /\ \A j \in 0 .. 3 : GetBit(s2, j) <=> GetBit(b2, j + 4)
      /\ \A j \in 4 .. 5 : GetBit(s2, j) <=> GetBit(b1, j - 4)
      /\ \A j \in 0 .. 1 : GetBit(s3, j) <=> GetBit(b3, j + 6)
      /\ \A j \in 2 .. 5 : GetBit(s3, j) <=> GetBit(b2, j - 2)
      /\ \A j \in 0 .. 5 : GetBit(s4, j) <=> GetBit(b3, j)
  BY <1>1, SextetBits
<1> HIDE DEF s1, s2, s3, s4
<1>4. ASSUME NEW j \in 0 .. 7, NEW n
      PROVE  /\ n = 8 * (3 * g) + 7 - j => (BytesBit(bytes, n) <=> GetBit(b1, j))
             /\ n = 8 * (3 * g + 1) + 7 - j => (BytesBit(bytes, n) <=> GetBit(b2, j))
             /\ n = 8 * (3 * g + 2) + 7 - j => (BytesBit(bytes, n) <=> GetBit(b3, j))
  <2> DEFINE q1 == 3 * g
             q2 == 3 * g + 1
             q3 == 3 * g + 2
  <2>1. q1 \in Nat /\ q2 \in Nat /\ q3 \in Nat
    OBVIOUS
  <2>2. b1 = ByteAt(bytes, q1 + 1) /\ b2 = ByteAt(bytes, q2 + 1) /\ b3 = ByteAt(bytes, q3 + 1)
    <3>1. i = q1 + 1 /\ i + 1 = q2 + 1 /\ i + 2 = q3 + 1
      OBVIOUS
    <3> HIDE DEF i, q1, q2, q3
    <3> QED
      BY <3>1 DEF b1, b2, b3
  <2> HIDE DEF q1, q2, q3
  <2>3. n = 8 * q1 + 7 - j => (BytesBit(bytes, n) <=> GetBit(b1, j))
    BY <2>1, <2>2, BytesBitAt
  <2>4. n = 8 * q2 + 7 - j => (BytesBit(bytes, n) <=> GetBit(b2, j))
    BY <2>1, <2>2, BytesBitAt
  <2>5. n = 8 * q3 + 7 - j => (BytesBit(bytes, n) <=> GetBit(b3, j))
    BY <2>1, <2>2, BytesBitAt
  <2> QED
    BY <2>3, <2>4, <2>5 DEF q1, q2, q3
<1> HIDE DEF i
<1>5. CASE k = 0
  <2>1. v = s1
    BY <1>2, <1>5
  <2>2. ASSUME NEW bit \in 0 .. 5
        PROVE  GetBit(s1, bit) <=> BytesBit(bytes, 6 * (4 * g + k) + 5 - bit)
    <3>1. bit + 2 \in 0 .. 7 /\ 6 * (4 * g + k) + 5 - bit = 8 * (3 * g) + 7 - (bit + 2)
      BY <1>5
    <3> QED
      BY <1>3, <1>4, <3>1
  <2> QED
    BY <1>3, <2>1, <2>2
<1>6. CASE k = 1
  <2>1. v = s2
    BY <1>2, <1>6
  <2>2. ASSUME NEW bit \in 0 .. 5
        PROVE  GetBit(s2, bit) <=> BytesBit(bytes, 6 * (4 * g + k) + 5 - bit)
    <3>1. CASE bit \in 0 .. 3
      <4>1. bit + 4 \in 0 .. 7 /\ 6 * (4 * g + k) + 5 - bit = 8 * (3 * g + 1) + 7 - (bit + 4)
        BY <1>6, <3>1
      <4> QED
        BY <1>3, <1>4, <3>1, <4>1
    <3>2. CASE bit \in 4 .. 5
      <4>1. bit - 4 \in 0 .. 7 /\ 6 * (4 * g + k) + 5 - bit = 8 * (3 * g) + 7 - (bit - 4)
        BY <1>6, <3>2
      <4> QED
        BY <1>3, <1>4, <3>2, <4>1
    <3> QED
      BY <3>1, <3>2
  <2> QED
    BY <1>3, <2>1, <2>2
<1>7. CASE k = 2
  <2>1. v = s3
    BY <1>2, <1>7
  <2>2. ASSUME NEW bit \in 0 .. 5
        PROVE  GetBit(s3, bit) <=> BytesBit(bytes, 6 * (4 * g + k) + 5 - bit)
    <3>1. CASE bit \in 0 .. 1
      <4>1. bit + 6 \in 0 .. 7 /\ 6 * (4 * g + k) + 5 - bit = 8 * (3 * g + 2) + 7 - (bit + 6)
        BY <1>7, <3>1
      <4> QED
        BY <1>3, <1>4, <3>1, <4>1
    <3>2. CASE bit \in 2 .. 5
      <4>1. bit - 2 \in 0 .. 7 /\ 6 * (4 * g + k) + 5 - bit = 8 * (3 * g + 1) + 7 - (bit - 2)
        BY <1>7, <3>2
      <4> QED
        BY <1>3, <1>4, <3>2, <4>1
    <3> QED
      BY <3>1, <3>2
  <2> QED
    BY <1>3, <2>1, <2>2
<1>8. CASE k = 3
  <2>1. v = s4
    BY <1>2, <1>8
  <2>2. ASSUME NEW bit \in 0 .. 5
        PROVE  GetBit(s4, bit) <=> BytesBit(bytes, 6 * (4 * g + k) + 5 - bit)
    <3>1. bit \in 0 .. 7 /\ 6 * (4 * g + k) + 5 - bit = 8 * (3 * g + 2) + 7 - bit
      BY <1>8
    <3> QED
      BY <1>3, <1>4, <3>1
  <2> QED
    BY <1>3, <2>1, <2>2
<1> QED
  BY <1>5, <1>6, <1>7, <1>8

\* There are as many characters as it takes for the bits.
LEMMA CharCounts ==
    ASSUME NEW n \in Nat
    PROVE  /\ CharCount(n) \in Nat
           /\ CharCount(n) = (8 * n + 5) \div 6
           /\ CharCount(n) <= 4 * ((n + 2) \div 3)
           /\ (n + 2) \div 3 \in Nat
           /\ ByteCount(CharCount(n)) = n
           /\ (6 * CharCount(n)) \div 8 = n
<1>1. PICK q \in Nat, r \in 0 .. 2 : n = 3 * q + r
  BY Groups
<1>2. n \div 3 = q /\ n % 3 = r
  BY <1>1, GroupParts
<1>3. CASE r = 0
  <2>1. CharCount(n) = 4 * q
    BY <1>2, <1>3 DEF CharCount
  <2>2. (8 * n + 5) \div 6 = 4 * q /\ (n + 2) \div 3 = q
    BY <1>1, <1>3
  <2>3. ByteCount(4 * q) = n
    BY <1>1, <1>3 DEF ByteCount
  <2>4. (6 * (4 * q)) \div 8 = n
    BY <1>1, <1>3
  <2> QED
    BY <2>1, <2>2, <2>3, <2>4
<1>4. CASE r = 1
  <2>1. CharCount(n) = 4 * q + 2
    BY <1>2, <1>4 DEF CharCount
  <2>2. (8 * n + 5) \div 6 = 4 * q + 2 /\ (n + 2) \div 3 = q + 1
    BY <1>1, <1>4
  <2>3. ByteCount(4 * q + 2) = n
    BY <1>1, <1>4 DEF ByteCount
  <2>4. (6 * (4 * q + 2)) \div 8 = n
    BY <1>1, <1>4
  <2> QED
    BY <2>1, <2>2, <2>3, <2>4
<1>5. CASE r = 2
  <2>1. CharCount(n) = 4 * q + 3
    BY <1>2, <1>5 DEF CharCount
  <2>2. (8 * n + 5) \div 6 = 4 * q + 3 /\ (n + 2) \div 3 = q + 1
    BY <1>1, <1>5
  <2>3. ByteCount(4 * q + 3) = n
    BY <1>1, <1>5 DEF ByteCount
  <2>4. (6 * (4 * q + 3)) \div 8 = n
    BY <1>1, <1>5
  <2> QED
    BY <2>1, <2>2, <2>3, <2>4
<1> QED
  BY <1>3, <1>4, <1>5

\* A client encodes as the server does.
LEMMA EncodesAlike ==
    ASSUME NEW bytes \in Seq(Byte)
    PROVE  base64_encode(bytes) = ClientEncode(bytes)
<1> DEFINE n == Len(bytes)
           m == CharCount(n)
           total == 4 * ((n + 2) \div 3)
           Server(c) == Sextets(bytes, 3 * ((c - 1) \div 4) + 1)[((c - 1) % 4) + 1]
           Client(c) == ByteOf({bit \in 0 .. 5 : BytesBit(bytes, 6 * (c - 1) + 5 - bit)})
<1>1. n \in Nat
  BY LenProperties
<1>2. m \in Nat /\ m = (8 * n + 5) \div 6
  BY <1>1, CharCounts
<1>3. ASSUME NEW c \in 1 .. total PROVE Server(c) = Client(c)
  <2>1. c - 1 \in Nat
    <3>1. c \in Int /\ 1 <= c
      BY <1>3
    <3> QED
      BY <3>1
  <2>2. PICK g \in Nat, k \in 0 .. 3 : c - 1 = 4 * g + k
    BY <2>1, Groups
  <2>3. (c - 1) \div 4 = g /\ (c - 1) % 4 = k
    BY <2>2, GroupParts
  <2>4. Server(c) = Sextets(bytes, 3 * g + 1)[k + 1]
    BY <2>3
  <2> DEFINE v == Server(c)
             w == Client(c)
             S == {bit \in 0 .. 5 : BytesBit(bytes, 6 * (c - 1) + 5 - bit)}
  <2>5. /\ v \in Sextet
        /\ \A bit \in 0 .. 5 : GetBit(v, bit) <=> BytesBit(bytes, 6 * (4 * g + k) + 5 - bit)
    <3> HIDE DEF Server
    <3> QED
      BY <2>4, CharHasBits
  <2>6. w \in Byte /\ \A bit \in 0 .. 7 : GetBit(w, bit) <=> bit \in S
    <3> HIDE DEF S
    <3>1. w = ByteOf(S)
      BY DEF S
    <3> QED
      BY <3>1, ByteOfHas
  <2>7. ASSUME NEW bit \in 0 .. 7 PROVE GetBit(v, bit) <=> bit \in S
    <3>1. CASE bit \in 0 .. 5
      <4>1. GetBit(v, bit) <=> BytesBit(bytes, 6 * (c - 1) + 5 - bit)
        BY <2>2, <2>5, <3>1
      <4> QED
        BY <3>1, <4>1
    <3>2. CASE bit \in 6 .. 7
      <4> HIDE DEF v
      <4>0. v \in 0 .. 63
        BY <2>5 DEF Sextet
      <4>1. v \div 64 = 0 /\ v \div 128 = 0 /\ 0 % 2 = 0
        BY <4>0
      <4>2. ~ GetBit(v, 6) /\ ~ GetBit(v, 7)
        BY <4>1, Powers DEF GetBit
      <4>3. bit = 6 \/ bit = 7
        BY <3>2
      <4>4. bit \notin S
        BY <4>3
      <4> QED
        BY <4>2, <4>3, <4>4
    <3> QED
      BY <3>1, <3>2
  <2> HIDE DEF v, w, S, Server, Client
  <2>8. v \in Byte
    BY <2>5 DEF Sextet, Byte
  <2>9. v = w
    BY <2>6, <2>7, <2>8, SameBits
  <2> QED
    BY <2>9 DEF v, w
<1> HIDE DEF Server, Client
<1>4. base64_encode(bytes) = [c \in 1 .. total |-> IF c <= m THEN Server(c) ELSE Pad]
  BY DEF base64_encode, Server
<1>5. ClientEncode(bytes) = [c \in 1 .. total |-> IF c <= m THEN Client(c) ELSE Pad]
  BY <1>2 DEF ClientEncode, Client
<1> HIDE DEF n, m, total
<1> QED
  BY <1>3, <1>4, <1>5

\* The text of bytes: its characters, and the padding behind them.
LEMMA TextOf ==
    ASSUME NEW bytes \in Seq(Byte), NEW n, n = Len(bytes), NEW m, m = CharCount(n),
           NEW t, t = ClientEncode(bytes)
    PROVE  /\ n \in Nat /\ m \in Nat
           /\ t \in Seq(Char)
           /\ Len(t) = 4 * ((n + 2) \div 3) /\ DOMAIN t = 1 .. Len(t)
           /\ m <= Len(t)
           /\ \A g \in Nat, k \in 0 .. 3 : 4 * g + k + 1 <= m =>
                 t[4 * g + k + 1] = Sextets(bytes, 3 * g + 1)[k + 1]
           /\ \A c \in 1 .. m :
                 /\ t[c] \in Sextet
                 /\ \A bit \in 0 .. 5 : GetBit(t[c], bit) <=> BytesBit(bytes, 6 * (c - 1) + 5 - bit)
           /\ \A c \in m + 1 .. Len(t) : t[c] = Pad
<1> DEFINE total == 4 * ((n + 2) \div 3)
           Server(c) == Sextets(bytes, 3 * ((c - 1) \div 4) + 1)[((c - 1) % 4) + 1]
<1>1. n \in Nat /\ m \in Nat /\ m <= total /\ total \in Nat
  BY LenProperties, CharCounts
<1>2. t = [c \in 1 .. total |-> IF c <= m THEN Server(c) ELSE Pad]
  BY EncodesAlike DEF base64_encode
<1>3. ASSUME NEW c \in 1 .. m
      PROVE  /\ Server(c) \in Sextet
             /\ \A bit \in 0 .. 5 :
                   GetBit(Server(c), bit) <=> BytesBit(bytes, 6 * (c - 1) + 5 - bit)
  <2>1. c - 1 \in Nat
    <3>1. c \in Int /\ 1 <= c
      BY <1>3
    <3> QED
      BY <3>1
  <2>2. PICK g \in Nat, k \in 0 .. 3 : c - 1 = 4 * g + k
    BY <2>1, Groups
  <2>3. (c - 1) \div 4 = g /\ (c - 1) % 4 = k
    BY <2>2, GroupParts
  <2> DEFINE v == Server(c)
  <2>4. v = Sextets(bytes, 3 * g + 1)[k + 1]
    BY <2>3
  <2> HIDE DEF v
  <2>5. /\ v \in Sextet
        /\ \A bit \in 0 .. 5 : GetBit(v, bit) <=> BytesBit(bytes, 6 * (4 * g + k) + 5 - bit)
    BY <2>4, CharHasBits
  <2>6. /\ v \in Sextet
        /\ \A bit \in 0 .. 5 : GetBit(v, bit) <=> BytesBit(bytes, 6 * (c - 1) + 5 - bit)
    BY <2>2, <2>5
  <2> QED
    BY <2>6 DEF v
<1>4. ASSUME NEW g \in Nat, NEW k \in 0 .. 3
      PROVE  Server(4 * g + k + 1) = Sextets(bytes, 3 * g + 1)[k + 1]
  <2>1. (4 * g + k + 1) - 1 = 4 * g + k
    OBVIOUS
  <2>2. (4 * g + k) \div 4 = g /\ (4 * g + k) % 4 = k
    BY GroupParts
  <2> QED
    BY <2>1, <2>2
<1> HIDE DEF Server, total
<1>5. \A c \in 1 .. m : c \in 1 .. total /\ t[c] = Server(c)
  BY <1>1, <1>2
<1>6. \A c \in m + 1 .. total : t[c] = Pad
  BY <1>1, <1>2
<1>7. \A c \in 1 .. total : t[c] \in Char
  <2> TAKE c \in 1 .. total
  <2>1. CASE c <= m
    <3>1. c \in 1 .. m
      BY <1>1, <2>1
    <3>2. t[c] \in Sextet
      BY <1>3, <1>5, <3>1
    <3> QED
      BY <3>2 DEF Char
  <2>2. CASE ~ (c <= m)
    <3>1. t[c] = Pad
      BY <1>2, <2>2
    <3> QED
      BY <3>1 DEF Char
  <2> QED
    BY <2>1, <2>2
<1>8. t \in Seq(Char) /\ Len(t) = total /\ DOMAIN t = 1 .. total
  <2>1. DOMAIN t = 1 .. total
    BY <1>2
  <2>2. t = [c \in 1 .. total |-> t[c]]
    BY <1>2
  <2>3. t \in [1 .. total -> Char]
    BY <1>7, <2>2
  <2>4. t \in Seq(Char)
    BY <1>1, <2>3
  <2> QED
    BY <1>1, <2>1, <2>4, LenProperties
<1>9. \A g \in Nat, k \in 0 .. 3 : 4 * g + k + 1 <= m =>
         t[4 * g + k + 1] = Sextets(bytes, 3 * g + 1)[k + 1]
  <2> TAKE g \in Nat, k \in 0 .. 3
  <2> HAVE 4 * g + k + 1 <= m
  <2>1. 4 * g + k + 1 \in 1 .. m
    BY <1>1
  <2> QED
    BY <1>4, <1>5, <2>1
<1>10. \A c \in 1 .. m :
          /\ t[c] \in Sextet
          /\ \A bit \in 0 .. 5 : GetBit(t[c], bit) <=> BytesBit(bytes, 6 * (c - 1) + 5 - bit)
  BY <1>3, <1>5
<1> QED
  BY <1>1, <1>6, <1>8, <1>9, <1>10 DEF total

\* A member of a set that none exceeds, or none is below, is what Max or Min give.
LEMMA LastIs ==
    ASSUME NEW S \in SUBSET Int, NEW m \in S, \A x \in S : x <= m
    PROVE  Max(S) = m
<1>1. \A y \in S : (\A x \in S : y >= x) => y = m
  OBVIOUS
<1>2. \A x \in S : m >= x
  OBVIOUS
<1> QED
  BY <1>1, <1>2 DEF Max

LEMMA FirstIs ==
    ASSUME NEW S \in SUBSET Int, NEW m \in S, \A x \in S : m <= x
    PROVE  Min(S) = m
<1>1. \A y \in S : (\A x \in S : y <= x) => y = m
  OBVIOUS
<1> QED
  BY <1>1 DEF Min

\* The client reads from its text the bytes it made it of.
LEMMA ClientReads ==
    ASSUME NEW bytes \in Seq(Byte)
    PROVE  ClientDecode(ClientEncode(bytes)) = bytes
<1> DEFINE t == ClientEncode(bytes)
           n == Len(bytes)
           m == CharCount(n)
<1>0. n \in Nat /\ m \in Nat /\ t \in Seq(Char) /\ m <= Len(t)
  BY TextOf
<1>1. /\ \A c \in 1 .. m :
            /\ t[c] \in Sextet
            /\ \A bit \in 0 .. 5 : GetBit(t[c], bit) <=> BytesBit(bytes, 6 * (c - 1) + 5 - bit)
      /\ \A c \in m + 1 .. Len(t) : t[c] = Pad
  BY TextOf
<1>2. m = (8 * n + 5) \div 6 /\ (6 * m) \div 8 = n
  BY <1>0, CharCounts
<1> HIDE DEF t, m, n
<1>3. Len(t) \in Nat /\ m \in Nat /\ m <= Len(t) /\ DOMAIN t = 1 .. Len(t)
  BY <1>0, LenProperties
<1>4. Min({Len(t) + 1} \union {c \in DOMAIN t : t[c] = Pad}) = m + 1
  <2> DEFINE S == {Len(t) + 1} \union {c \in DOMAIN t : t[c] = Pad}
  <2>1. S \in SUBSET Int
    BY <1>3
  <2>2. m + 1 \in S
    <3>1. CASE m = Len(t)
      BY <3>1
    <3>2. CASE m < Len(t)
      <4>1. m + 1 \in m + 1 .. Len(t) /\ m + 1 \in DOMAIN t
        BY <1>3, <3>2
      <4>2. t[m + 1] = Pad
        BY <1>1, <4>1
      <4> QED
        BY <4>1, <4>2
    <3>3. m = Len(t) \/ m < Len(t)
      <4>1. \A a, b \in Nat : a <= b => a = b \/ a < b
        OBVIOUS
      <4> QED
        BY <1>3, <4>1
    <3> QED
      BY <3>1, <3>2, <3>3
  <2>3. \A x \in S : m + 1 <= x
    <3> TAKE x \in S
    <3>1. CASE x = Len(t) + 1
      BY <1>3, <3>1
    <3>2. CASE x \in DOMAIN t /\ t[x] = Pad
      <4>1. x \notin 1 .. m
        <5>1. \A c \in 1 .. m : t[c] \in Sextet
          BY <1>1
        <5>2. Pad \notin Sextet
          BY DEF Sextet, Pad
        <5> QED
          BY <3>2, <5>1, <5>2
      <4> QED
        BY <1>3, <3>2, <4>1
    <3> QED
      BY <3>1, <3>2
  <2> HIDE DEF S
  <2>4. Min(S) = m + 1
    BY <2>1, <2>2, <2>3, FirstIs
  <2> QED
    BY <2>4 DEF S
<1>5. /\ Len(Characters(t)) = m
      /\ \A c \in 1 .. m : Characters(t)[c] = t[c]
  <2>1. Characters(t) = SubSeq(t, 1, m)
    <3>1. (m + 1) - 1 = m
      BY <1>3
    <3> QED
      BY <1>4, <3>1 DEF Characters
  <2>2. 0 \in 0 .. Len(t) /\ m \in 0 .. Len(t) /\ 0 + 1 = 1 /\ m - 0 = m
        /\ \A c \in 1 .. m : 0 + c = c
    BY <1>3
  <2>3. /\ Len(SubSeq(t, 0 + 1, m)) = m - 0
        /\ \A c \in 1 .. m - 0 : SubSeq(t, 0 + 1, m)[c] = t[0 + c]
    BY <1>0, <2>2, Slice
  <2>4. /\ Len(SubSeq(t, 1, m)) = m
        /\ \A c \in 1 .. m : SubSeq(t, 1, m)[c] = t[c]
    BY <2>2, <2>3
  <2> QED
    BY <2>1, <2>4
<1>6. ASSUME NEW x \in Nat, x < 8 * n
      PROVE  TextBit(t, x) <=> BytesBit(bytes, x)
  <2>1. PICK g \in Nat, r \in 0 .. 5 : x = 6 * g + r
    BY Groups
  <2>2. x \div 6 = g /\ x % 6 = r
    BY <2>1, GroupParts
  <2>3. 6 * m >= 8 * n
    BY <1>0, <1>2
  <2>4. g + 1 \in 1 .. m /\ 5 - r \in 0 .. 5 /\ 6 * ((g + 1) - 1) + 5 - (5 - r) = x
    BY <1>0, <1>6, <2>1, <2>3
  <2>5. GetBit(t[g + 1], 5 - r) <=> BytesBit(bytes, 6 * ((g + 1) - 1) + 5 - (5 - r))
    BY <1>1, <2>4
  <2>6. TextBit(t, x) = GetBit(t[g + 1], 5 - r)
    BY <1>5, <2>2, <2>4 DEF TextBit
  <2> QED
    BY <2>4, <2>5, <2>6
<1>7. ASSUME NEW i \in 1 .. n
      PROVE  ByteOf({bit \in 0 .. 7 : TextBit(t, 8 * (i - 1) + 7 - bit)}) = bytes[i]
  <2>1. i - 1 \in Nat /\ i = (i - 1) + 1 /\ bytes[i] \in Byte /\ ByteAt(bytes, i) = bytes[i]
    <3>1. i - 1 \in Nat /\ i = (i - 1) + 1
      BY <1>0
    <3>2. bytes[i] \in Byte /\ i \in DOMAIN bytes
      BY <1>0, ElementOfSeq, LenProperties DEF n
    <3> QED
      BY <3>1, <3>2 DEF ByteAt
  <2>2. ASSUME NEW bit \in 0 .. 7
        PROVE  TextBit(t, 8 * (i - 1) + 7 - bit) <=> GetBit(bytes[i], bit)
    <3>1. /\ 8 * (i - 1) + 7 - bit \in Nat
          /\ 8 * (i - 1) + 7 - bit < 8 * n
      BY <1>0, <2>1
    <3>2. TextBit(t, 8 * (i - 1) + 7 - bit) <=> BytesBit(bytes, 8 * (i - 1) + 7 - bit)
      BY <1>6, <3>1
    <3>3. BytesBit(bytes, 8 * (i - 1) + 7 - bit) <=> GetBit(ByteAt(bytes, i), bit)
      BY <2>1, BytesBitAt
    <3> QED
      BY <2>1, <3>2, <3>3
  <2>3. {bit \in 0 .. 7 : TextBit(t, 8 * (i - 1) + 7 - bit)} = {bit \in 0 .. 7 : GetBit(bytes[i], bit)}
    BY <2>2
  <2> QED
    BY <2>1, <2>3, ByteOfBits
<1>8. ClientDecode(t)
        = [i \in 1 .. n |-> ByteOf({bit \in 0 .. 7 : TextBit(t, 8 * (i - 1) + 7 - bit)})]
  BY <1>2, <1>5 DEF ClientDecode
<1>9. ClientDecode(t) = [i \in 1 .. n |-> bytes[i]]
  BY <1>7, <1>8
<1>10. bytes = [i \in 1 .. n |-> bytes[i]]
  BY LenProperties DEF n
<1> QED
  BY <1>9, <1>10 DEF t

\* The server reads from it the same bytes: what stands in for the characters missing in
\* the last group falls out of them.
LEMMA ServerReads ==
    ASSUME NEW bytes \in Seq(Byte)
    PROVE  base64_decode(ClientEncode(bytes)) = bytes
<1> DEFINE t == ClientEncode(bytes)
           n == Len(bytes)
           m == CharCount(n)
<1>1. /\ n \in Nat /\ m \in Nat /\ t \in Seq(Char)
      /\ m <= Len(t)
      /\ \A g \in Nat, k \in 0 .. 3 : 4 * g + k + 1 <= m =>
            t[4 * g + k + 1] = Sextets(bytes, 3 * g + 1)[k + 1]
      /\ \A c \in 1 .. m : t[c] \in Sextet
      /\ \A c \in m + 1 .. Len(t) : t[c] = Pad
  BY TextOf
<1>2. ByteCount(m) = n /\ m = (8 * n + 5) \div 6
  BY <1>1, CharCounts
<1>3. Len(t) \in Nat
  BY LenProperties, <1>1
<1> HIDE DEF t, n, m
<1>4. Decodable(t) = m
  <2> DEFINE S == {k \in 0 .. Len(t) : \A c \in 1 .. k : t[c] \in Sextet}
  <2>1. S \in SUBSET Int /\ m \in S
    BY <1>1, <1>3
  <2>2. ASSUME NEW x \in S PROVE x <= m
    <3>1. SUFFICES ASSUME x > m PROVE FALSE
      BY <1>1, <1>3
    <3>2. m + 1 \in 1 .. x /\ m + 1 \in m + 1 .. Len(t)
      BY <1>1, <1>3, <3>1
    <3>3. t[m + 1] \in Sextet /\ t[m + 1] = Pad
      BY <1>1, <3>2
    <3> QED
      BY <3>3 DEF Sextet, Pad
  <2> HIDE DEF S
  <2>3. Max(S) = m
    BY <2>1, <2>2, LastIs
  <2> QED
    BY <2>3 DEF S, Decodable
<1>5. ASSUME NEW i \in 1 .. n
      PROVE  Triple(t, 4 * ((i - 1) \div 3) + 1)[((i - 1) % 3) + 1] = bytes[i]
  <2>1. i - 1 \in Nat /\ i \in Int
    BY <1>1
  <2>2. PICK g \in Nat, k \in 0 .. 2 : i - 1 = 3 * g + k
    BY <2>1, Groups
  <2>3. (i - 1) \div 3 = g /\ (i - 1) % 3 = k /\ i = 3 * g + k + 1
    BY <2>1, <2>2, GroupParts
  <2> DEFINE j == 3 * g + 1
             c == 4 * g + 1
             b1 == ByteAt(bytes, j)
             b2 == ByteAt(bytes, j + 1)
             b3 == ByteAt(bytes, j + 2)
             s1 == b1 \div 4
             s2 == (b1 % 4) * 16 + b2 \div 16
             s3 == (b2 % 16) * 4 + b3 \div 64
             s4 == b3 % 64
             a1 == CharAt(t, c)
             a2 == CharAt(t, c + 1)
             a3 == CharAt(t, c + 2)
             a4 == CharAt(t, c + 3)
  <2>4. b1 \in Byte /\ b2 \in Byte /\ b3 \in Byte
    <3>1. \A x : ByteAt(bytes, x) \in Byte
      <4> TAKE x
      <4>1. DOMAIN bytes = 1 .. Len(bytes) /\ 0 \in Byte
        BY LenProperties DEF Byte
      <4> QED
        BY <4>1, ElementOfSeq DEF ByteAt
    <3> QED
      BY <3>1
  <2>5. Sextets(bytes, 3 * g + 1) = << s1, s2, s3, s4 >>
    BY DEF Sextets
  <2>6. /\ (s1 * 4 + ((s2 \div 16) % 4)) % 256 = b1
        /\ ((s2 % 16) * 16 + ((s3 \div 4) % 16)) % 256 = b2
        /\ ((s3 % 4) * 64 + s4) % 256 = b3
    <3>1. /\ s1 = b1 \div 4 /\ s2 = (b1 % 4) * 16 + b2 \div 16
          /\ s3 = (b2 % 16) * 4 + b3 \div 64 /\ s4 = b3 % 64
      OBVIOUS
    <3> HIDE DEF b1, b2, b3, s1, s2, s3, s4
    <3> QED
      BY <2>4, <3>1, TripleOfSextets
  <2>7. ASSUME NEW x \in 0 .. 3, 4 * g + x + 1 <= m
        PROVE  CharAt(t, 4 * g + x + 1) = << s1, s2, s3, s4 >>[x + 1]
    <3>1. t[4 * g + x + 1] = Sextets(bytes, 3 * g + 1)[x + 1]
      BY <1>1, <2>7
    <3> HIDE DEF s1, s2, s3, s4
    <3> DEFINE place == 4 * g + x + 1
    <3>2. place <= m
      BY <2>7
    <3> HIDE DEF place
    <3>3. CharAt(t, place) = t[place]
      BY <1>4, <3>2 DEF CharAt
    <3> QED
      BY <2>5, <3>1, <3>3 DEF place
  <2>8. ByteAt(bytes, i) = bytes[i]
    BY <1>5, LenProperties DEF ByteAt, n
  <2>9. Triple(t, c) = << (a1 * 4 + ((a2 \div 16) % 4)) % 256,
                          ((a2 % 16) * 16 + ((a3 \div 4) % 16)) % 256,
                          ((a3 % 4) * 64 + a4) % 256 >>
    BY DEF Triple
  <2> HIDE DEF b1, b2, b3, s1, s2, s3, s4
  <2>10. /\ 4 * g + 0 + 1 = c /\ 4 * g + 1 + 1 = c + 1
         /\ 4 * g + 2 + 1 = c + 2 /\ 4 * g + 3 + 1 = c + 3
    OBVIOUS
  <2> HIDE DEF c
  <2>11. 6 * m >= 8 * n /\ 8 * n >= 8 * (3 * g + k + 1)
    BY <1>1, <1>2, <2>3
  <2>12. CASE k = 0
    <3>1. 4 * g + 0 + 1 <= m /\ 4 * g + 1 + 1 <= m
      BY <1>1, <2>11, <2>12
    <3>2. a1 = s1 /\ a2 = s2
      BY <2>7, <2>10, <3>1
    <3>3. Triple(t, c)[1] = b1 /\ bytes[i] = b1
      BY <2>3, <2>6, <2>8, <2>9, <2>12, <3>2 DEF b1
    <3> QED
      BY <2>3, <2>12, <3>3 DEF c
  <2>13. CASE k = 1
    <3>1. 4 * g + 1 + 1 <= m /\ 4 * g + 2 + 1 <= m
      BY <1>1, <2>11, <2>13
    <3>2. a2 = s2 /\ a3 = s3
      BY <2>7, <2>10, <3>1
    <3>3. j + 1 = i
      BY <2>3, <2>13
    <3>4. Triple(t, c)[2] = b2 /\ bytes[i] = b2
      BY <2>6, <2>8, <2>9, <3>2, <3>3 DEF b2
    <3> QED
      BY <2>3, <2>13, <3>4 DEF c
  <2>14. CASE k = 2
    <3>1. 4 * g + 2 + 1 <= m /\ 4 * g + 3 + 1 <= m
      BY <1>1, <2>11, <2>14
    <3>2. a3 = s3 /\ a4 = s4
      BY <2>7, <2>10, <3>1
    <3>3. j + 2 = i
      BY <2>3, <2>14
    <3>4. Triple(t, c)[3] = b3 /\ bytes[i] = b3
      BY <2>6, <2>8, <2>9, <3>2, <3>3 DEF b3
    <3> QED
      BY <2>3, <2>14, <3>4 DEF c
  <2> QED
    BY <2>12, <2>13, <2>14
<1>6. base64_decode(t) = [i \in 1 .. n |-> Triple(t, 4 * ((i - 1) \div 3) + 1)[((i - 1) % 3) + 1]]
  BY <1>2, <1>4 DEF base64_decode
<1>7. base64_decode(t) = [i \in 1 .. n |-> bytes[i]]
  BY <1>5, <1>6
<1>8. bytes = [i \in 1 .. n |-> bytes[i]]
  BY LenProperties DEF n
<1> QED
  BY <1>7, <1>8 DEF t

--------------------------------------------------------------------------------
(* HammingCoder: messages. *)

\* Sizes: two blocks for a byte.
LEMMA CoderSizes ==
    ASSUME NEW n \in Nat
    PROVE  /\ encoded_size(n) = 2 * n
           /\ decoded_size(n) = n \div 2 /\ decoded_size(n) \in Nat
           /\ 2 * decoded_size(n) <= n /\ n <= 2 * decoded_size(n) + 1
           /\ BlocksWritten(n) > encoded_size(n) <=> n = 0
           /\ BitsWritten(n) > CHBits * decoded_size(n) <=> n % 2 = 1
<1>1. PICK q \in Nat, r \in 0 .. 1 : n = 2 * q + r
  BY Groups
<1>2. n \div 2 = q /\ n % 2 = r
  BY <1>1, GroupParts
<1>3. (n * 8) \div 4 = 2 * n /\ (n * 4) \div 8 = q
  BY <1>1
<1>4. encoded_size(n) = 2 * n /\ decoded_size(n) = q
  BY <1>3 DEF encoded_size, decoded_size, CHBits, InfoBits
<1>5. BlocksWritten(n) > encoded_size(n) <=> n = 0
  BY <1>4 DEF BlocksWritten
<1>6. BitsWritten(n) > CHBits * decoded_size(n) <=> n % 2 = 1
  BY <1>1, <1>2, <1>4 DEF BitsWritten, CHBits, InfoBits
<1> QED
  BY <1>1, <1>2, <1>4, <1>5, <1>6

\* What comes of a block with at most one bit turned.
LEMMA BlockOutcome ==
    ASSUME NEW info \in Info, NEW stale \in Block, NEW d \in Block, NEW hits \in SUBSET (1 .. 8),
           \A i, j \in hits : i = j,
           \A i \in 1 .. 8 : d[i] <=> ~ (EncodeBlock(info, stale)[i] <=> i \in hits)
    PROVE  /\ \A k \in 1 .. InfoBits : DecodeBlock(d)[k] = info[k]
           /\ ErrIndex(d) # 0 <=> \E i \in hits : i <= PacketBits
<1> DEFINE e == EncodeBlock(info, stale)
<1>1. CodeWord(e) /\ \A k \in 1 .. InfoBits : e[InfoPosition[k]] = info[k]
  BY EncodesCodeWord
<1>2. \A i \in 1 .. 8 : d[i] <=> ~ (e[i] <=> i \in hits)
  OBVIOUS
<1> HIDE DEF e
<1>3. SUFFICES /\ DecodeBlock(d) = [k \in 1 .. InfoBits |-> e[InfoPosition[k]]]
               /\ ErrIndex(d) # 0 <=> \E i \in hits : i <= 7
  <2>1. PacketBits = 7
    BY DEF PacketBits
  <2> QED
    BY <1>1, <1>3, <2>1
<1>4. CASE hits = {}
  <2>1. \A i \in 1 .. 8 : d[i] = e[i]
    <3>1. \A i \in 1 .. 8 : d[i] \in BOOLEAN /\ e[i] \in BOOLEAN
      BY <1>1 DEF CodeWord, Block, CHBits
    <3> QED
      BY <1>2, <1>4, <3>1
  <2>2. d = e
    <3>1. d = [i \in 1 .. 8 |-> d[i]] /\ e = [i \in 1 .. 8 |-> e[i]]
      BY <1>1 DEF CodeWord, Block, CHBits
    <3> QED
      BY <2>1, <3>1
  <2> QED
    BY <1>1, <1>4, <2>2, CodeWordIntact
<1>5. CASE hits # {}
  <2>1. PICK i \in 1 .. 8 : hits = {i}
    BY <1>5
  <2>2. ~ (d[i] <=> e[i]) /\ \A j \in 1 .. 8 : j # i => (d[j] <=> e[j])
    BY <1>2, <2>1
  <2>3. /\ ErrIndex(d) = IF i <= 7 THEN i ELSE 0
        /\ DecodeBlock(d) = [k \in 1 .. InfoBits |-> e[InfoPosition[k]]]
    BY <1>1, <2>2, ErrorFound
  <2> QED
    BY <2>1, <2>3
<1> QED
  BY <1>4, <1>5

\* The bits of the message, in the order of the blocks.
LEMMA InfoIsInfo ==
    \A bytes, b : InfoOf(bytes, b) \in Info
BY DEF InfoOf, Info, GetBit

LEMMA InfoBit ==
    ASSUME NEW bytes, NEW i \in Nat \ {0}, NEW bit \in 0 .. 7, NEW x, x = 8 * (i - 1) + bit
    PROVE  /\ (x % 4) + 1 \in 1 .. InfoBits
           /\ (x \div 4) + 1 \in 2 * i - 1 .. 2 * i
           /\ InfoOf(bytes, (x \div 4) + 1)[(x % 4) + 1] <=> GetBit(bytes[i], bit)
<1>1. x \in Nat
  OBVIOUS
<1>2. PICK g \in Nat, r \in 0 .. 3 : x = 4 * g + r
  BY <1>1, Groups
<1>3. x \div 4 = g /\ x % 4 = r
  BY <1>2, GroupParts
<1>4. x \div 8 = i - 1 /\ x % 8 = bit
  <2>1. i - 1 \in Nat
    OBVIOUS
  <2> QED
    BY <2>1, GroupParts
<1>5. 4 * ((g + 1) - 1) + (r + 1) - 1 = x /\ (i - 1) + 1 = i
  BY <1>2
<1>6. r + 1 \in 1 .. InfoBits
  BY DEF InfoBits
<1>7. InfoOf(bytes, g + 1)[r + 1] = GetBit(bytes[i], bit)
  <2>1. InfoOf(bytes, g + 1)[r + 1]
          = LET n == InfoBits * ((g + 1) - 1) + (r + 1) - 1
            IN  GetBit(bytes[(n \div CHBits) + 1], n % CHBits)
    BY <1>6 DEF InfoOf
  <2> QED
    BY <1>4, <1>5, <2>1 DEF InfoBits, CHBits
<1>8. g + 1 \in 2 * i - 1 .. 2 * i
  BY <1>2
<1> QED
  BY <1>3, <1>6, <1>7, <1>8

--------------------------------------------------------------------------------
(* HammingCoder: the inductive invariant. *)

\* The bytes that arrive with the text.
Received == ClientDecode(text)

\* The text is an encoding of bytes, as every sender writes it.
TextIsOfBytes == /\ Received \in Seq(Byte)
                 /\ text = ClientEncode(Received)

\* A client turns no more than one bit of a block of the message.
OneErrorInABlock ==
    /\ errors \in SUBSET ((1 .. encoded_size(Len(data))) \X (1 .. CHBits))
    /\ IsFiniteSet(errors)
    /\ \A e, f \in errors : e[1] = f[1] => e = f
    /\ phase = "new" => errors = {}

\* All blocks of the message arrive, or all but some last ones.
BlocksFit == /\ phase = "encoded" => Len(Received) = encoded_size(Len(data))
             /\ Len(Received) <= encoded_size(Len(data))

\* They are the encoded ones with the bits turned that the client turned.
DamagedBy(stale) ==
    \A b \in DOMAIN Received, i \in 1 .. CHBits :
        BlockOf(Received[b])[i]
            <=> ~ (EncodeBlock(InfoOf(data, b), stale)[i] <=> << b, i >> \in errors)

BlocksAreDamaged ==
    phase # "new" => \E stale \in {BlockOf(0), BlockOf(255)} : DamagedBy(stale)

HammingInv ==
    /\ TypeOK
    /\ TextIsOfBytes
    /\ OneErrorInABlock
    /\ BlocksFit
    /\ BlocksAreDamaged
    /\ SingleErrorsCorrected
    /\ ResultsFit

\* What decode() makes of the blocks that arrive.
LEMMA DecodesReceived ==
    ASSUME HammingInv, phase # "new"
    PROVE  LET blocks == Blocks(Received)
               n      == Len(Received)
           IN  /\ n \in Nat /\ Len(blocks) = n /\ Len(data) \in Nat
               /\ Decoded(blocks) = SubSeq(data, 1, decoded_size(n))
               /\ Decoded(blocks) \in Seq(Byte)
               /\ SingleErrors(blocks)
                    = Cardinality({e \in errors : e[1] <= n /\ e[2] <= PacketBits})
               /\ SingleErrors(blocks) \in 0 .. encoded_size(Len(data))
<1> DEFINE blocks == Blocks(Received)
           n == Len(Received)
           size == Len(data)
           h == decoded_size(n)
<1>1. /\ Received \in Seq(Byte) /\ data \in Seq(Byte)
      /\ n \in Nat /\ size \in Nat
      /\ DOMAIN Received = 1 .. n
  BY MessagesAssumption, LenProperties DEF HammingInv, TypeOK, TextIsOfBytes
<1>2. encoded_size(size) = 2 * size /\ n <= 2 * size
  BY <1>1, CoderSizes DEF HammingInv, BlocksFit
<1>3. h \in Nat /\ 2 * h <= n
  BY <1>1, CoderSizes
<1>4. h \in 0 .. size
  BY <1>1, <1>2, <1>3
<1>5. PICK stale \in {BlockOf(0), BlockOf(255)} : DamagedBy(stale)
  BY DEF HammingInv, BlocksAreDamaged
<1>6. stale \in Block
  BY BlockAndByte
<1>7. /\ errors \in SUBSET ((1 .. 2 * size) \X (1 .. 8))
      /\ IsFiniteSet(errors)
      /\ \A e, f \in errors : e[1] = f[1] => e = f
  BY <1>2 DEF HammingInv, OneErrorInABlock, CHBits
<1>8. blocks = [b \in 1 .. n |-> BlockOf(Received[b])]
  BY <1>1 DEF Blocks
<1> HIDE DEF n, size, h, blocks
<1>9. blocks \in Seq(Block) /\ Len(blocks) = n /\ DOMAIN blocks = 1 .. n
  BY <1>1, <1>8, BlockAndByte
<1> DEFINE hits(b) == {i \in 1 .. 8 : << b, i >> \in errors}
<1>10. ASSUME NEW b \in 1 .. n
       PROVE  /\ \A k \in 1 .. InfoBits : DecodeBlock(blocks[b])[k] = InfoOf(data, b)[k]
              /\ ErrIndex(blocks[b]) # 0 <=> \E i \in hits(b) : i <= PacketBits
  <2> DEFINE d == blocks[b]
             H == hits(b)
             info == InfoOf(data, b)
  <2>1. d \in Block /\ d = BlockOf(Received[b])
    BY <1>8, BlockAndByte
  <2>2. info \in Info
    BY InfoIsInfo
  <2>3. \A i, j \in H : i = j
    <3> TAKE i, j \in H
    <3>1. << b, i >> \in errors /\ << b, j >> \in errors /\ << b, i >>[1] = << b, j >>[1]
      OBVIOUS
    <3>2. << b, i >> = << b, j >>
      BY <1>7, <3>1
    <3> QED
      BY <3>2
  <2>4. \A i \in 1 .. 8 : d[i] <=> ~ (EncodeBlock(info, stale)[i] <=> i \in H)
    <3> TAKE i \in 1 .. 8
    <3>1. BlockOf(Received[b])[i]
            <=> ~ (EncodeBlock(InfoOf(data, b), stale)[i] <=> << b, i >> \in errors)
      BY <1>1, <1>5 DEF DamagedBy, CHBits
    <3>2. i \in H <=> << b, i >> \in errors
      OBVIOUS
    <3> HIDE DEF d, H
    <3> QED
      BY <2>1, <3>1, <3>2
  <2>5. H \in SUBSET (1 .. 8)
    OBVIOUS
  <2>6. d \in Block
    BY <2>1
  <2> HIDE DEF d, H, info
  <2>7. \A k \in 1 .. InfoBits : DecodeBlock(d)[k] = info[k]
    BY <1>6, <2>2, <2>3, <2>4, <2>5, <2>6, BlockOutcome
  <2>8. ErrIndex(d) # 0 <=> \E i \in H : i <= PacketBits
    BY <1>6, <2>2, <2>3, <2>4, <2>5, <2>6, BlockOutcome
  <2> QED
    BY <2>7, <2>8 DEF d, H, info
<1>11. Decoded(blocks) = [i \in 1 .. h |-> data[i]]
  <2> DEFINE Bits(i) == {bit \in 0 .. CHBits - 1 :
                           LET x == CHBits * (i - 1) + bit
                           IN  DecodeBlock(blocks[(x \div InfoBits) + 1])[(x % InfoBits) + 1]}
  <2>1. ASSUME NEW i \in 1 .. h
        PROVE  ByteOf(Bits(i)) = data[i]
    <3>1. i \in Nat \ {0} /\ 2 * i <= n /\ i \in 1 .. size
      BY <1>1, <1>3, <1>4
    <3>2. data[i] \in Byte
      BY <1>1, <3>1, ElementOfSeq DEF size
    <3>3. ASSUME NEW bit \in 0 .. 7
          PROVE  bit \in Bits(i) <=> GetBit(data[i], bit)
      <4> DEFINE x == 8 * (i - 1) + bit
                 B == (x \div 4) + 1
                 K == (x % 4) + 1
      <4>1. /\ K \in 1 .. InfoBits /\ B \in 2 * i - 1 .. 2 * i
            /\ InfoOf(data, B)[K] <=> GetBit(data[i], bit)
        BY <3>1, InfoBit
      <4>2. bit \in Bits(i) <=> DecodeBlock(blocks[B])[K]
        BY DEF CHBits, InfoBits
      <4> HIDE DEF B, K, Bits
      <4>3. B \in 1 .. n
        BY <1>1, <3>1, <4>1
      <4>4. DecodeBlock(blocks[B])[K] = InfoOf(data, B)[K]
        BY <1>10, <4>1, <4>3
      <4> QED
        BY <4>1, <4>2, <4>4
    <3>4. Bits(i) = {bit \in 0 .. 7 : GetBit(data[i], bit)}
      <4>1. Bits(i) \in SUBSET (0 .. 7)
        BY DEF CHBits
      <4> HIDE DEF Bits
      <4> QED
        BY <3>3, <4>1
    <3> HIDE DEF Bits
    <3> QED
      BY <3>2, <3>4, ByteOfBits
  <2>2. Decoded(blocks) = [i \in 1 .. h |-> ByteOf(Bits(i))]
    BY <1>9 DEF Decoded, h
  <2> HIDE DEF Bits
  <2> QED
    BY <2>1, <2>2
<1>12. /\ SubSeq(data, 1, h) \in Seq(Byte)
       /\ SubSeq(data, 1, h) = [i \in 1 .. h |-> data[i]]
  <2>1. 0 \in 0 .. Len(data) /\ h \in 0 .. Len(data) /\ 0 + 1 = 1 /\ h - 0 = h
        /\ \A i \in 1 .. h : 0 + i = i
    BY <1>1, <1>4 DEF size
  <2>2. /\ SubSeq(data, 0 + 1, h) \in Seq(Byte)
        /\ Len(SubSeq(data, 0 + 1, h)) = h - 0
        /\ \A i \in 1 .. h - 0 : SubSeq(data, 0 + 1, h)[i] = data[0 + i]
    BY <1>1, <2>1, Slice
  <2> DEFINE p == SubSeq(data, 1, h)
  <2>3. p \in Seq(Byte) /\ Len(p) = h /\ \A i \in 1 .. h : p[i] = data[i]
    BY <2>1, <2>2
  <2> HIDE DEF p
  <2>4. p = [i \in 1 .. h |-> p[i]]
    BY <2>3, LenProperties
  <2>5. p = [i \in 1 .. h |-> data[i]]
    BY <2>3, <2>4
  <2> QED
    BY <2>3, <2>5 DEF p
<1> DEFINE B == {b \in 1 .. n : ErrIndex(blocks[b]) # 0}
           E == {e \in errors : e[1] <= n /\ e[2] <= PacketBits}
           f == [e \in E |-> e[1]]
<1>13. SingleErrors(blocks) = Cardinality(B)
  BY <1>9 DEF SingleErrors
<1>14. IsFiniteSet(B) /\ Cardinality(B) \in 0 .. n
  <2>1. IsFiniteSet(1 .. n) /\ Cardinality(1 .. n) = n
    <3>1. 1 \in Int /\ n \in Int
      BY <1>1
    <3>2. IsFiniteSet(1 .. n) /\ Cardinality(1 .. n) = IF 1 > n THEN 0 ELSE n - 1 + 1
      BY <3>1, FS_Interval
    <3> QED
      BY <1>1, <3>2
  <2>2. B \in SUBSET (1 .. n)
    OBVIOUS
  <2> HIDE DEF B
  <2>3. IsFiniteSet(B) /\ Cardinality(B) <= n
    BY <2>1, <2>2, FS_Subset
  <2>4. Cardinality(B) \in Nat
    BY <2>3, FS_CardinalityType
  <2> QED
    BY <1>1, <2>3, <2>4
<1>15. \A e \in E : /\ e \in errors /\ e[1] \in 1 .. n /\ e[2] \in 1 .. 8
                    /\ e = << e[1], e[2] >> /\ e[2] <= PacketBits
  <2> TAKE e \in E
  <2>1. e \in errors /\ e[1] <= n /\ e[2] <= PacketBits
    OBVIOUS
  <2>2. e[1] \in 1 .. 2 * size /\ e[2] \in 1 .. 8 /\ e = << e[1], e[2] >>
    BY <1>7, <2>1
  <2> QED
    BY <1>1, <2>1, <2>2
<1>16. f \in Injection(E, B) /\ f \in Surjection(E, B)
  <2>1. ASSUME NEW e \in E PROVE f[e] \in B
    <3>1. e[2] \in hits(e[1])
      BY <1>15
    <3>2. ErrIndex(blocks[e[1]]) # 0
      BY <1>10, <1>15, <3>1
    <3> QED
      BY <1>15, <3>2
  <2>2. ASSUME NEW e \in E, NEW g \in E, f[e] = f[g] PROVE e = g
    BY <1>7, <1>15, <2>2
  <2>3. ASSUME NEW b \in B PROVE \E e \in E : f[e] = b
    <3>1. b \in 1 .. n /\ ErrIndex(blocks[b]) # 0
      OBVIOUS
    <3>2. PICK i \in hits(b) : i <= PacketBits
      BY <1>10, <3>1
    <3>3. << b, i >> \in errors /\ << b, i >>[1] = b /\ << b, i >>[2] = i /\ b <= n
      BY <3>1, <3>2
    <3>4. << b, i >> \in E
      BY <3>2, <3>3
    <3>5. f[<< b, i >>] = b
      BY <3>3, <3>4
    <3> HIDE DEF E, f
    <3> QED
      BY <3>4, <3>5
  <2>4. f \in [E -> B]
    <3> HIDE DEF B, E
    <3>1. \A e \in E : e[1] \in B
      BY <2>1
    <3> QED
      BY <3>1
  <2> HIDE DEF B, E, f
  <2>5. f \in Injection(E, B)
    BY <2>2, <2>4 DEF Injection, IsInjective
  <2>6. f \in Surjection(E, B)
    BY <2>3, <2>4 DEF Surjection
  <2> QED
    BY <2>5, <2>6
<1>17. Cardinality(E) = Cardinality(B)
  <2> HIDE DEF B, E, f
  <2> QED
    BY <1>14, <1>16, FS_Injection
<1> HIDE DEF B
<1>18. SingleErrors(blocks) \in 0 .. 2 * size
  BY <1>1, <1>2, <1>13, <1>14
<1> QED
  BY <1>1, <1>2, <1>9, <1>11, <1>12, <1>13, <1>17, <1>18 DEF n, size, h, blocks

--------------------------------------------------------------------------------
(* HammingCoder: every step keeps the invariant. *)

\* The message, and the text as both sides read it.
LEMMA MessageTypes ==
    ASSUME HammingInv
    PROVE  /\ data \in Seq(Byte) /\ Len(data) \in Nat
           /\ encoded_size(Len(data)) = 2 * Len(data)
           /\ Received \in Seq(Byte) /\ Len(Received) \in Nat
           /\ DOMAIN Received = 1 .. Len(Received)
           /\ Len(Received) <= 2 * Len(data)
           /\ base64_decode(text) = Received
<1>1. data \in Seq(Byte) /\ Len(data) \in Nat
  BY MessagesAssumption, LenProperties DEF HammingInv, TypeOK
<1>2. Received \in Seq(Byte) /\ text = ClientEncode(Received)
  BY DEF HammingInv, TextIsOfBytes
<1>3. Len(Received) \in Nat /\ DOMAIN Received = 1 .. Len(Received)
  BY <1>2, LenProperties
<1>4. encoded_size(Len(data)) = 2 * Len(data)
  BY <1>1, CoderSizes
<1>5. Len(Received) <= 2 * Len(data)
  BY <1>4 DEF HammingInv, BlocksFit
<1>6. base64_decode(text) = Received
  <2> DEFINE r == Received
  <2> HIDE DEF r
  <2>1. r \in Seq(Byte) /\ text = ClientEncode(r)
    BY <1>2 DEF r
  <2>2. base64_decode(text) = r
    BY <2>1, ServerReads
  <2> QED
    BY <2>2 DEF r
<1> QED
  BY <1>1, <1>2, <1>3, <1>4, <1>5, <1>6

\* A text made of bytes is one of bytes, and the bytes come out of it.
LEMMA TextOfBytes ==
    ASSUME NEW bytes \in Seq(Byte), text' = ClientEncode(bytes)
    PROVE  text' \in Seq(Char) /\ Received' = bytes /\ TextIsOfBytes'
<1>1. text' \in Seq(Char)
  BY TextOf
<1>2. Received' = ClientDecode(text')
  BY DEF Received
<1>3. Received' = bytes
  BY <1>2, ClientReads
<1> QED
  BY <1>1, <1>3 DEF TextIsOfBytes

LEMMA HammingInvInit == Init => HammingInv
<1> SUFFICES ASSUME Init PROVE HammingInv
  OBVIOUS
<1>1. /\ data \in Messages /\ phase = "new" /\ text = << >> /\ errors = {}
      /\ result = << >> /\ decode_errors = 0 /\ overrun = FALSE
  BY DEF Init
<1>2. data \in Seq(Byte) /\ Len(data) \in Nat
  BY <1>1, MessagesAssumption, LenProperties
<1>3. encoded_size(Len(data)) = 2 * Len(data)
  BY <1>2, CoderSizes
<1>4. << >> \in Seq(Byte) /\ << >> \in Seq(Char) /\ Len(<< >>) = 0
  BY EmptySeq
<1>5. ClientEncode(<< >>) = << >>
  <2> DEFINE t == ClientEncode(<< >>)
  <2>1. t \in Seq(Char) /\ Len(t) = 4 * ((0 + 2) \div 3)
    BY <1>4, TextOf
  <2>2. 4 * ((0 + 2) \div 3) = 0
    OBVIOUS
  <2> HIDE DEF t
  <2>3. t = << >>
    BY <2>1, <2>2, EmptySeq
  <2> QED
    BY <2>3 DEF t
<1>6. Received = << >>
  <2>1. ClientDecode(ClientEncode(<< >>)) = << >>
    BY <1>4, ClientReads
  <2> QED
    BY <1>1, <1>5, <2>1 DEF Received
<1>7. TypeOK
  <2>1. 0 \in 0 .. encoded_size(Len(data))
    BY <1>2, <1>3
  <2>2. phase \in {"new", "encoded", "truncated", "decoded"}
    BY <1>1
  <2>3. text \in Seq(Char) /\ result \in Seq(Byte)
    BY <1>1, <1>4
  <2>4. \A e \in errors : e[1] \in 1 .. encoded_size(Len(data)) /\ e[2] \in 1 .. CHBits
    BY <1>1
  <2>5. data \in Messages /\ decode_errors \in 0 .. encoded_size(Len(data))
        /\ overrun \in BOOLEAN
    BY <1>1, <2>1
  <2> QED
    BY <2>2, <2>3, <2>4, <2>5 DEF TypeOK
<1>8. TextIsOfBytes
  BY <1>1, <1>4, <1>5, <1>6 DEF TextIsOfBytes
<1>9. OneErrorInABlock
  BY <1>1, FS_EmptySet DEF OneErrorInABlock
<1>10. BlocksFit
  BY <1>1, <1>2, <1>3, <1>4, <1>6 DEF BlocksFit
<1>11. BlocksAreDamaged /\ SingleErrorsCorrected /\ ResultsFit
  BY <1>1 DEF BlocksAreDamaged, SingleErrorsCorrected, ResultsFit
<1> QED
  BY <1>7, <1>8, <1>9, <1>10, <1>11 DEF HammingInv

\* The server encodes.
LEMMA EncodeStep ==
    ASSUME HammingInv, ProcessInput
    PROVE  HammingInv'
<1>1. /\ phase = "new" /\ phase' = "encoded" /\ data' = data /\ errors' = errors
      /\ result' = result /\ decode_errors' = decode_errors
      /\ overrun' = (BlocksWritten(Len(data)) > encoded_size(Len(data)))
  BY DEF ProcessInput
<1>2. PICK stale \in {BlockOf(0), BlockOf(255)} : text' = base64_encode(Encoded(data, stale))
  BY DEF ProcessInput
<1>3. /\ data \in Seq(Byte) /\ Len(data) \in Nat
      /\ encoded_size(Len(data)) = 2 * Len(data)
  BY MessageTypes
<1>4. errors = {}
  BY <1>1 DEF HammingInv, OneErrorInABlock
<1> DEFINE sent(b) == EncodeBlock(InfoOf(data, b), stale)
           bytes == Encoded(data, stale)
           n == encoded_size(Len(data))
<1>5. \A b : sent(b) \in Block
  <2>1. stale \in Block
    BY BlockAndByte
  <2> TAKE b
  <2>2. InfoOf(data, b) \in Info
    BY InfoIsInfo
  <2> QED
    BY <2>1, <2>2, EncodesCodeWord DEF CodeWord
<1>6. n \in Nat
  BY <1>3
<1>7. bytes = [b \in 1 .. n |-> BlockByte(sent(b))]
  BY DEF Encoded
<1> HIDE DEF sent, bytes, n
<1>8. bytes \in Seq(Byte) /\ Len(bytes) = n /\ DOMAIN bytes = 1 .. n
  <2>1. \A b \in 1 .. n : BlockByte(sent(b)) \in Byte
    BY <1>5, BlockAndByte
  <2> QED
    BY <1>6, <1>7, <2>1
<1>9. text' = ClientEncode(bytes)
  BY <1>2, <1>8, EncodesAlike DEF bytes
<1>10. text' \in Seq(Char) /\ Received' = bytes /\ TextIsOfBytes'
  BY <1>8, <1>9, TextOfBytes
<1>11. TypeOK'
  <2>1. overrun' \in BOOLEAN
    BY <1>1
  <2> QED
    BY <1>1, <1>10, <2>1 DEF HammingInv, TypeOK
<1>12. OneErrorInABlock'
  BY <1>1, <1>4, FS_EmptySet DEF OneErrorInABlock
<1>13. BlocksFit'
  <2>1. Len(Received)' = n /\ encoded_size(Len(data))' = n
    BY <1>1, <1>8, <1>10 DEF n, encoded_size
  <2> QED
    BY <1>6, <2>1 DEF BlocksFit
<1>14. BlocksAreDamaged'
  <2>1. ASSUME NEW b \in 1 .. n, NEW i \in 1 .. CHBits
        PROVE  BlockOf(bytes[b])[i]
                  <=> ~ (EncodeBlock(InfoOf(data, b), stale)[i] <=> << b, i >> \in {})
    <3>1. BlockOf(bytes[b]) = sent(b)
      BY <1>5, <1>7, BlockAndByte
    <3> QED
      BY <3>1 DEF sent
  <2>2. DamagedBy(stale)'
    BY <1>1, <1>4, <1>8, <1>10, <2>1 DEF DamagedBy
  <2> QED
    BY <2>2 DEF BlocksAreDamaged
<1>15. SingleErrorsCorrected'
  BY <1>1 DEF SingleErrorsCorrected
<1>16. ResultsFit'
  <2>1. overrun' <=> data = << >>
    <3>1. BlocksWritten(Len(data)) > encoded_size(Len(data)) <=> Len(data) = 0
      BY <1>3, CoderSizes
    <3> QED
      BY <1>1, <1>3, <3>1, EmptySeq
  <2>2. overrun' \in BOOLEAN
    BY <1>1
  <2> QED
    BY <1>1, <2>1, <2>2 DEF ResultsFit
<1> QED
  BY <1>10, <1>11, <1>12, <1>13, <1>14, <1>15, <1>16 DEF HammingInv

\* A client turns a bit of a block that is whole.
LEMMA DamageStep ==
    ASSUME HammingInv, NEW b, NEW i \in 1 .. CHBits, Damage(b, i)
    PROVE  HammingInv'
<1>1. /\ phase = "encoded" /\ phase' = phase /\ data' = data /\ result' = result
      /\ decode_errors' = decode_errors /\ overrun' = overrun
      /\ b \in DOMAIN Received
      /\ \A e \in errors : e[1] # b
      /\ errors' = errors \union {<< b, i >>}
      /\ text' = ClientEncode([Received EXCEPT ![b] = TurnBit(@, i)])
  BY DEF Damage, Received
<1>2. /\ data \in Seq(Byte) /\ Len(data) \in Nat
      /\ encoded_size(Len(data)) = 2 * Len(data)
      /\ Received \in Seq(Byte) /\ Len(Received) \in Nat
      /\ DOMAIN Received = 1 .. Len(Received)
      /\ Len(Received) <= 2 * Len(data)
  BY MessageTypes
<1>3. PICK stale \in {BlockOf(0), BlockOf(255)} : DamagedBy(stale)
  BY <1>1 DEF HammingInv, BlocksAreDamaged
<1> DEFINE old == BlockOf(Received[b])
           new == [old EXCEPT ![i] = ~@]
           bytes == [Received EXCEPT ![b] = TurnBit(@, i)]
<1>4. old \in Block
  BY BlockAndByte
<1> HIDE DEF old
<1>5. new \in Block /\ \A j \in 1 .. CHBits : new[j] <=> ~ (old[j] <=> j = i)
  BY <1>4 DEF Block
<1> HIDE DEF new
<1>6. BlockByte(new) \in Byte /\ BlockOf(BlockByte(new)) = new
  BY <1>5, BlockAndByte
<1>7. bytes = [Received EXCEPT ![b] = BlockByte(new)]
  BY DEF TurnBit, new, old
<1> HIDE DEF bytes
<1>8. /\ bytes \in Seq(Byte) /\ Len(bytes) = Len(Received) /\ DOMAIN bytes = DOMAIN Received
      /\ bytes[b] = BlockByte(new)
      /\ \A c \in DOMAIN Received : c # b => bytes[c] = Received[c]
  BY <1>1, <1>2, <1>6, <1>7, ExceptSeq
<1>9. text' \in Seq(Char) /\ Received' = bytes /\ TextIsOfBytes'
  BY <1>1, <1>8, TextOfBytes DEF bytes
<1>10. b \in 1 .. encoded_size(Len(data))
  BY <1>1, <1>2
<1>11. TypeOK'
  <2>1. \A e \in errors' : e[1] \in 1 .. encoded_size(Len(data)) /\ e[2] \in 1 .. CHBits
    <3> TAKE e \in errors'
    <3>1. CASE e \in errors
      BY <3>1 DEF HammingInv, TypeOK
    <3>2. CASE e = << b, i >>
      BY <1>10, <3>2
    <3> QED
      BY <1>1, <3>1, <3>2
  <2>2. encoded_size(Len(data))' = encoded_size(Len(data))
    BY <1>1
  <2>3. /\ data' \in Messages /\ phase' \in {"new", "encoded", "truncated", "decoded"}
        /\ result' \in Seq(Byte) /\ overrun' \in BOOLEAN
        /\ decode_errors' \in 0 .. encoded_size(Len(data))
    BY <1>1 DEF HammingInv, TypeOK
  <2> QED
    BY <1>9, <2>1, <2>2, <2>3 DEF TypeOK
<1>12. OneErrorInABlock'
  <2>1. /\ errors \in SUBSET ((1 .. encoded_size(Len(data))) \X (1 .. CHBits))
        /\ IsFiniteSet(errors)
        /\ \A e, f \in errors : e[1] = f[1] => e = f
    BY DEF HammingInv, OneErrorInABlock
  <2>2. << b, i >> \in (1 .. encoded_size(Len(data))) \X (1 .. CHBits)
    BY <1>10
  <2>3. errors' \in SUBSET ((1 .. encoded_size(Len(data))) \X (1 .. CHBits))
    BY <1>1, <2>1, <2>2
  <2>4. IsFiniteSet(errors')
    BY <1>1, <2>1, FS_AddElement
  <2>5. \A e, f \in errors' : e[1] = f[1] => e = f
    <3> TAKE e, f \in errors'
    <3>1. e \in errors \/ e = << b, i >>
      BY <1>1
    <3>2. f \in errors \/ f = << b, i >>
      BY <1>1
    <3>3. << b, i >>[1] = b
      OBVIOUS
    <3> QED
      BY <1>1, <2>1, <3>1, <3>2, <3>3
  <2>6. (1 .. encoded_size(Len(data)))' = 1 .. encoded_size(Len(data))
    BY <1>1
  <2> QED
    BY <1>1, <2>3, <2>4, <2>5, <2>6 DEF OneErrorInABlock
<1>13. BlocksFit'
  BY <1>1, <1>8, <1>9 DEF HammingInv, BlocksFit
<1>14. BlocksAreDamaged'
  <2>1. ASSUME NEW c \in DOMAIN Received, NEW j \in 1 .. CHBits
        PROVE  BlockOf(bytes[c])[j]
                  <=> ~ (EncodeBlock(InfoOf(data, c), stale)[j] <=> << c, j >> \in errors')
    <3>1. BlockOf(Received[c])[j]
            <=> ~ (EncodeBlock(InfoOf(data, c), stale)[j] <=> << c, j >> \in errors)
      BY <1>3 DEF DamagedBy
    <3>2. CASE c = b
      <4>1. << b, j >> \notin errors
        <5>1. << b, j >>[1] = b
          OBVIOUS
        <5> QED
          BY <1>1, <5>1
      <4>2. << b, j >> \in errors' <=> j = i
        BY <1>1, <4>1
      <4>3. BlockOf(bytes[c])[j] <=> ~ (old[j] <=> j = i)
        BY <1>5, <1>6, <1>8, <3>2
      <4>4. old[j] <=> EncodeBlock(InfoOf(data, c), stale)[j]
        BY <3>1, <3>2, <4>1 DEF old
      <4> QED
        BY <3>2, <4>2, <4>3, <4>4
    <3>3. CASE c # b
      <4>1. << c, j >> \in errors' <=> << c, j >> \in errors
        BY <1>1, <3>3
      <4>2. bytes[c] = Received[c]
        BY <1>8, <3>3
      <4> QED
        BY <3>1, <4>1, <4>2
    <3> QED
      BY <3>2, <3>3
  <2>2. DamagedBy(stale)'
    BY <1>1, <1>8, <1>9, <2>1 DEF DamagedBy
  <2> QED
    BY <2>2 DEF BlocksAreDamaged
<1>15. SingleErrorsCorrected'
  BY <1>1 DEF SingleErrorsCorrected
<1>16. ResultsFit'
  BY <1>1 DEF HammingInv, ResultsFit
<1> QED
  BY <1>9, <1>11, <1>12, <1>13, <1>14, <1>15, <1>16 DEF HammingInv
\* A client loses the last byte.
LEMMA TruncateStep ==
    ASSUME HammingInv, Truncate
    PROVE  HammingInv'
<1> DEFINE n == Len(Received)
           bytes == SubSeq(Received, 1, n - 1)
<1>1. /\ phase = "encoded" /\ phase' = "truncated" /\ data' = data /\ errors' = errors
      /\ result' = result /\ decode_errors' = decode_errors /\ overrun' = overrun
      /\ Received # << >>
      /\ text' = ClientEncode(bytes)
  BY DEF Truncate, Received
<1>2. /\ data \in Seq(Byte) /\ Len(data) \in Nat
      /\ encoded_size(Len(data)) = 2 * Len(data)
      /\ Received \in Seq(Byte) /\ n \in Nat
      /\ DOMAIN Received = 1 .. n
      /\ n <= 2 * Len(data)
  BY MessageTypes
<1>3. n # 0
  BY <1>1, <1>2, EmptySeq
<1>4. /\ bytes \in Seq(Byte) /\ Len(bytes) = n - 1
      /\ \A b \in 1 .. n - 1 : bytes[b] = Received[b]
  <2> DEFINE m == n - 1
  <2>1. 0 \in 0 .. n /\ m \in 0 .. n /\ 0 + 1 = 1 /\ m - 0 = m
        /\ \A b \in 1 .. m : 0 + b = b
    BY <1>2, <1>3
  <2> HIDE DEF m
  <2>2. /\ SubSeq(Received, 0 + 1, m) \in Seq(Byte)
        /\ Len(SubSeq(Received, 0 + 1, m)) = m - 0
        /\ \A b \in 1 .. m - 0 : SubSeq(Received, 0 + 1, m)[b] = Received[0 + b]
    BY <1>2, <2>1, Slice
  <2>3. /\ SubSeq(Received, 1, m) \in Seq(Byte)
        /\ Len(SubSeq(Received, 1, m)) = m
        /\ \A b \in 1 .. m : SubSeq(Received, 1, m)[b] = Received[b]
    BY <2>1, <2>2
  <2> QED
    BY <2>3 DEF m
<1> HIDE DEF bytes
<1>5. text' \in Seq(Char) /\ Received' = bytes /\ TextIsOfBytes'
  BY <1>1, <1>4, TextOfBytes
<1>6. TypeOK'
  BY <1>1, <1>5 DEF HammingInv, TypeOK
<1>7. OneErrorInABlock'
  BY <1>1 DEF HammingInv, OneErrorInABlock
<1>8. BlocksFit'
  <2>1. Len(Received)' = n - 1 /\ encoded_size(Len(data))' = 2 * Len(data)
    BY <1>1, <1>2, <1>4, <1>5
  <2>2. n - 1 <= 2 * Len(data)
    BY <1>2
  <2> QED
    BY <1>1, <2>1, <2>2 DEF BlocksFit
<1>9. BlocksAreDamaged'
  <2>1. PICK stale \in {BlockOf(0), BlockOf(255)} : DamagedBy(stale)
    BY <1>1 DEF HammingInv, BlocksAreDamaged
  <2>2. ASSUME NEW b \in 1 .. n - 1, NEW i \in 1 .. CHBits
        PROVE  BlockOf(bytes[b])[i]
                  <=> ~ (EncodeBlock(InfoOf(data, b), stale)[i] <=> << b, i >> \in errors)
    <3>1. b \in DOMAIN Received /\ bytes[b] = Received[b]
      BY <1>2, <1>4
    <3>2. BlockOf(Received[b])[i]
            <=> ~ (EncodeBlock(InfoOf(data, b), stale)[i] <=> << b, i >> \in errors)
      BY <2>1, <3>1 DEF DamagedBy
    <3> QED
      BY <3>1, <3>2
  <2>3. DOMAIN bytes = 1 .. n - 1
    BY <1>4, LenProperties
  <2>4. DamagedBy(stale)'
    BY <1>1, <1>5, <2>2, <2>3 DEF DamagedBy
  <2> QED
    BY <2>4 DEF BlocksAreDamaged
<1>10. SingleErrorsCorrected'
  BY <1>1 DEF SingleErrorsCorrected
<1>11. ResultsFit'
  BY <1>1 DEF HammingInv, ResultsFit
<1> QED
  BY <1>5, <1>6, <1>7, <1>8, <1>9, <1>10, <1>11 DEF HammingInv

\* The server decodes.
LEMMA DecodeStep ==
    ASSUME HammingInv, ProcessOutput
    PROVE  HammingInv'
<1> DEFINE blocks == Blocks(Received)
           n == Len(Received)
<1>1. /\ phase \in {"encoded", "truncated"} /\ phase' = "decoded"
      /\ data' = data /\ text' = text /\ errors' = errors
      /\ result' = Decoded(Blocks(base64_decode(text)))
      /\ decode_errors' = SingleErrors(Blocks(base64_decode(text)))
      /\ overrun' = (BitsWritten(Len(Blocks(base64_decode(text))))
                       > CHBits * decoded_size(Len(Blocks(base64_decode(text)))))
  BY DEF ProcessOutput
<1>2. base64_decode(text) = Received
  BY MessageTypes
<1>3. /\ result' = Decoded(blocks)
      /\ decode_errors' = SingleErrors(blocks)
      /\ overrun' = (BitsWritten(Len(blocks)) > CHBits * decoded_size(Len(blocks)))
  BY <1>1, <1>2
<1>4. phase # "new"
  BY <1>1
<1>5. /\ n \in Nat /\ Len(blocks) = n
      /\ Decoded(blocks) = SubSeq(data, 1, decoded_size(n))
      /\ Decoded(blocks) \in Seq(Byte)
      /\ SingleErrors(blocks)
           = Cardinality({e \in errors : e[1] <= n /\ e[2] <= PacketBits})
      /\ SingleErrors(blocks) \in 0 .. encoded_size(Len(data))
  BY <1>4, DecodesReceived
<1> HIDE DEF blocks
<1>6. Received' = Received
  BY <1>1 DEF Received
<1>7. overrun' \in BOOLEAN /\ (overrun' <=> n % 2 = 1)
  <2>1. overrun' = (BitsWritten(n) > CHBits * decoded_size(n))
    BY <1>3, <1>5
  <2>2. n \in Nat
    BY <1>5
  <2> HIDE DEF n
  <2>3. BitsWritten(n) > CHBits * decoded_size(n) <=> n % 2 = 1
    BY <2>2, CoderSizes
  <2>4. overrun' \in BOOLEAN
    BY <2>1
  <2>5. overrun' <=> BitsWritten(n) > CHBits * decoded_size(n)
    BY <2>1
  <2> QED
    BY <2>3, <2>4, <2>5
<1>8. TypeOK'
  <2>1. /\ data' \in Messages /\ phase' \in {"new", "encoded", "truncated", "decoded"}
        /\ text' \in Seq(Char)
        /\ \A e \in errors' : e[1] \in 1 .. encoded_size(Len(data)) /\ e[2] \in 1 .. CHBits
    BY <1>1 DEF HammingInv, TypeOK
  <2>2. result' \in Seq(Byte) /\ decode_errors' \in 0 .. encoded_size(Len(data))
    BY <1>3, <1>5
  <2>3. encoded_size(Len(data))' = encoded_size(Len(data))
    BY <1>1
  <2> QED
    BY <1>7, <2>1, <2>2, <2>3 DEF TypeOK
<1>9. TextIsOfBytes'
  BY <1>1, <1>6 DEF HammingInv, TextIsOfBytes
<1>10. OneErrorInABlock'
  BY <1>1 DEF HammingInv, OneErrorInABlock
<1>11. BlocksFit'
  BY <1>1, <1>6 DEF HammingInv, BlocksFit
<1>12. BlocksAreDamaged'
  <2>1. PICK stale \in {BlockOf(0), BlockOf(255)} : DamagedBy(stale)
    BY <1>4 DEF HammingInv, BlocksAreDamaged
  <2>2. DamagedBy(stale)'
    BY <1>1, <1>6, <2>1 DEF DamagedBy
  <2> QED
    BY <2>2 DEF BlocksAreDamaged
<1>13. SingleErrorsCorrected'
  BY <1>1, <1>3, <1>5, <1>6 DEF SingleErrorsCorrected, Received
<1>14. ResultsFit'
  BY <1>1, <1>6, <1>7 DEF ResultsFit, Received
<1> QED
  BY <1>8, <1>9, <1>10, <1>11, <1>12, <1>13, <1>14 DEF HammingInv

LEMMA HammingInvStep == HammingInv /\ [Next]_vars => HammingInv'
<1> SUFFICES ASSUME HammingInv, [Next]_vars PROVE HammingInv'
  OBVIOUS
<1>1. CASE ProcessInput
  BY <1>1, EncodeStep
<1>2. CASE \E b \in DOMAIN text, i \in 1 .. CHBits : Damage(b, i)
  <2>1. PICK b \in DOMAIN text, i \in 1 .. CHBits : Damage(b, i)
    BY <1>2
  <2> QED
    BY <2>1, DamageStep
<1>3. CASE Truncate
  BY <1>3, TruncateStep
<1>4. CASE ProcessOutput
  BY <1>4, DecodeStep
<1>5. CASE UNCHANGED vars
  <2>1. /\ data' = data /\ phase' = phase /\ text' = text /\ errors' = errors
        /\ result' = result /\ decode_errors' = decode_errors /\ overrun' = overrun
    BY <1>5 DEF vars
  <2>2. Received' = Received
    BY <2>1 DEF Received
  <2>3. TypeOK' /\ SingleErrorsCorrected' /\ ResultsFit'
    BY <2>1 DEF HammingInv, TypeOK, SingleErrorsCorrected, ResultsFit
  <2>4. TextIsOfBytes' /\ OneErrorInABlock' /\ BlocksFit'
    BY <2>1, <2>2 DEF HammingInv, TextIsOfBytes, OneErrorInABlock, BlocksFit
  <2>5. BlocksAreDamaged'
    BY <2>1, <2>2 DEF HammingInv, BlocksAreDamaged, DamagedBy
  <2> QED
    BY <2>3, <2>4, <2>5 DEF HammingInv
<1> QED
  BY <1>1, <1>2, <1>3, <1>4, <1>5 DEF Next

\* Between two requests the text is one of bytes, and these are the encoded blocks
\* with the bits turned that the client turned (processInput, processOutput of
\* HammingCoder.tcc, and the client of test_hamming.py).
THEOREM HammingInvariant == Spec => []HammingInv
<1>1. Init => HammingInv
  BY HammingInvInit
<1>2. HammingInv /\ [Next]_vars => HammingInv'
  BY HammingInvStep
<1> QED
  BY <1>1, <1>2, PTL DEF Spec

\* The message and the two texts keep their types, no error is at a block the message
\* does not have, and no more errors are counted than it has blocks
\* (HammingCoder.tcc, Hamming.h:36-40).
THEOREM HammingTypes == Spec => []TypeOK
<1>1. HammingInv => TypeOK
  BY DEF HammingInv
<1> QED
  BY <1>1, HammingInvariant, PTL

\* decode() gives back the message with any one bit of every block turned, and counts
\* the blocks hit, for every message and every choice of the bits (Hamming.tcc:82-118).
THEOREM CorrectsSingleErrors == Spec => []SingleErrorsCorrected
<1>1. HammingInv => SingleErrorsCorrected
  BY DEF HammingInv
<1> QED
  BY <1>1, HammingInvariant, PTL

\* base64_decode() reads from every text that goes between a client and the server the
\* bytes that RFC 4648 has it mean (base64.cc:84-125).
THEOREM SidesAgree == Spec => []TextsAgree
<1>1. HammingInv => TextsAgree
  <2> SUFFICES ASSUME HammingInv PROVE TextsAgree
    OBVIOUS
  <2>1. base64_decode(text) = Received
    BY MessageTypes
  <2> QED
    BY <2>1 DEF TextsAgree, Received
<1> QED
  BY <1>1, HammingInvariant, PTL

\* Both loops stay within the results but for the empty message and an odd number of
\* blocks, whatever the message (Hamming.tcc:36-118).
THEOREM OverrunsKnown == Spec => []ResultsFit
<1>1. HammingInv => ResultsFit
  BY DEF HammingInv
<1> QED
  BY <1>1, HammingInvariant, PTL

--------------------------------------------------------------------------------
(* CRC32Coder: words and their shifts. *)

\* Membership in a sum, a product with a power, and a shifted word.
LEMMA XorHas ==
    ASSUME NEW v, NEW w
    PROVE  \A x : x \in Xor(v, w) <=> ~ (x \in v <=> x \in w)
BY DEF Xor

\* A set of integers with the members of a sum is the sum.
LEMMA SumIs ==
    ASSUME NEW a \in SUBSET Int, NEW v \in SUBSET Int, NEW w \in SUBSET Int,
           \A x \in Int : x \in a <=> ~ (x \in v <=> x \in w)
    PROVE  a = Xor(v, w)
<1>1. ASSUME NEW x \in Int PROVE x \in a <=> x \in Xor(v, w)
  BY XorHas
<1>2. Xor(v, w) \in SUBSET Int
  BY DEF Xor
<1> QED
  BY <1>1, <1>2

LEMMA TimesHas ==
    ASSUME NEW p \in SUBSET Int, NEW n \in Int
    PROVE  /\ TimesX(p, n) \in SUBSET Int
           /\ \A x \in Int : x \in TimesX(p, n) <=> x - n \in p
<1>1. ASSUME NEW x \in Int, x - n \in p PROVE x \in TimesX(p, n)
  <2>1. (x - n) + n = x
    OBVIOUS
  <2> QED
    BY <1>1, <2>1 DEF TimesX
<1>2. ASSUME NEW x \in Int, x \in TimesX(p, n) PROVE x - n \in p
  BY <1>2 DEF TimesX
<1>3. TimesX(p, n) \in SUBSET Int
  BY DEF TimesX
<1> QED
  BY <1>1, <1>2, <1>3

LEMMA ShiftHas ==
    ASSUME NEW w \in SUBSET Int, NEW n \in Int
    PROVE  /\ ShiftRight(w, n) \in SUBSET Int
           /\ \A x \in Int : x \in ShiftRight(w, n) <=> x >= 0 /\ x + n \in w
<1>1. ASSUME NEW x \in Int, x >= 0, x + n \in w PROVE x \in ShiftRight(w, n)
  <2>1. (x + n) - n = x /\ x + n >= n
    BY <1>1
  <2> QED
    BY <1>1, <2>1 DEF ShiftRight
<1>2. ASSUME NEW x \in Int, x \in ShiftRight(w, n) PROVE x >= 0 /\ x + n \in w
  BY <1>2 DEF ShiftRight
<1>3. ShiftRight(w, n) \in SUBSET Int
  BY DEF ShiftRight
<1> QED
  BY <1>1, <1>2, <1>3

\* Words stay words.
LEMMA WordOps ==
    /\ Poly \in Word
    /\ \A v, w \in Word : Xor(v, w) \in Word
    /\ \A w \in Word, n \in Nat : ShiftRight(w, n) \in Word
    /\ \A w \in Word : Round(w) \in Word
<1>1. Poly \in Word
  BY DEF Poly, Word, Ones
<1>2. ASSUME NEW v \in Word, NEW w \in Word PROVE Xor(v, w) \in Word
  BY DEF Xor, Word
<1>3. ASSUME NEW w \in Word, NEW n \in Nat PROVE ShiftRight(w, n) \in Word
  BY DEF ShiftRight, Word, Ones
<1>4. ASSUME NEW w \in Word PROVE Round(w) \in Word
  BY <1>1, <1>2, <1>3, 1 \in Nat DEF Round
<1> QED
  BY <1>1, <1>2, <1>3, <1>4

Rounds8(w) == Round(Round(Round(Round(Round(Round(Round(Round(w))))))))

\* An entry of the table is eight rounds.
LEMMA EntryIsRounds ==
    ASSUME NEW i
    PROVE  Entry(i) = Rounds8(i)
<1> DEFINE F(f) == f = [j \in 0 .. 8 |-> IF j = 0 THEN i ELSE Round(f[j - 1])]
           r1 == Round(i)
           r2 == Round(r1)
           r3 == Round(r2)
           r4 == Round(r3)
           r5 == Round(r4)
           r6 == Round(r5)
           r7 == Round(r6)
           r8 == Round(r7)
           g == [j \in 0 .. 8 |-> IF j = 0 THEN i
                                  ELSE IF j = 1 THEN r1 ELSE IF j = 2 THEN r2
                                  ELSE IF j = 3 THEN r3 ELSE IF j = 4 THEN r4
                                  ELSE IF j = 5 THEN r5 ELSE IF j = 6 THEN r6
                                  ELSE IF j = 7 THEN r7 ELSE r8]
<1>1. F(g)
  <2> HIDE DEF r1, r2, r3, r4, r5, r6, r7, r8
  <2>1. /\ r1 = Round(i) /\ r2 = Round(r1) /\ r3 = Round(r2) /\ r4 = Round(r3)
        /\ r5 = Round(r4) /\ r6 = Round(r5) /\ r7 = Round(r6) /\ r8 = Round(r7)
    BY Zenon DEF r1, r2, r3, r4, r5, r6, r7, r8
  <2>2. /\ g[0] = i /\ g[1] = r1 /\ g[2] = r2 /\ g[3] = r3 /\ g[4] = r4
        /\ g[5] = r5 /\ g[6] = r6 /\ g[7] = r7 /\ g[8] = r8
    OBVIOUS
  <2>3. g = [j \in 0 .. 8 |-> g[j]]
    OBVIOUS
  <2> HIDE DEF g
  <2>4. ASSUME NEW j \in 0 .. 8 PROVE g[j] = IF j = 0 THEN i ELSE Round(g[j - 1])
    BY <2>1, <2>2
  <2> QED
    BY <2>3, <2>4
<1> DEFINE c == CHOOSE f : F(f)
<1>2. F(c)
  <2> HIDE DEF g
  <2>1. \E f : F(f)
    BY <1>1
  <2> QED
    BY <2>1
<1>3. Entry(i) = c[8]
  BY DEF Entry
<1> HIDE DEF c, g
<1>4. c[0] = i /\ \A j \in 1 .. 8 : c[j] = Round(c[j - 1])
  BY <1>2
<1>5. /\ c[1] = Round(c[0]) /\ c[2] = Round(c[1]) /\ c[3] = Round(c[2])
      /\ c[4] = Round(c[3]) /\ c[5] = Round(c[4]) /\ c[6] = Round(c[5])
      /\ c[7] = Round(c[6]) /\ c[8] = Round(c[7])
  BY <1>4
<1> QED
  BY <1>3, <1>4, <1>5, Zenon DEF Rounds8

\* The table holds a word for each byte.
LEMMA TableOfWords ==
    \A i \in ByteBits : crc_table[i] = Rounds8(i) /\ crc_table[i] \in Word
<1> TAKE i \in ByteBits
<1>1. i \in Word
  BY DEF ByteBits, Word, Ones
<1>2. Rounds8(i) \in Word
  BY <1>1, WordOps, Zenon DEF Rounds8
<1>3. crc_table[i] = Rounds8(i)
  BY EntryIsRounds, Zenon DEF crc_table
<1> QED
  BY <1>2, <1>3

\* A round on a sum with a word whose lowest bit is not set.
LEMMA RoundOfSum ==
    ASSUME NEW v \in Word, NEW h \in Word, 0 \notin h
    PROVE  Round(Xor(v, h)) = Xor(Round(v), ShiftRight(h, 1))
<1>1. 0 \in Xor(v, h) <=> 0 \in v
  BY XorHas
<1>2. v \in SUBSET Int /\ h \in SUBSET Int /\ Xor(v, h) \in SUBSET Int /\ 1 \in Int
  BY DEF Word, Ones, Xor
<1>3. ShiftRight(Xor(v, h), 1) = Xor(ShiftRight(v, 1), ShiftRight(h, 1))
  <2> DEFINE a == ShiftRight(Xor(v, h), 1)
             b == ShiftRight(v, 1)
             c == ShiftRight(h, 1)
  <2>1. a \in SUBSET Int /\ b \in SUBSET Int /\ c \in SUBSET Int
    BY <1>2, ShiftHas
  <2>2. ASSUME NEW x \in Int PROVE x \in a <=> ~ (x \in b <=> x \in c)
    <3>1. x \in a <=> x >= 0 /\ x + 1 \in Xor(v, h)
      BY <1>2, ShiftHas
    <3>2. x \in b <=> x >= 0 /\ x + 1 \in v
      BY <1>2, ShiftHas
    <3>3. x \in c <=> x >= 0 /\ x + 1 \in h
      BY <1>2, ShiftHas
    <3>4. x + 1 \in Xor(v, h) <=> ~ (x + 1 \in v <=> x + 1 \in h)
      BY XorHas
    <3> HIDE DEF a, b, c
    <3> QED
      BY <3>1, <3>2, <3>3, <3>4
  <2> HIDE DEF a, b, c
  <2>3. a = Xor(b, c)
    BY <2>1, <2>2, SumIs
  <2> QED
    BY <2>3 DEF a, b, c
<1>4. Xor(Xor(ShiftRight(v, 1), ShiftRight(h, 1)), Poly)
        = Xor(Xor(ShiftRight(v, 1), Poly), ShiftRight(h, 1))
  BY DEF Xor
<1> QED
  BY <1>1, <1>3, <1>4 DEF Round

\* Shifts add up.
LEMMA ShiftTwice ==
    ASSUME NEW w \in Word, NEW n \in Nat
    PROVE  ShiftRight(ShiftRight(w, n), 1) = ShiftRight(w, n + 1)
<1>1. w \in SUBSET Int /\ ShiftRight(w, n) \in SUBSET Int
  BY DEF Word, Ones, ShiftRight
<1>2. ASSUME NEW x \in Int
      PROVE  x \in ShiftRight(ShiftRight(w, n), 1) <=> x \in ShiftRight(w, n + 1)
  <2>1. x \in ShiftRight(ShiftRight(w, n), 1) <=> x >= 0 /\ x + 1 \in ShiftRight(w, n)
    BY <1>1, ShiftHas, 1 \in Int
  <2>2. x + 1 \in ShiftRight(w, n) <=> x + 1 >= 0 /\ (x + 1) + n \in w
    BY <1>1, ShiftHas, n \in Int, x + 1 \in Int
  <2>3. x \in ShiftRight(w, n + 1) <=> x >= 0 /\ x + (n + 1) \in w
    BY <1>1, ShiftHas, n + 1 \in Int
  <2>4. (x + 1) + n = x + (n + 1)
    OBVIOUS
  <2> QED
    BY <2>1, <2>2, <2>3, <2>4
<1>3. ShiftRight(ShiftRight(w, n), 1) \in SUBSET Int /\ ShiftRight(w, n + 1) \in SUBSET Int
  BY <1>1, ShiftHas, 1 \in Int, n + 1 \in Int
<1> QED
  BY <1>2, <1>3

\* Eight rounds are what the table says of the lowest byte, and the rest moved there.
LEMMA RoundsByTable ==
    ASSUME NEW w \in Word
    PROVE  Rounds8(w) = Xor(crc_table[w \intersect 0 .. 7], ShiftRight(w, 8))
<1> DEFINE low == w \intersect 0 .. 7
           high == w \ (0 .. 7)
           h(n) == ShiftRight(high, n)
<1>1. low \in Word /\ high \in Word /\ low \in ByteBits
  BY DEF Word, ByteBits
<1>2. w = Xor(low, high)
  BY DEF Xor
<1>3. \A n \in 0 .. 7 : h(n) \in Word /\ 0 \notin h(n)
  <2>1. ASSUME NEW n \in 0 .. 7 PROVE h(n) \in Word
    BY <1>1, WordOps
  <2>2. ASSUME NEW n \in 0 .. 7 PROVE 0 \notin h(n)
    <3>1. \A j \in high : j \in Int /\ j > 7
      BY <1>1 DEF Word, Ones
    <3> HIDE DEF high
    <3> QED
      BY <3>1 DEF ShiftRight
  <2> QED
    BY <2>1, <2>2
<1>4. \A n \in 0 .. 7 : ShiftRight(h(n), 1) = h(n + 1)
  <2> TAKE n \in 0 .. 7
  <2> HIDE DEF high
  <2> QED
    BY <1>1, ShiftTwice
<1>5. h(0) = high
  <2>1. high \in SUBSET Int /\ \A x \in high : x >= 0 /\ x - 0 = x
    BY <1>1 DEF Word, Ones
  <2> HIDE DEF high
  <2> QED
    BY <2>1 DEF ShiftRight
<1>6. h(8) = ShiftRight(w, 8)
  BY DEF ShiftRight, Word, Ones
<1> HIDE DEF low, high, h
<1>7. \A v \in Word, n \in 0 .. 7 :
        Round(v) \in Word /\ Round(Xor(v, h(n))) = Xor(Round(v), h(n + 1))
  <2> TAKE v \in Word, n \in 0 .. 7
  <2>1. Round(Xor(v, h(n))) = Xor(Round(v), ShiftRight(h(n), 1))
    BY <1>3, RoundOfSum
  <2> QED
    BY <1>4, <2>1, WordOps
<1> DEFINE r1 == Round(low)
           r2 == Round(r1)
           r3 == Round(r2)
           r4 == Round(r3)
           r5 == Round(r4)
           r6 == Round(r5)
           r7 == Round(r6)
           r8 == Round(r7)
<1>8. /\ r1 \in Word /\ r2 \in Word /\ r3 \in Word /\ r4 \in Word
      /\ r5 \in Word /\ r6 \in Word /\ r7 \in Word
  BY <1>1, WordOps, Zenon
<1>8a. /\ r1 = Round(low) /\ r2 = Round(r1) /\ r3 = Round(r2) /\ r4 = Round(r3)
      /\ r5 = Round(r4) /\ r6 = Round(r5) /\ r7 = Round(r6) /\ r8 = Round(r7)
  OBVIOUS
<1> HIDE DEF r1, r2, r3, r4, r5, r6, r7, r8
<1>9. /\ Round(Xor(low, h(0))) = Xor(r1, h(1))
      /\ Round(Xor(r1, h(1))) = Xor(r2, h(2))
      /\ Round(Xor(r2, h(2))) = Xor(r3, h(3))
      /\ Round(Xor(r3, h(3))) = Xor(r4, h(4))
      /\ Round(Xor(r4, h(4))) = Xor(r5, h(5))
      /\ Round(Xor(r5, h(5))) = Xor(r6, h(6))
      /\ Round(Xor(r6, h(6))) = Xor(r7, h(7))
      /\ Round(Xor(r7, h(7))) = Xor(r8, h(8))
  <2>1. Round(Xor(low, h(0))) = Xor(r1, h(1))
    BY <1>1, <1>7, <1>8a, 0 \in 0 .. 7, 0 + 1 = 1
  <2>2. Round(Xor(r1, h(1))) = Xor(r2, h(2))
    BY <1>8, <1>7, <1>8a, 1 \in 0 .. 7, 1 + 1 = 2
  <2>3. Round(Xor(r2, h(2))) = Xor(r3, h(3))
    BY <1>8, <1>7, <1>8a, 2 \in 0 .. 7, 2 + 1 = 3
  <2>4. Round(Xor(r3, h(3))) = Xor(r4, h(4))
    BY <1>8, <1>7, <1>8a, 3 \in 0 .. 7, 3 + 1 = 4
  <2>5. Round(Xor(r4, h(4))) = Xor(r5, h(5))
    BY <1>8, <1>7, <1>8a, 4 \in 0 .. 7, 4 + 1 = 5
  <2>6. Round(Xor(r5, h(5))) = Xor(r6, h(6))
    BY <1>8, <1>7, <1>8a, 5 \in 0 .. 7, 5 + 1 = 6
  <2>7. Round(Xor(r6, h(6))) = Xor(r7, h(7))
    BY <1>8, <1>7, <1>8a, 6 \in 0 .. 7, 6 + 1 = 7
  <2>8. Round(Xor(r7, h(7))) = Xor(r8, h(8))
    BY <1>8, <1>7, <1>8a, 7 \in 0 .. 7, 7 + 1 = 8
  <2> QED
    BY <2>1, <2>2, <2>3, <2>4, <2>5, <2>6, <2>7, <2>8
<1>10. Rounds8(w) = Xor(r8, h(8))
  BY <1>2, <1>5, <1>9, Zenon DEF Rounds8
<1>11. crc_table[low] = r8
  BY <1>1, <1>8a, TableOfWords, Zenon DEF Rounds8
<1> QED
  BY <1>6, <1>10, <1>11 DEF low

--------------------------------------------------------------------------------
(* CRC32Coder: the long division. *)

\* The steps of the division of p.
RestOf(f, p, degree) ==
    f = [d \in 31 .. degree |-> IF d = degree THEN p ELSE Eliminate(f[d + 1], d + 1)]

\* There are such steps for every p, by the first degree where there would not be.
LEMMA RestExists ==
    ASSUME NEW n \in Nat, NEW p
    PROVE  \E f : RestOf(f, p, 31 + n)
<1> DEFINE bad == {m \in Nat : ~ \A q : \E f : RestOf(f, q, 31 + m)}
<1>1. bad = {}
  <2> SUFFICES ASSUME bad # {} PROVE FALSE
    OBVIOUS
  <2> DEFINE m == Min(bad)
  <2>1. m \in bad /\ \A a \in bad : m <= a
    <3>1. bad \in SUBSET Nat
      OBVIOUS
    <3> HIDE DEF bad
    <3> QED
      BY <3>1, FirstPlace
  <2> HIDE DEF m
  <2>2. m \in Nat
    BY <2>1
  <2>3. PICK q : ~ \E f : RestOf(f, q, 31 + m)
    BY <2>1
  <2>4. m # 0
    <3>1. ASSUME m = 0 PROVE FALSE
      <4> DEFINE g == [d \in 31 .. 31 + m |-> q]
      <4>1. \A d \in 31 .. 31 + m : d = 31 + m
        BY <3>1
      <4>2. RestOf(g, q, 31 + m)
        BY <4>1 DEF RestOf
      <4> QED
        BY <2>3, <4>2
    <3> QED
      BY <3>1
  <2>5. PICK f : RestOf(f, Eliminate(q, 31 + m), 31 + (m - 1))
    <3>1. m - 1 \in Nat /\ m - 1 \notin bad
      <4> HIDE DEF bad
      <4> QED
        BY <2>1, <2>2, <2>4
    <3> QED
      BY <3>1
  <2> DEFINE g == [d \in 31 .. 31 + m |-> IF d = 31 + m THEN q ELSE f[d]]
  <2>6. ASSUME NEW d \in 31 .. 31 + m
        PROVE  g[d] = IF d = 31 + m THEN q ELSE Eliminate(g[d + 1], d + 1)
    <3>1. CASE d = 31 + m
      BY <3>1
    <3>2. CASE d = 31 + (m - 1)
      <4>1. /\ d \in 31 .. 31 + (m - 1) /\ d + 1 \in 31 .. 31 + m /\ d + 1 = 31 + m
            /\ d # 31 + m
        BY <2>2, <2>4, <3>2
      <4>2. f[d] = Eliminate(q, 31 + m)
        BY <2>5, <3>2, <4>1 DEF RestOf
      <4> QED
        BY <4>1, <4>2
    <3>3. CASE d < 31 + (m - 1)
      <4>1. /\ d \in 31 .. 31 + (m - 1) /\ d + 1 \in 31 .. 31 + m
            /\ d + 1 # 31 + m /\ d # 31 + m /\ d # 31 + (m - 1)
        BY <2>2, <2>4, <3>3
      <4>2. f[d] = Eliminate(f[d + 1], d + 1)
        BY <2>5, <4>1 DEF RestOf
      <4>3. g[d] = f[d] /\ g[d + 1] = f[d + 1]
        BY <4>1
      <4> HIDE DEF g
      <4> QED
        BY <4>1, <4>2, <4>3
    <3> QED
      BY <2>2, <3>1, <3>2, <3>3
  <2>7. RestOf(g, q, 31 + m)
    <3>1. g = [d \in 31 .. 31 + m |-> g[d]]
      OBVIOUS
    <3> HIDE DEF g
    <3> QED
      BY <2>6, <3>1 DEF RestOf
  <2> QED
    BY <2>3, <2>7
<1> QED
  BY <1>1

\* The remainder is the last of them.
LEMMA RestDefined ==
    ASSUME NEW p, NEW degree \in Nat, degree >= 31
    PROVE  \E f : /\ Remainder(p, degree) = f[31]
                  /\ f[degree] = p
                  /\ \A d \in 31 .. degree - 1 : f[d] = Eliminate(f[d + 1], d + 1)
<1>1. \E f : RestOf(f, p, degree)
  <2>1. degree - 31 \in Nat /\ 31 + (degree - 31) = degree
    OBVIOUS
  <2> QED
    BY <2>1, RestExists
<1> DEFINE c == CHOOSE f : RestOf(f, p, degree)
<1>2. RestOf(c, p, degree)
  BY <1>1
<1>3. Remainder(p, degree) = c[31]
  BY DEF Remainder, RestOf
<1> HIDE DEF c
<1>4. degree \in 31 .. degree /\ \A d \in 31 .. degree - 1 : d \in 31 .. degree /\ d # degree
  OBVIOUS
<1>5. c[degree] = p
  BY <1>2, <1>4 DEF RestOf
<1>6. \A d \in 31 .. degree - 1 : c[d] = Eliminate(c[d + 1], d + 1)
  BY <1>2, <1>4 DEF RestOf
<1> QED
  BY <1>3, <1>5, <1>6

\* A polynomial without terms above e has none of exponent e after the elimination.
LEMMA EliminateDegree ==
    ASSUME NEW e \in Int, e >= 32, NEW p \in SUBSET (0 .. e)
    PROVE  Eliminate(p, e) \in SUBSET (0 .. e - 1)
<1>1. Generator \in SUBSET Int /\ \A g \in Generator : 0 <= g /\ g <= 32
  BY DEF Generator
<1>2. p \in SUBSET Int /\ e - 32 \in Int
  OBVIOUS
<1> DEFINE t == TimesX(Generator, e - 32)
<1>3. t \in SUBSET Int /\ \A x \in Int : x \in t <=> x - (e - 32) \in Generator
  BY <1>1, <1>2, TimesHas
<1>4. e \in t
  <2>1. e - (e - 32) = 32 /\ 32 \in Generator
    BY DEF Generator
  <2> QED
    BY <1>3, <2>1
<1> HIDE DEF t
<1>5. \A x \in t : x \in 0 .. e
  <2> TAKE x \in t
  <2>1. x \in Int /\ x - (e - 32) \in Generator
    BY <1>3
  <2>2. 0 <= x - (e - 32) /\ x - (e - 32) <= 32
    BY <1>1, <2>1
  <2> QED
    BY <2>1, <2>2
<1>6. CASE e \in p
  <2>1. Eliminate(p, e) = Xor(p, t)
    BY <1>6 DEF Eliminate, t
  <2>2. ASSUME NEW x \in Xor(p, t) PROVE x \in 0 .. e /\ x # e
    BY <1>4, <1>5, <1>6, <2>2 DEF Xor
  <2> QED
    BY <2>1, <2>2
<1>7. CASE e \notin p
  <2>1. \A x \in p : x \in 0 .. e - 1
    BY <1>7
  <2> QED
    BY <1>7, <2>1 DEF Eliminate
<1> QED
  BY <1>6, <1>7

\* The degrees p loses by the eliminations are those eight times X as much loses eight
\* later, and the eight terms of one more character do not meet them.
LEMMA EliminateLater ==
    ASSUME NEW e \in Int, e >= 32, NEW p \in SUBSET Int, NEW c \in SUBSET (32 .. 39)
    PROVE  Eliminate(Xor(TimesX(p, 8), c), e + 8) = Xor(TimesX(Eliminate(p, e), 8), c)
<1> DEFINE a == TimesX(p, 8)
           t == TimesX(Generator, e - 32)
           u == TimesX(Generator, (e + 8) - 32)
<1>1. Generator \in SUBSET Int /\ c \in SUBSET Int /\ \A x \in c : x < e + 8
  BY DEF Generator
<1>2. a \in SUBSET Int /\ \A x \in Int : x \in a <=> x - 8 \in p
  BY TimesHas, 8 \in Int
<1>3. t \in SUBSET Int /\ \A x \in Int : x \in t <=> x - (e - 32) \in Generator
  BY <1>1, TimesHas, e - 32 \in Int
<1>4. u \in SUBSET Int /\ \A x \in Int : x \in u <=> x - ((e + 8) - 32) \in Generator
  BY <1>1, TimesHas, (e + 8) - 32 \in Int
<1>5. u = TimesX(t, 8)
  <2>1. TimesX(t, 8) \in SUBSET Int /\ \A x \in Int : x \in TimesX(t, 8) <=> x - 8 \in t
    BY <1>3, TimesHas, 8 \in Int
  <2> HIDE DEF t, u
  <2>2. ASSUME NEW x \in Int PROVE x \in u <=> x \in TimesX(t, 8)
    <3>1. x - 8 \in Int /\ (x - 8) - (e - 32) = x - ((e + 8) - 32)
      OBVIOUS
    <3>2. x - 8 \in t <=> x - ((e + 8) - 32) \in Generator
      BY <1>3, <3>1
    <3> QED
      BY <1>4, <2>1, <3>2
  <2> QED
    BY <1>4, <2>1, <2>2
<1>6. Xor(p, t) \in SUBSET Int /\ TimesX(Xor(p, t), 8) = Xor(a, TimesX(t, 8))
  <2>1. Xor(p, t) \in SUBSET Int
    BY <1>3 DEF Xor
  <2>2. /\ TimesX(Xor(p, t), 8) \in SUBSET Int
        /\ \A x \in Int : x \in TimesX(Xor(p, t), 8) <=> x - 8 \in Xor(p, t)
    <3> HIDE DEF t
    <3> QED
      BY <2>1, TimesHas, 8 \in Int
  <2>3. /\ TimesX(t, 8) \in SUBSET Int
        /\ \A x \in Int : x \in TimesX(t, 8) <=> x - 8 \in t
    BY <1>3, TimesHas, 8 \in Int
  <2> HIDE DEF a, t
  <2>4. ASSUME NEW x \in Int
        PROVE  x \in TimesX(Xor(p, t), 8) <=> ~ (x \in a <=> x \in TimesX(t, 8))
    <3>1. x - 8 \in Xor(p, t) <=> ~ (x - 8 \in p <=> x - 8 \in t)
      BY XorHas
    <3> QED
      BY <1>2, <2>2, <2>3, <3>1
  <2>5. TimesX(Xor(p, t), 8) = Xor(a, TimesX(t, 8))
    <3> DEFINE l == TimesX(Xor(p, t), 8)
               r == TimesX(t, 8)
    <3>1. l \in SUBSET Int /\ r \in SUBSET Int /\ a \in SUBSET Int
      BY <1>2, <2>2, <2>3
    <3>2. \A x \in Int : x \in l <=> ~ (x \in a <=> x \in r)
      BY <2>4
    <3> HIDE DEF l, r
    <3>3. l = Xor(a, r)
      BY <3>1, <3>2, SumIs
    <3> QED
      BY <3>3 DEF l, r
  <2> QED
    BY <2>1, <2>5
<1>7. e + 8 \in Xor(a, c) <=> e \in p
  <2>1. e + 8 \notin c /\ e + 8 \in Int /\ (e + 8) - 8 = e
    BY <1>1
  <2>2. e + 8 \in a <=> e \in p
    BY <1>2, <2>1
  <2> HIDE DEF a
  <2> QED
    BY <2>1, <2>2, XorHas
<1> HIDE DEF a, t, u
<1>8. Xor(Xor(a, c), TimesX(t, 8)) = Xor(Xor(a, TimesX(t, 8)), c)
  BY DEF Xor
<1>9. CASE e \in p
  <2>1. Eliminate(Xor(a, c), e + 8) = Xor(Xor(a, c), u)
    BY <1>7, <1>9 DEF Eliminate, u
  <2>2. Eliminate(p, e) = Xor(p, t)
    BY <1>9 DEF Eliminate, t
  <2>3. Xor(TimesX(Eliminate(p, e), 8), c) = Xor(Xor(a, TimesX(t, 8)), c)
    BY <1>6, <2>2
  <2>4. Eliminate(Xor(a, c), e + 8) = Xor(TimesX(Eliminate(p, e), 8), c)
    BY <1>5, <1>8, <2>1, <2>3
  <2> QED
    BY <2>4 DEF a
<1>10. CASE e \notin p
  BY <1>7, <1>10 DEF Eliminate, a
<1> QED
  BY <1>9, <1>10

\* The terms of p as a register sees them that holds those below t.
View(p, t) == {t - x : x \in p}

LEMMA ViewHas ==
    ASSUME NEW p \in SUBSET Int, NEW t \in Int
    PROVE  /\ View(p, t) \in SUBSET Int
           /\ \A x \in Int : x \in View(p, t) <=> t - x \in p
<1>1. ASSUME NEW x \in Int, t - x \in p PROVE x \in View(p, t)
  <2>1. t - (t - x) = x
    OBVIOUS
  <2> QED
    BY <1>1, <2>1 DEF View
<1>2. ASSUME NEW x \in Int, x \in View(p, t) PROVE t - x \in p
  BY <1>2 DEF View
<1>3. View(p, t) \in SUBSET Int
  BY DEF View
<1> QED
  BY <1>1, <1>2, <1>3

\* The polynomial of the code is the generator in the order of the register.
LEMMA PolyIsGenerator ==
    \A x \in Int : 31 - x \in Generator <=> x \in Poly \union {-1}
BY DEF Generator, Poly

\* One elimination is one round.
LEMMA EliminateIsRound ==
    ASSUME NEW e \in Int, NEW p \in SUBSET Int,
           \A x \in p : e - 31 <= x /\ x <= e
    PROVE  /\ Eliminate(p, e) \in SUBSET Int
           /\ \A x \in Eliminate(p, e) : (e - 1) - 31 <= x /\ x <= e - 1
           /\ View(Eliminate(p, e), e - 1) = Round(View(p, e))
           /\ View(p, e) \in Word
<1> DEFINE t == TimesX(Generator, e - 32)
           w == View(p, e)
           q == Eliminate(p, e)
           z == View(q, e - 1)
<1>1. t \in SUBSET Int /\ \A x \in Int : x \in t <=> x - (e - 32) \in Generator
  <2>1. Generator \in SUBSET Int /\ e - 32 \in Int
    BY DEF Generator
  <2> QED
    BY <2>1, TimesHas
<1>2. w \in SUBSET Int /\ \A x \in Int : x \in w <=> e - x \in p
  BY ViewHas
<1>3. q = IF e \in p THEN Xor(p, t) ELSE p
  BY DEF Eliminate
<1> HIDE DEF t, w, q
<1>4. q \in SUBSET Int
  BY <1>1, <1>3 DEF Xor
<1>5. z \in SUBSET Int /\ \A x \in Int : x \in z <=> (e - 1) - x \in q
  BY <1>4, ViewHas, e - 1 \in Int
<1> HIDE DEF z
<1>6. w \in Word
  <2>1. ASSUME NEW x \in w PROVE x \in 0 .. 31
    <3>1. x \in Int /\ e - x \in p
      BY <1>2
    <3>2. e - 31 <= e - x /\ e - x <= e
      BY <3>1
    <3> QED
      BY <3>1, <3>2
  <2> QED
    BY <2>1 DEF Word, Ones
<1>7. 0 \in w <=> e \in p
  BY <1>2, 0 \in Int, e - 0 = e
<1>8. /\ ShiftRight(w, 1) \in SUBSET Int
      /\ \A x \in Int : x \in ShiftRight(w, 1) <=> x >= 0 /\ x + 1 \in w
  BY <1>2, ShiftHas, 1 \in Int
<1>9. ASSUME NEW x \in Int
      PROVE  x \in z <=> IF e \in p THEN ~ (x + 1 \in w <=> x \in Poly \union {-1})
                                    ELSE x + 1 \in w
  <2>1. (e - 1) - x \in Int /\ e - (x + 1) = (e - 1) - x /\ x + 1 \in Int
        /\ ((e - 1) - x) - (e - 32) = 31 - x
    OBVIOUS
  <2>2. x + 1 \in w <=> (e - 1) - x \in p
    BY <1>2, <2>1
  <2>3. (e - 1) - x \in t <=> x \in Poly \union {-1}
    BY <1>1, <2>1, PolyIsGenerator
  <2>4. (e - 1) - x \in Xor(p, t) <=> ~ ((e - 1) - x \in p <=> (e - 1) - x \in t)
    BY XorHas
  <2> QED
    BY <1>3, <1>5, <2>2, <2>3, <2>4
<1>10. ASSUME NEW x \in Int
       PROVE  x \in Round(w) <=> IF e \in p THEN ~ (x \in ShiftRight(w, 1) <=> x \in Poly)
                                            ELSE x \in ShiftRight(w, 1)
  <2>1. x \in Xor(ShiftRight(w, 1), Poly) <=> ~ (x \in ShiftRight(w, 1) <=> x \in Poly)
    BY XorHas
  <2> QED
    BY <1>7, <2>1 DEF Round
<1>11. ASSUME NEW x \in Int
       PROVE  x \in z <=> x \in Round(w)
  <2>1. CASE x >= 0
    <3>1. x \in ShiftRight(w, 1) <=> x + 1 \in w
      BY <1>8, <2>1
    <3>2. x \in Poly \union {-1} <=> x \in Poly
      BY <2>1
    <3> QED
      BY <1>9, <1>10, <3>1, <3>2
  <2>2. CASE x < 0
    <3>1. x \notin ShiftRight(w, 1) /\ x \notin Poly
      BY <1>8, <2>2 DEF Poly
    <3>2. x \in Poly \union {-1} <=> x = -1
      BY <3>1
    <3>3. x + 1 \in w <=> x = -1 /\ e \in p
      <4>1. \A y \in w : y >= 0
        BY <1>6 DEF Word, Ones
      <4>2. x + 1 \in w => x = -1
        BY <2>2, <4>1
      <4>3. x = -1 => (x + 1 \in w <=> e \in p)
        BY <1>7
      <4> QED
        BY <4>2, <4>3
    <3> QED
      BY <1>9, <1>10, <3>1, <3>2, <3>3
  <2> QED
    BY <2>1, <2>2
<1>12. Round(w) \in Word
  BY <1>6, WordOps
<1>13. z = Round(w)
  <2>1. Round(w) \in SUBSET Int
    BY <1>12 DEF Word, Ones
  <2> QED
    BY <1>5, <1>11, <2>1
<1>14. ASSUME NEW x \in q PROVE (e - 1) - 31 <= x /\ x <= e - 1
  <2>1. x \in Int /\ (e - 1) - x \in Int /\ (e - 1) - ((e - 1) - x) = x
    BY <1>4
  <2>2. (e - 1) - x \in z
    BY <1>5, <1>14, <2>1
  <2>3. (e - 1) - x \in 0 .. 31
    BY <1>12, <1>13, <2>2 DEF Word, Ones
  <2> QED
    BY <2>1, <2>3
<1> QED
  BY <1>4, <1>6, <1>13, <1>14 DEF z, w, q

\* The terms of a text's characters, the first one highest.
TermsOf(b) == UNION {{8 * Len(b) + 31 - (8 * (i - 1) + j) : j \in b[i]} : i \in DOMAIN b}

\* What a further character does to the dividend.
LEMMA DividendOneMore ==
    ASSUME NEW b \in Seq(ByteBits), NEW c \in ByteBits
    PROVE  /\ Dividend(b) \in SUBSET (0 .. 8 * Len(b) + 31)
           /\ View(c, 39) \in SUBSET (32 .. 39)
           /\ Dividend(Append(b, c)) = Xor(TimesX(Dividend(b), 8), View(c, 39))
<1> DEFINE n == Len(b)
           bc == Append(b, c)
           m == TermsOf(b)
           mc == TermsOf(bc)
           o == TimesX(Ones, 8 * n)
           oc == TimesX(Ones, 8 * (n + 1))
           v == View(c, 39)
<1>1. /\ n \in Nat /\ Len(bc) = n + 1 /\ DOMAIN b = 1 .. n /\ DOMAIN bc = 1 .. n + 1
      /\ \A i \in 1 .. n : bc[i] = b[i] /\ b[i] \in ByteBits
      /\ bc[n + 1] = c
  BY AppendProperties, LenProperties, ElementOfSeq
<1>2. Dividend(b) = Xor(m, o) /\ Dividend(bc) = Xor(mc, oc)
  BY <1>1 DEF Dividend, TermsOf
<1>3. \A x \in Int : x \in m <=> \E i \in 1 .. n : \E j \in b[i] : x = 8 * n + 31 - (8 * (i - 1) + j)
  BY <1>1 DEF TermsOf
<1>4. \A x \in Int : x \in mc <=> \E i \in 1 .. n + 1 : \E j \in bc[i] :
                                      x = 8 * (n + 1) + 31 - (8 * (i - 1) + j)
  BY <1>1 DEF TermsOf
<1>5. \A i \in 1 .. n : \A j \in b[i] : j \in 0 .. 7
  BY <1>1 DEF ByteBits
<1>6. \A j \in c : j \in 0 .. 7
  BY DEF ByteBits
<1>7. m \in SUBSET Int /\ mc \in SUBSET Int
  <2>1. \A i \in 1 .. n + 1 : \A j \in bc[i] : j \in 0 .. 7
    BY <1>1, <1>5, <1>6
  <2>2. \A i \in 1 .. n : \A j \in b[i] : 8 * n + 31 - (8 * (i - 1) + j) \in Int
    BY <1>1, <1>5
  <2>3. \A i \in 1 .. n + 1 : \A j \in bc[i] : 8 * (n + 1) + 31 - (8 * (i - 1) + j) \in Int
    BY <1>1, <2>1
  <2> HIDE DEF n, bc
  <2>4. m \in SUBSET Int
    BY <1>1, <2>2 DEF TermsOf, n
  <2>5. mc \in SUBSET Int
    BY <1>1, <2>3 DEF TermsOf
  <2> QED
    BY <2>4, <2>5
<1>8. /\ o \in SUBSET Int /\ oc \in SUBSET Int
      /\ \A x \in Int : x \in o <=> x - 8 * n \in Ones
      /\ \A x \in Int : x \in oc <=> x - 8 * (n + 1) \in Ones
  <2>1. Ones \in SUBSET Int /\ 8 * n \in Int /\ 8 * (n + 1) \in Int
    BY <1>1 DEF Ones
  <2> QED
    BY <2>1, TimesHas
<1>9. v \in SUBSET Int /\ \A x \in Int : x \in v <=> 39 - x \in c
  <2>1. c \in SUBSET Int /\ 39 \in Int
    BY DEF ByteBits
  <2> QED
    BY <2>1, ViewHas
<1> HIDE DEF n, bc, m, mc, o, oc, v
<1>10. v \in SUBSET (32 .. 39)
  <2>1. ASSUME NEW x \in v PROVE x \in 32 .. 39
    <3>1. x \in Int /\ 39 - x \in 0 .. 7
      BY <1>6, <1>9
    <3> QED
      BY <3>1
  <2> QED
    BY <2>1
<1>11. \A x \in m : 32 <= x /\ x <= 8 * n + 31
  <2> TAKE x \in m
  <2>0. PICK i \in 1 .. n : \E j \in b[i] : x = 8 * n + 31 - (8 * (i - 1) + j)
    BY <1>3, <1>7
  <2>1. PICK j \in b[i] : x = 8 * n + 31 - (8 * (i - 1) + j)
    BY <2>0
  <2>2. j \in 0 .. 7
    BY <1>5
  <2> QED
    BY <1>1, <2>1, <2>2
<1>12. Xor(m, o) \in SUBSET Int /\ \A x \in Xor(m, o) : 0 <= x /\ x <= 8 * n + 31
  <2>1. \A x \in o : 0 <= x /\ x <= 8 * n + 31
    <3> TAKE x \in o
    <3>1. x \in Int /\ x - 8 * n \in 0 .. 31
      BY <1>8 DEF Ones
    <3> QED
      BY <1>1, <3>1
  <2>2. \A x \in m \union o : x \in Int /\ 0 <= x /\ x <= 8 * n + 31
    BY <1>7, <1>8, <1>11, <2>1
  <2>3. \A x \in Xor(m, o) : x \in m \union o
    BY DEF Xor
  <2> QED
    BY <2>2, <2>3
<1>13. ASSUME NEW x \in Int
       PROVE  x \in mc <=> ~ (x - 8 \in m <=> x \in v)
  <2>1. x \in v => x - 8 \notin m
    <3>1. x \in v => x - 8 < 32
      BY <1>10
    <3> QED
      BY <1>11, <3>1
  <2>2. x \in mc <=> x - 8 \in m \/ x \in v
    <3>1. ASSUME x \in mc PROVE x - 8 \in m \/ x \in v
      <4>0. PICK i \in 1 .. n + 1 : \E j \in bc[i] :
               x = 8 * (n + 1) + 31 - (8 * (i - 1) + j)
        BY <1>4, <3>1
      <4>1. PICK j \in bc[i] : x = 8 * (n + 1) + 31 - (8 * (i - 1) + j)
        BY <4>0
      <4>2. CASE i = n + 1
        <5>1. j \in c /\ j \in 0 .. 7
          BY <1>1, <1>6, <4>1, <4>2
        <5>2. 39 - x = j
          BY <1>1, <4>1, <4>2, <5>1
        <5> QED
          BY <1>9, <5>1, <5>2
      <4>3. CASE i # n + 1
        <5>1. i \in 1 .. n
          BY <1>1, <4>3
        <5>2. j \in b[i] /\ j \in 0 .. 7
          BY <1>1, <1>5, <4>1, <5>1
        <5>3. x - 8 = 8 * n + 31 - (8 * (i - 1) + j)
          BY <1>1, <4>1, <5>1, <5>2
        <5> QED
          BY <1>3, <5>1, <5>2, <5>3
      <4> QED
        BY <4>2, <4>3
    <3>2. ASSUME x - 8 \in m PROVE x \in mc
      <4>0. PICK i \in 1 .. n : \E j \in b[i] : x - 8 = 8 * n + 31 - (8 * (i - 1) + j)
        BY <1>3, <3>2
      <4>1. PICK j \in b[i] : x - 8 = 8 * n + 31 - (8 * (i - 1) + j)
        BY <4>0
      <4>2. i \in 1 .. n + 1 /\ j \in bc[i] /\ j \in 0 .. 7
        BY <1>1, <1>5, <4>1
      <4>3. x = 8 * (n + 1) + 31 - (8 * (i - 1) + j)
        BY <1>1, <4>1, <4>2
      <4> QED
        BY <1>4, <4>2, <4>3
    <3>3. ASSUME x \in v PROVE x \in mc
      <4>1. 39 - x \in c
        BY <1>9, <3>3
      <4>2. n + 1 \in 1 .. n + 1 /\ 39 - x \in bc[n + 1]
        BY <1>1, <4>1
      <4>3. x = 8 * (n + 1) + 31 - (8 * ((n + 1) - 1) + (39 - x))
        BY <1>1
      <4> QED
        BY <1>4, <4>2, <4>3
    <3> QED
      BY <3>1, <3>2, <3>3
  <2> QED
    BY <2>1, <2>2
<1>14. ASSUME NEW x \in Int PROVE x \in oc <=> x - 8 \in o
  <2>1. x - 8 \in Int /\ (x - 8) - 8 * n = x - 8 * (n + 1)
    BY <1>1
  <2> QED
    BY <1>8, <2>1
<1> DEFINE d == Xor(m, o)
           t == TimesX(d, 8)
           dc == Xor(mc, oc)
<1>15. /\ t \in SUBSET Int
       /\ \A x \in Int : x \in t <=> x - 8 \in d
  BY <1>12, TimesHas, 8 \in Int
<1>16. ASSUME NEW x \in Int PROVE x \in dc <=> ~ (x \in t <=> x \in v)
  <2>1. x \in dc <=> ~ (x \in mc <=> x \in oc)
    BY XorHas
  <2>2. x - 8 \in d <=> ~ (x - 8 \in m <=> x - 8 \in o)
    BY XorHas
  <2>3. x \in t <=> x - 8 \in d
    BY <1>15
  <2> HIDE DEF d, t, dc
  <2> QED
    BY <1>13, <1>14, <2>1, <2>2, <2>3
<1>17. dc = Xor(t, v)
  <2>1. dc \in SUBSET Int
    BY <1>7, <1>8 DEF Xor
  <2> HIDE DEF dc, t
  <2> QED
    BY <1>9, <1>15, <1>16, <2>1, SumIs
<1> QED
  BY <1>1, <1>2, <1>10, <1>12, <1>17 DEF n, bc, v

\* The register of the empty text is what the loop starts with.
LEMMA RegisterOfNothing == Register(<< >>) = Ones
<1>1. Len(<< >>) = 0 /\ DOMAIN << >> = {}
  BY EmptySeq
<1>2. TimesX(Ones, 8 * 0) = Ones
  <2>1. Ones \in SUBSET Int /\ 0 \in Int /\ \A x \in Int : x - 0 = x
    BY DEF Ones
  <2> DEFINE t == TimesX(Ones, 8 * 0)
  <2>2. t \in SUBSET Int /\ \A x \in Int : x \in t <=> x - 0 \in Ones
    BY <2>1, TimesHas, 8 * 0 = 0
  <2> HIDE DEF t
  <2>3. \A x \in Int : x \in t <=> x \in Ones
    BY <2>1, <2>2
  <2>4. t = Ones
    BY <2>1, <2>2, <2>3
  <2> QED
    BY <2>4 DEF t
<1>3. Dividend(<< >>) = Ones
  BY <1>1, <1>2 DEF Dividend, Xor
<1>4. PICK f : /\ Remainder(Ones, 31) = f[31]
               /\ f[31] = Ones
  BY RestDefined, 31 \in Nat
<1>5. Register(<< >>) = View(Ones, 31)
  BY <1>1, <1>3, <1>4 DEF Register, View
<1>6. View(Ones, 31) = Ones
  <2>1. Ones \in SUBSET Int /\ 31 \in Int
    BY DEF Ones
  <2> DEFINE r == View(Ones, 31)
  <2>2. r \in SUBSET Int /\ \A x \in Int : x \in r <=> 31 - x \in Ones
    BY <2>1, ViewHas
  <2>3. \A x \in Int : 31 - x \in Ones <=> x \in Ones
    BY DEF Ones
  <2> HIDE DEF r
  <2>4. \A x \in Int : x \in r <=> x \in Ones
    BY <2>2, <2>3
  <2>5. r = Ones
    <3>1. Ones \in SUBSET Int /\ r \in SUBSET Int
      BY <2>1, <2>2
    <3> QED
      BY <2>4, <3>1
  <2> QED
    BY <2>5 DEF r
<1> QED
  BY <1>5, <1>6

\* The register of a text and of one more character.
LEMMA RegisterOneMore ==
    ASSUME NEW b \in Seq(ByteBits), NEW c \in ByteBits
    PROVE  /\ Register(b) \in Word
           /\ Register(Append(b, c)) = Rounds8(Xor(Register(b), c))
<1> DEFINE n == Len(b)
           k == 8 * n + 31
           v == View(c, 39)
<1>1. n \in Nat /\ Len(Append(b, c)) = n + 1
  BY AppendProperties, LenProperties
<1>2. /\ k \in Nat /\ k >= 31 /\ k + 8 \in Nat /\ k + 8 >= 31
      /\ 8 * Len(b) + 31 = k /\ 8 * Len(Append(b, c)) + 31 = k + 8
  BY <1>1
<1>0. /\ k \in Nat /\ k >= 31 /\ k + 8 \in Nat /\ k + 8 >= 31
  BY <1>2
<1> HIDE DEF n, k
<1>3. PICK f : /\ Remainder(Dividend(b), k) = f[31]
               /\ f[k] = Dividend(b)
               /\ \A d \in 31 .. k - 1 : f[d] = Eliminate(f[d + 1], d + 1)
  BY <1>0, RestDefined
<1>4. PICK g : /\ Remainder(Dividend(Append(b, c)), k + 8) = g[31]
               /\ g[k + 8] = Dividend(Append(b, c))
               /\ \A d \in 31 .. (k + 8) - 1 : g[d] = Eliminate(g[d + 1], d + 1)
  <2> DEFINE h == k + 8
             p == Dividend(Append(b, c))
  <2>1. h \in Nat /\ h >= 31
    BY <1>0
  <2> HIDE DEF h, p
  <2>2. \E g : /\ Remainder(p, h) = g[31]
               /\ g[h] = p
               /\ \A d \in 31 .. h - 1 : g[d] = Eliminate(g[d + 1], d + 1)
    BY <2>1, RestDefined
  <2> QED
    BY <2>2 DEF h, p
<1>5. /\ Dividend(b) \in SUBSET (0 .. k)
      /\ v \in SUBSET (32 .. 39)
      /\ Dividend(Append(b, c)) = Xor(TimesX(Dividend(b), 8), v)
  BY <1>2, DividendOneMore
<1>6. Register(b) = View(f[31], 31) /\ Register(Append(b, c)) = View(g[31], 31)
  BY <1>2, <1>3, <1>4 DEF Register, View
<1> HIDE DEF v
<1> DEFINE Same(d) == f[d] \in SUBSET (0 .. d) /\ g[d + 8] = Xor(TimesX(f[d], 8), v)
           bad == {j \in 0 .. k - 31 : ~ Same(k - j)}
<1>7. bad = {}
  <2> SUFFICES ASSUME bad # {} PROVE FALSE
    OBVIOUS
  <2> DEFINE m == Min(bad)
  <2>1. m \in bad /\ \A a \in bad : m <= a
    <3>1. bad \in SUBSET Nat
      BY <1>2
    <3> HIDE DEF bad
    <3> QED
      BY <3>1, FirstPlace
  <2> HIDE DEF m
  <2>2. m \in 0 .. k - 31 /\ ~ Same(k - m)
    BY <2>1
  <2>3. m # 0
    <3>1. Same(k)
      BY <1>3, <1>4, <1>5
    <3>2. k - 0 = k
      BY <1>2
    <3> HIDE DEF Same
    <3> QED
      BY <2>2, <3>1, <3>2
  <2> DEFINE d == k - m
  <2>4. /\ d \in 31 .. k - 1 /\ d + 8 \in 31 .. (k + 8) - 1
        /\ d + 1 \in Int /\ d + 1 >= 32 /\ (d + 1) - 1 = d /\ (d + 8) + 1 = (d + 1) + 8
    <3>1. m \in 0 .. k - 31
      BY <2>2
    <3> QED
      BY <1>0, <2>3, <3>1
  <2>5. Same(d + 1)
    <3>1. m - 1 \in 0 .. k - 31 /\ m - 1 \notin bad /\ k - (m - 1) = d + 1
      <4>1. m - 1 \in 0 .. k - 31 /\ ~ (m <= m - 1) /\ k - (m - 1) = d + 1
        BY <1>2, <2>2, <2>3
      <4> HIDE DEF bad
      <4> QED
        BY <2>1, <4>1
    <3> HIDE DEF Same, d
    <3> QED
      BY <3>1
  <2> HIDE DEF d
  <2>6. f[d + 1] \in SUBSET (0 .. d + 1) /\ g[(d + 1) + 8] = Xor(TimesX(f[d + 1], 8), v)
    BY <2>5
  <2>7. f[d] = Eliminate(f[d + 1], d + 1) /\ g[d + 8] = Eliminate(g[(d + 1) + 8], (d + 1) + 8)
    <3>1. f[d] = Eliminate(f[d + 1], d + 1)
      BY <1>3, <2>4
    <3>2. g[d + 8] = Eliminate(g[(d + 8) + 1], (d + 8) + 1)
      BY <1>4, <2>4
    <3> QED
      BY <2>4, <3>1, <3>2
  <2>8. f[d] \in SUBSET (0 .. d)
    BY <2>4, <2>6, <2>7, EliminateDegree
  <2>9. g[d + 8] = Xor(TimesX(f[d], 8), v)
    <3>1. f[d + 1] \in SUBSET Int
      BY <2>4, <2>6
    <3>2. Eliminate(Xor(TimesX(f[d + 1], 8), v), (d + 1) + 8)
            = Xor(TimesX(Eliminate(f[d + 1], d + 1), 8), v)
      BY <1>5, <2>4, <3>1, EliminateLater
    <3> QED
      BY <2>6, <2>7, <3>2
  <2> QED
    BY <2>2, <2>8, <2>9 DEF d
<1>8. f[31] \in SUBSET (0 .. 31) /\ g[39] = Xor(TimesX(f[31], 8), v)
  <2>1. k - 31 \in 0 .. k - 31 /\ k - (k - 31) = 31 /\ 31 + 8 = 39
    BY <1>2
  <2>2. Same(k - (k - 31))
    <3> HIDE DEF Same
    <3> QED
      BY <1>7, <2>1
  <2> QED
    BY <2>1, <2>2
<1> HIDE DEF bad, Same
<1> DEFINE r == View(f[31], 31)
           t == TimesX(f[31], 8)
           w == View(g[39], 39)
<1>9. f[31] \in SUBSET Int /\ c \in SUBSET Int /\ 31 \in Int /\ 39 \in Int /\ 8 \in Int
  <2>0. f[31] \in SUBSET (0 .. 31)
    BY <1>8
  <2>1. f[31] \in SUBSET Int
    <3>1. \A x \in f[31] : x \in 0 .. 31
      BY <2>0
    <3>2. \A x \in 0 .. 31 : x \in Int
      OBVIOUS
    <3> QED
      BY <3>1, <3>2, Zenon
  <2>2. c \in SUBSET Int
    BY DEF ByteBits
  <2> QED
    BY <2>1, <2>2
<1>10. t \in SUBSET Int /\ \A x \in Int : x \in t <=> x - 8 \in f[31]
  BY <1>9, TimesHas
<1>11. v \in SUBSET Int /\ \A x \in Int : x \in v <=> 39 - x \in c
  BY <1>9, ViewHas DEF v
<1>12. r \in SUBSET Int /\ \A x \in Int : x \in r <=> 31 - x \in f[31]
  BY <1>9, ViewHas
<1>13. g[39] \in SUBSET Int /\ \A x \in g[39] : 39 - 31 <= x /\ x <= 39
  <2>1. \A x \in t : x \in Int /\ 8 <= x /\ x <= 39
    <3> TAKE x \in t
    <3>1. x \in Int /\ x - 8 \in 0 .. 31
      BY <1>8, <1>10
    <3> QED
      BY <3>1
  <2>2. \A x \in v : x \in Int /\ 32 <= x /\ x <= 39
    BY <1>5
  <2>3. \A x \in g[39] : x \in t \/ x \in v
    BY <1>8 DEF Xor
  <2> HIDE DEF t
  <2> QED
    BY <2>1, <2>2, <2>3
<1>14. w \in SUBSET Int /\ \A x \in Int : x \in w <=> 39 - x \in g[39]
  BY <1>9, <1>13, ViewHas
<1>15. r \in Word
  <2>1. ASSUME NEW x \in r PROVE x \in 0 .. 31
    <3>1. x \in Int /\ 31 - x \in 0 .. 31
      BY <1>8, <1>12
    <3> QED
      BY <3>1
  <2> QED
    BY <2>1 DEF Word, Ones
<1> HIDE DEF r, t, w
<1>16. w = Xor(r, c)
  <2>1. ASSUME NEW x \in Int PROVE x \in w <=> ~ (x \in r <=> x \in c)
    <3>1. 39 - x \in Int /\ (39 - x) - 8 = 31 - x /\ 39 - (39 - x) = x
      OBVIOUS
    <3>2. x \in r <=> 39 - x \in t
      BY <1>10, <1>12, <3>1
    <3>3. x \in c <=> 39 - x \in v
      BY <1>11, <3>1
    <3>4. 39 - x \in Xor(t, v) <=> ~ (39 - x \in t <=> 39 - x \in v)
      BY XorHas
    <3>5. x \in w <=> 39 - x \in Xor(t, v)
      BY <1>8, <1>14 DEF t
    <3> QED
      BY <3>2, <3>3, <3>4, <3>5
  <2> QED
    BY <1>9, <1>12, <1>14, <2>1, SumIs
<1> DEFINE Near(e) == g[e] \in SUBSET Int /\ \A x \in g[e] : e - 31 <= x /\ x <= e
<1>17. ASSUME NEW e \in 32 .. 39, Near(e), NEW a, a = e - 1
       PROVE  Near(a) /\ View(g[a], a) = Round(View(g[e], e))
  <2>1. e - 1 \in 31 .. (k + 8) - 1 /\ (e - 1) + 1 = e /\ e \in Int
    BY <1>2
  <2>2. g[e - 1] = Eliminate(g[e], e)
    BY <1>4, <2>1
  <2>3. /\ Eliminate(g[e], e) \in SUBSET Int
        /\ \A x \in Eliminate(g[e], e) : (e - 1) - 31 <= x /\ x <= e - 1
        /\ View(Eliminate(g[e], e), e - 1) = Round(View(g[e], e))
    BY <1>17, <2>1, EliminateIsRound
  <2> QED
    BY <1>17, <2>2, <2>3
<1>18. Near(39)
  BY <1>13
<1> HIDE DEF Near
<1>19. Near(38) /\ View(g[38], 38) = Round(View(g[39], 39))
  BY <1>17, <1>18, 39 \in 32 .. 39, 38 = 39 - 1
<1>20. Near(37) /\ View(g[37], 37) = Round(View(g[38], 38))
  BY <1>17, <1>19, 38 \in 32 .. 39, 37 = 38 - 1
<1>21. Near(36) /\ View(g[36], 36) = Round(View(g[37], 37))
  BY <1>17, <1>20, 37 \in 32 .. 39, 36 = 37 - 1
<1>22. Near(35) /\ View(g[35], 35) = Round(View(g[36], 36))
  BY <1>17, <1>21, 36 \in 32 .. 39, 35 = 36 - 1
<1>23. Near(34) /\ View(g[34], 34) = Round(View(g[35], 35))
  BY <1>17, <1>22, 35 \in 32 .. 39, 34 = 35 - 1
<1>24. Near(33) /\ View(g[33], 33) = Round(View(g[34], 34))
  BY <1>17, <1>23, 34 \in 32 .. 39, 33 = 34 - 1
<1>25. Near(32) /\ View(g[32], 32) = Round(View(g[33], 33))
  BY <1>17, <1>24, 33 \in 32 .. 39, 32 = 33 - 1
<1>26. View(g[31], 31) = Round(View(g[32], 32))
  BY <1>17, <1>25, 32 \in 32 .. 39, 31 = 32 - 1
<1>27. View(g[31], 31) = Rounds8(w)
  BY <1>19, <1>20, <1>21, <1>22, <1>23, <1>24, <1>25, <1>26, Zenon DEF Rounds8, w
<1> QED
  BY <1>6, <1>15, <1>16, <1>27 DEF r

--------------------------------------------------------------------------------
(* CRC32Coder: the loop. *)

\* What the unsigned counter makes of the numbers that occur in it.
LEMMA CounterValues ==
    /\ SizeT(-1) = SIZE_MAX
    /\ \A n \in 0 .. SIZE_MAX : SizeT(n) = n
BY SizeAssumption DEF SizeT

\* One turn of the loop takes the register from a text to the text with one more
\* character, of whatever sign.
LEMMA TurnOfRegister ==
    ASSUME NEW b \in Seq(ByteBits), NEW c \in ByteBits
    PROVE  Register(Append(b, c))
             = Xor(crc_table[Xor(Register(b), Promoted(c)) \intersect 0 .. 7],
                   ShiftRight(Register(b), 8))
<1> DEFINE r == Register(b)
           w == Xor(r, c)
<1>1. r \in Word /\ Register(Append(b, c)) = Rounds8(w)
  BY RegisterOneMore
<1> HIDE DEF r
<1>2. c \in Word /\ c \in SUBSET (0 .. 7)
  BY DEF ByteBits, Word, Ones
<1>3. w \in Word
  BY <1>1, <1>2, WordOps
<1>4. Xor(r, Promoted(c)) \intersect 0 .. 7 = w \intersect 0 .. 7
  <2>1. \A x \in 0 .. 7 : x \in Promoted(c) <=> x \in c
    BY DEF Promoted
  <2> QED
    BY <2>1 DEF Xor
<1>5. ShiftRight(w, 8) = ShiftRight(r, 8)
  <2>1. \A x \in r \union c : x \in Int
    BY <1>1, <1>2 DEF Word, Ones
  <2>2. \A j \in c : ~ (j >= 8)
    <3>1. \A j \in c : j \in 0 .. 7
      BY <1>2
    <3> QED
      BY <3>1
  <2>3. {j \in w : j >= 8} = {j \in r : j >= 8}
    BY <2>2 DEF Xor
  <2> QED
    BY <2>3 DEF ShiftRight
<1>6. Rounds8(w) = Xor(crc_table[w \intersect 0 .. 7], ShiftRight(w, 8))
  BY <1>3, RoundsByTable
<1> QED
  BY <1>1, <1>4, <1>5, <1>6 DEF r

\* The inductive invariant: while the loop runs the counter is what is left of the text,
\* less one, and so -1 as a size_t at the end of the text and nowhere before.
CounterIsLeft == IF done THEN next = Len(buf) + 1 ELSE s = SizeT(Len(buf) - next)

CrcInv == CrcTypeOK /\ CounterIsLeft /\ IsRemainder

\* The text has a length that fits size_t.
LEMMA TextFits ==
    ASSUME CrcTypeOK
    PROVE  /\ buf \in Seq(ByteBits)
           /\ Len(buf) \in 0 .. SIZE_MAX
           /\ SIZE_MAX \in Nat
           /\ next \in 1 .. Len(buf) + 1
           /\ DOMAIN buf = 1 .. Len(buf)
<1>1. buf \in Buffers /\ next \in 1 .. Len(buf) + 1
  BY DEF CrcTypeOK
<1>2. buf \in Seq(ByteBits)
  BY <1>1, BuffersAssumption
<1>3. Len(buf) \in Nat /\ DOMAIN buf = 1 .. Len(buf)
  BY <1>2, LenProperties
<1>4. SIZE_MAX \in Nat /\ Len(buf) <= SIZE_MAX
  BY <1>1, SizeAssumption
<1> QED
  BY <1>1, <1>2, <1>3, <1>4

\* The loop runs exactly as long as there is a character left.
LEMMA RunsWhileLeft ==
    ASSUME CrcTypeOK, CounterIsLeft, ~done
    PROVE  LoopRuns <=> next \in DOMAIN buf
<1>1. /\ Len(buf) \in 0 .. SIZE_MAX /\ SIZE_MAX \in Nat
      /\ next \in 1 .. Len(buf) + 1 /\ DOMAIN buf = 1 .. Len(buf)
  BY TextFits
<1>2. s = SizeT(Len(buf) - next)
  BY DEF CounterIsLeft
<1>3. CASE next = Len(buf) + 1
  <2>1. Len(buf) - next = -1 /\ next \notin 1 .. Len(buf)
    BY <1>1, <1>3
  <2> QED
    BY <1>1, <1>2, <2>1 DEF LoopRuns
<1>4. CASE next \in 1 .. Len(buf)
  <2>1. Len(buf) - next \in 0 .. SIZE_MAX /\ Len(buf) - next # SIZE_MAX
    <3>1. ASSUME NEW n \in 0 .. SIZE_MAX, next \in 1 .. n
          PROVE  n - next \in 0 .. SIZE_MAX /\ n - next # SIZE_MAX
      BY <1>1, <3>1
    <3> QED
      BY <1>1, <1>4, <3>1
  <2>2. s # SIZE_MAX
    BY <1>2, <2>1, CounterValues
  <2> QED
    BY <1>1, <1>4, <2>2, CounterValues DEF LoopRuns
<1> QED
  BY <1>1, <1>3, <1>4

\* The counter stays a size_t.
LEMMA CounterInRange ==
    ASSUME NEW n \in Int
    PROVE  SizeT(n) \in 0 .. SIZE_MAX
BY SizeAssumption DEF SizeT

LEMMA CrcInvInit == CrcInit => CrcInv
<1> SUFFICES ASSUME CrcInit PROVE CrcInv
  OBVIOUS
<1>1. buf \in Seq(ByteBits) /\ Len(buf) \in Nat
  BY BuffersAssumption, LenProperties DEF CrcInit
<1>2. CrcTypeOK
  <2>1. Len(buf) - 1 \in Int /\ 1 \in 1 .. Len(buf) + 1 /\ Ones \in Word
    BY <1>1 DEF Word
  <2> QED
    BY <2>1, CounterInRange DEF CrcInit, CrcTypeOK, FirstCounter
<1>3. CounterIsLeft
  BY DEF CrcInit, CounterIsLeft, FirstCounter
<1>4. IsRemainder
  <2>1. Read = << >>
    BY <1>1, SubSeqEmpty, next = 1, 1 \in Int, 1 - 1 \in Int, 1 - 1 < 1 DEF Read, CrcInit
  <2> QED
    BY <2>1, RegisterOfNothing DEF CrcInit, IsRemainder
<1> QED
  BY <1>2, <1>3, <1>4 DEF CrcInv

\* Each step keeps the invariant.
LEMMA CrcInvStep == CrcInv /\ [CrcNext]_crc_vars => CrcInv'
<1> SUFFICES ASSUME CrcInv, [CrcNext]_crc_vars PROVE CrcInv'
  OBVIOUS
<1>1. CrcTypeOK /\ CounterIsLeft /\ IsRemainder
  BY DEF CrcInv
<1>2. /\ buf \in Seq(ByteBits) /\ Len(buf) \in 0 .. SIZE_MAX /\ SIZE_MAX \in Nat
      /\ next \in 1 .. Len(buf) + 1 /\ DOMAIN buf = 1 .. Len(buf)
  BY <1>1, TextFits
<1>3. ASSUME Turn PROVE CrcInv'
  <2>1. /\ ~done /\ LoopRuns /\ next' = next + 1 /\ s' = SizeT(s - 1)
        /\ crc' = Xor(crc_table[Xor(crc, Promoted(buf[next])) \intersect 0 .. 7],
                      ShiftRight(crc, 8))
        /\ buf' = buf /\ done' = done
    BY <1>3 DEF Turn
  <2>2. next \in 1 .. Len(buf)
    BY <1>1, <1>2, <2>1, RunsWhileLeft
  <2>3. s = Len(buf) - next /\ Len(buf) - next \in 0 .. SIZE_MAX
    <3>1. Len(buf) - next \in 0 .. SIZE_MAX
      BY <1>2, <2>2
    <3> QED
      BY <1>1, <2>1, <3>1, CounterValues DEF CounterIsLeft
  <2>4. /\ Read \in Seq(ByteBits) /\ buf[next] \in ByteBits
        /\ Read' = Append(Read, buf[next])
    <3>1. next - 1 \in Nat /\ next - 1 < Len(buf) /\ (next - 1) + 1 = next
      BY <1>2, <2>2
    <3>2. /\ SubSeq(buf, 1, next - 1) \in Seq(ByteBits)
          /\ buf[next] \in ByteBits
          /\ SubSeq(buf, 1, next) = Append(SubSeq(buf, 1, next - 1), buf[next])
      <4> DEFINE k == next - 1
      <4>1. /\ SubSeq(buf, 1, k) \in Seq(ByteBits)
            /\ buf[k + 1] \in ByteBits
            /\ SubSeq(buf, 1, k + 1) = Append(SubSeq(buf, 1, k), buf[k + 1])
        <5> HIDE DEF k
        <5>1. k \in Nat /\ k < Len(buf)
          BY <3>1 DEF k
        <5> QED
          BY <1>2, <5>1, OneMore
      <4> QED
        BY <3>1, <4>1
    <3>3. (next + 1) - 1 = next
      BY <1>2
    <3> QED
      BY <2>1, <3>2, <3>3 DEF Read
  <2>5. CrcTypeOK'
    <3>1. next + 1 \in 1 .. Len(buf) + 1
      BY <1>2, <2>2
    <3>2. SizeT(s - 1) \in 0 .. SIZE_MAX
      <4>1. s - 1 \in Int
        BY <1>1 DEF CrcTypeOK
      <4> QED
        BY <4>1, CounterInRange
    <3>3. crc' \in Word
      <4>1. Xor(crc, Promoted(buf[next])) \intersect 0 .. 7 \in ByteBits
        BY DEF ByteBits
      <4>2. crc_table[Xor(crc, Promoted(buf[next])) \intersect 0 .. 7] \in Word
        BY <4>1, TableOfWords
      <4>3. ShiftRight(crc, 8) \in Word
        BY <1>1, WordOps, 8 \in Nat DEF CrcTypeOK
      <4> QED
        BY <2>1, <4>2, <4>3, WordOps
    <3> QED
      BY <1>1, <2>1, <3>1, <3>2, <3>3 DEF CrcTypeOK
  <2>6. CounterIsLeft'
    <3>1. s - 1 = Len(buf) - (next + 1)
      BY <1>2, <2>2, <2>3
    <3> QED
      BY <2>1, <3>1 DEF CounterIsLeft
  <2>7. IsRemainder'
    <3>1. crc = Register(Read)
      BY <1>1, <2>1 DEF IsRemainder
    <3>2. crc' = Register(Append(Read, buf[next]))
      BY <2>1, <2>4, <3>1, TurnOfRegister
    <3>3. Register(Read)' = Register(Read')
      BY DEF Register, Dividend, Remainder
    <3> QED
      BY <2>1, <2>4, <3>2 DEF IsRemainder
  <2> QED
    BY <2>5, <2>6, <2>7 DEF CrcInv
<1>4. ASSUME Finish PROVE CrcInv'
  <2>1. /\ ~done /\ ~LoopRuns /\ s' = SizeT(s - 1) /\ crc' = Xor(crc, Ones)
        /\ done' = TRUE /\ buf' = buf /\ next' = next
    BY <1>4 DEF Finish
  <2>2. next = Len(buf) + 1
    <3>1. next \notin 1 .. Len(buf)
      BY <1>1, <1>2, <2>1, RunsWhileLeft
    <3> QED
      BY <1>2, <3>1
  <2>3. CrcTypeOK'
    <3>1. s - 1 \in Int
      BY <1>1, <1>2 DEF CrcTypeOK
    <3>2. Xor(crc, Ones) \in Word
      BY <1>1, WordOps DEF CrcTypeOK, Word
    <3> QED
      BY <1>1, <2>1, <3>1, <3>2, CounterInRange DEF CrcTypeOK
  <2>4. CounterIsLeft'
    BY <2>1, <2>2 DEF CounterIsLeft
  <2>5. IsRemainder'
    <3>1. Read = buf
      <4>1. next - 1 = Len(buf)
        BY <1>2, <2>2
      <4> QED
        BY <1>2, <4>1, WholeSlice DEF Read
    <3> QED
      BY <1>1, <2>1, <3>1 DEF IsRemainder
  <2> QED
    BY <2>3, <2>4, <2>5 DEF CrcInv
<1>5. ASSUME UNCHANGED crc_vars PROVE CrcInv'
  BY <1>1, <1>5 DEF crc_vars, CrcInv, CrcTypeOK, CounterIsLeft, IsRemainder, Read
<1> QED
  BY <1>3, <1>4, <1>5 DEF CrcNext

THEOREM CrcInvariant == CrcSpec => []CrcInv
BY CrcInvInit, CrcInvStep, PTL DEF CrcSpec

\* The register, the counter and the pointer keep their types: the counter wraps as a
\* size_t does, and the pointer stays within the text or one behind it
\* (CRC32Coder.cc:24-31).
THEOREM CrcTypes == CrcSpec => []CrcTypeOK
<1>1. CrcInv => CrcTypeOK
  BY DEF CrcInv
<1> QED
  BY <1>1, CrcInvariant, PTL

\* No character behind the text is read and none of the text is left out, whatever the
\* length of the text and the width of size_t (CRC32Coder.cc:26-28).
THEOREM ReadsEveryText == CrcSpec => []ReadsTheText
<1>1. CrcInv => ReadsTheText
  <2> SUFFICES ASSUME CrcInv PROVE ReadsTheText
    OBVIOUS
  <2>1. ~done /\ LoopRuns => next \in DOMAIN buf
    BY RunsWhileLeft DEF CrcInv
  <2>2. done => next = Len(buf) + 1
    BY DEF CrcInv, CounterIsLeft
  <2> QED
    BY <2>1, <2>2 DEF ReadsTheText
<1> QED
  BY <1>1, CrcInvariant, PTL

\* The result is the remainder of the polynomial division that defines the checksum, for
\* every text (CRC32Coder.cc:24-31).
THEOREM ComputesRemainder == CrcSpec => []IsRemainder
<1>1. CrcInv => IsRemainder
  BY DEF CrcInv
<1> QED
  BY <1>1, CrcInvariant, PTL

================================================================================
