------------------------------ MODULE HammingBlock ------------------------------
(****************************************************************************)
(* One block of Hamming<7, 4>: four information bits and three parity bits  *)
(* in a byte whose highest bit belongs to neither.  A block is its bits by  *)
(* position, counted from 1 as the algorithm does: position i is bit i-1 of *)
(* the byte.                                                                *)
(****************************************************************************)
EXTENDS Integers, Sequences, FiniteSets

PacketBits == 7
InfoBits   == 4
CHBits     == 8

Block == [1 .. CHBits -> BOOLEAN]
Info  == [1 .. InfoBits -> BOOLEAN]

\* The parity bits are at the powers of two, 1 << r for r < R.
ParityMasks == {1, 2, 4}

\* The positions is_pow2 lets through, in the order bits are put there.
InfoPosition == <<3, 5, 6, 7>>

\* i & mask, for a mask of one bit.
HasBit(i, mask) == (i \div mask) % 2 = 1

Odd(S) == Cardinality(S) % 2 = 1

\* Mutant: the parity bit is checked along with the bits it covers.
WholeParityBit(block, mask) ==
    Odd({i \in 1 .. PacketBits : HasBit(i, mask) /\ block[i]})

calculateParityBit(block, mask) ==
    Odd({i \in 1 .. PacketBits : i # mask /\ HasBit(i, mask) /\ block[i]})

--------------------------------------------------------------------------------

\* encode(): the information bits replace what the array held before; what it held
\* in the last position stays.
WithInfo(info, stale) ==
    [i \in 1 .. CHBits |->
        IF \E k \in 1 .. InfoBits : InfoPosition[k] = i
        THEN info[CHOOSE k \in 1 .. InfoBits : InfoPosition[k] = i]
        ELSE stale[i]]

EncodeBlock(info, stale) ==
    LET block == WithInfo(info, stale)
    IN  [i \in 1 .. CHBits |->
            IF i \in ParityMasks THEN calculateParityBit(block, i) ELSE block[i]]

--------------------------------------------------------------------------------

Mismatch(block, mask) == calculateParityBit(block, mask) # block[mask]

\* decode(): the masks of the parity bits that do not agree add up to err_index.
ErrIndex(block) ==
      (IF Mismatch(block, 1) THEN 1 ELSE 0)
    + (IF Mismatch(block, 2) THEN 2 ELSE 0)
    + (IF Mismatch(block, 4) THEN 4 ELSE 0)

\* err_index is compared with the truth value of is_pow2(err_index), so that only an
\* error in position 1 is left as it is: a parity bit, of no use any more.
Corrects(err_index) == err_index \notin {0, 1}

\* Mutant: err_index is used as the number of the bit, from 0.
CorrectNext(block) ==
    IF Corrects(ErrIndex(block))
    THEN [block EXCEPT ![ErrIndex(block) + 1] = ~@] ELSE block

Correct(block) ==
    IF Corrects(ErrIndex(block))
    THEN [block EXCEPT ![ErrIndex(block)] = ~@] ELSE block

DecodeBlock(block) == [k \in 1 .. InfoBits |-> Correct(block)[InfoPosition[k]]]

================================================================================
