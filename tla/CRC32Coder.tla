------------------------------- MODULE CRC32Coder -------------------------------
(****************************************************************************)
(* CRC32Coder::algo, the table-driven CRC-32, one turn of its loop a step,  *)
(* against the remainder of the polynomial division that defines the        *)
(* checksum zlib computes.  A word or a byte is the set of its one bits,    *)
(* counted from the lowest, so that xor is the symmetric difference.        *)
(****************************************************************************)
EXTENDS Integers, Sequences, FiniteSetsExt

CONSTANTS Buffers,   \* the texts clients have checked, as sequences of bytes
          SIZE_MAX   \* of size_t

ByteBits == SUBSET (0 .. 7)
Ones == 0 .. 31
Word == SUBSET Ones

ASSUME BuffersAssumption == Buffers \subseteq Seq(ByteBits)
ASSUME SizeAssumption == SIZE_MAX \in Nat /\ \A b \in Buffers : Len(b) <= SIZE_MAX

VARIABLES buf,    \* the text
          next,   \* buf_ptr
          s,      \* the loop counter
          crc,
          done

crc_vars == <<buf, next, s, crc, done>>

--------------------------------------------------------------------------------
(* Words. *)

Xor(v, w) == (v \ w) \union (w \ v)

\* Mutant: an arithmetic shift by a rotation.
ShiftAround(w, n) == {i - n : i \in w}

ShiftRight(w, n) == {i - n : i \in {j \in w : j >= n}}

\* 0xEDB88320
Poly == {31, 30, 29, 27, 26, 24, 23, 21, 20, 19, 15, 9, 8, 5}

Round(w) == IF 0 \in w THEN Xor(ShiftRight(w, 1), Poly) ELSE ShiftRight(w, 1)

\* Mutant: j <= 8 in the place of j < 8.
EntryNine(i) == LET crc_[j \in 0 .. 9] == IF j = 0 THEN i ELSE Round(crc_[j - 1]) IN crc_[9]

Entry(i) == LET crc_[j \in 0 .. 8] == IF j = 0 THEN i ELSE Round(crc_[j - 1]) IN crc_[8]

crc_table == [i \in ByteBits |-> Entry(i)]

\* A char is signed where the server runs.
Promoted(c) == IF 7 \in c THEN c \union 8 .. 31 ELSE c

--------------------------------------------------------------------------------

SizeT(n) == n % (SIZE_MAX + 1)

\* Mutant: the counter starts at the size.
FirstSize(b) == SizeT(Len(b))

\* buf.size() - 1: SIZE_MAX for the empty text.
FirstCounter(b) == SizeT(Len(b) - 1)

CrcInit == /\ buf \in Buffers
           /\ next = 1
           /\ s = FirstCounter(buf)
           /\ crc = Ones
           /\ done = FALSE

\* (s--) != -1
LoopRuns == s # SizeT(-1)

Turn == /\ ~done
        /\ LoopRuns
        /\ crc' = Xor(crc_table[Xor(crc, Promoted(buf[next])) \intersect 0 .. 7],
                      ShiftRight(crc, 8))
        /\ next' = next + 1
        /\ s' = SizeT(s - 1)
        /\ UNCHANGED <<buf, done>>

\* The loop ends, after one more decrement, and the result is inverted.
Finish == /\ ~done
          /\ ~LoopRuns
          /\ s' = SizeT(s - 1)
          /\ crc' = Xor(crc, Ones)
          /\ done' = TRUE
          /\ UNCHANGED <<buf, next>>

CrcNext == Turn \/ Finish

CrcSpec == CrcInit /\ [][CrcNext]_crc_vars

--------------------------------------------------------------------------------
(* The definition: polynomials over GF(2), as the sets of their exponents. *)

Generator == {32, 26, 23, 22, 16, 12, 11, 10, 8, 7, 5, 4, 2, 1, 0}

TimesX(p, n) == {e + n : e \in p}

\* One step of the long division: no term of exponent e is left.
Eliminate(p, e) == IF e \in p THEN Xor(p, TimesX(Generator, e - 32)) ELSE p

\* From the highest exponent down.
Remainder(p, degree) ==
    LET rest[d \in 31 .. degree] ==
            IF d = degree THEN p ELSE Eliminate(rest[d + 1], d + 1)
    IN  rest[31]

\* The lowest bit of the first byte is the highest coefficient; 32 zeros follow, and
\* the first 32 coefficients are inverted.
Dividend(b) ==
    LET bits == 8 * Len(b)
    IN  Xor(UNION {{bits + 31 - (8 * (i - 1) + j) : j \in b[i]} : i \in DOMAIN b},
            TimesX(Ones, bits))

\* The highest coefficient of the remainder is the lowest bit of the register.
Register(b) == {31 - e : e \in Remainder(Dividend(b), 8 * Len(b) + 31)}

Read == SubSeq(buf, 1, next - 1)

--------------------------------------------------------------------------------

CrcTypeOK == /\ buf \in Buffers
             /\ next \in 1 .. Len(buf) + 1
             /\ s \in 0 .. SIZE_MAX
             /\ crc \in Word
             /\ done \in BOOLEAN

\* The register is the remainder of what was read so far, whatever the signs of its
\* characters, and the result is that of the whole text, inverted
\* (CRC32Coder.cc:24-31, tests/client/test_crc32.py:16).
IsRemainder == IF done THEN crc = Xor(Register(buf), Ones) ELSE crc = Register(Read)

\* The unsigned counter ends the loop at the end of the text, the empty text too,
\* for which it starts where it ends (CRC32Coder.cc:26-28).
ReadsTheText == /\ ~done /\ LoopRuns => next \in DOMAIN buf
                /\ done => next = Len(buf) + 1

================================================================================
