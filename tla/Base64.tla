--------------------------------- MODULE Base64 ---------------------------------
(****************************************************************************)
(* base64_encode and base64_decode of utils/base64.cc, character by         *)
(* character.  A character of the alphabet is its index in base64_chars;    *)
(* Pad is '=', and any other character is one that is_base64 refuses.       *)
(****************************************************************************)
EXTENDS Integers, Sequences, FiniteSetsExt

Byte   == 0 .. 255
Sextet == 0 .. 63

Pad   == 64
Other == 65
Char  == Sextet \union {Pad, Other}

--------------------------------------------------------------------------------
(* Encoding: four characters for three bytes, the last group cut short. *)

\* char_array_3, filled up with zeros behind the last byte.
ByteAt(bytes, i) == IF i \in DOMAIN bytes THEN bytes[i] ELSE 0

\* Mutant: the two low bits of the first byte are not masked out.
SextetsUnmasked(bytes, i) ==
    LET b1 == ByteAt(bytes, i)
        b2 == ByteAt(bytes, i + 1)
        b3 == ByteAt(bytes, i + 2)
    IN  << b1 \div 4,
           b1 * 16 + b2 \div 16,
           (b2 % 16) * 4 + b3 \div 64,
           b3 % 64 >>

\* char_array_4 of the group whose first byte is the i-th.
Sextets(bytes, i) ==
    LET b1 == ByteAt(bytes, i)
        b2 == ByteAt(bytes, i + 1)
        b3 == ByteAt(bytes, i + 2)
    IN  << b1 \div 4,
           (b1 % 4) * 16 + b2 \div 16,
           (b2 % 16) * 4 + b3 \div 64,
           b3 % 64 >>

\* One character more than there are bytes in the last group, then '='.
CharCount(n) == 4 * (n \div 3) + (IF n % 3 = 0 THEN 0 ELSE (n % 3) + 1)

base64_encode(bytes) ==
    LET n == Len(bytes)
    IN  [c \in 1 .. 4 * ((n + 2) \div 3) |->
            IF c <= CharCount(n)
            THEN Sextets(bytes, 3 * ((c - 1) \div 4) + 1)[((c - 1) % 4) + 1]
            ELSE Pad]

--------------------------------------------------------------------------------
(* Decoding: up to the first '=' or foreign character. *)

Decodable(text) ==
    Max({n \in 0 .. Len(text) : \A c \in 1 .. n : text[c] \in Sextet})

\* base64_chars.find(0) for the characters missing in the last group: npos, as an
\* unsigned char.
NotFound == 255

CharAt(text, c) == IF c <= Decodable(text) THEN text[c] ELSE NotFound

\* char_array_3 of the group whose first character is the c-th.  Conversions to
\* unsigned char drop what does not fit.
Triple(text, c) ==
    LET a1 == CharAt(text, c)
        a2 == CharAt(text, c + 1)
        a3 == CharAt(text, c + 2)
        a4 == CharAt(text, c + 3)
    IN  << (a1 * 4 + ((a2 \div 16) % 4)) % 256,
           ((a2 % 16) * 16 + ((a3 \div 4) % 16)) % 256,
           ((a3 % 4) * 64 + a4) % 256 >>

\* Mutant: the last group yields a byte for each of its characters.
ByteCountFull(n) == 3 * (n \div 4) + (IF n % 4 = 0 THEN 0 ELSE n % 4)

\* One byte less than there are characters in the last group.
ByteCount(n) == 3 * (n \div 4) + (IF n % 4 = 0 THEN 0 ELSE (n % 4) - 1)

base64_decode(text) ==
    [i \in 1 .. ByteCount(Decodable(text)) |->
        Triple(text, 4 * ((i - 1) \div 3) + 1)[((i - 1) % 3) + 1]]

================================================================================
