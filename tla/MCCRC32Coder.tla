------------------------------ MODULE MCCRC32Coder ------------------------------
(* Texts of up to three characters, of both signs, and of the length where the *)
(* first ones have left the register; and the test value of the checksum.      *)
EXTENDS CRC32Coder

Bits(n) == {i \in 0 .. 7 : (n \div 2^i) % 2 = 1}

Chars == {Bits(n) : n \in {0, 1, 97, 128, 255}}

MCBuffers == UNION {[1 .. n -> Chars] : n \in 0 .. 3}
               \union {[i \in 1 .. 9 |-> Bits(48 + i)], [i \in 1 .. 7 |-> Bits(128 + 17 * i)]}

\* The checksum of "123456789" is 0xCBF43926.
ASSUME CheckValue ==
    Xor(Register([i \in 1 .. 9 |-> Bits(48 + i)]), Ones)
        = {31, 30, 27, 25, 24, 23, 22, 21, 20, 18, 13, 12, 11, 8, 5, 2, 1}

================================================================================
