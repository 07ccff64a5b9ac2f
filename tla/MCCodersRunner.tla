----------------------------- MODULE MCCodersRunner -----------------------------
(* The two coders of example_main.cc, and a second one of the name of the      *)
(* first, so that registration order matters.                                  *)
EXTENDS CodersRunner

CONSTANTS Crc32, Crc32Again, Hamming

MCCoders == {Crc32, Crc32Again, Hamming}

MCName(c) == IF c = Hamming THEN "hamming" ELSE "crc32"

MCLower(a) == IF a = "CRC32" THEN "crc32" ELSE a

\* LZW is a name no coder has.
MCAlgorithms == {"CRC32", "hamming", "lzw"}

================================================================================
