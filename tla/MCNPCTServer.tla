----------------------------- MODULE MCNPCTServer ------------------------------
(* The registry of example_main.cc, and requests that a coder answers, that a   *)
(* coder refuses, or that end the process.                                      *)
EXTENDS NPCTServer

CONSTANTS Crc32, Hamming

MCCoders   == {Crc32, Hamming}
MCRegistry == <<Crc32, Hamming>>
MCName(c)  == IF c = Hamming THEN "hamming" ELSE "crc32"
MCLower(a) == IF a = "CRC32" THEN "crc32" ELSE a
MCAlgorithms == {"CRC32", "hamming", "lzw"}

Request(a, d, i) == [algorithm |-> a, direction |-> d, input |-> i]

MCRequests == {Request("CRC32", 1, "string"), Request("hamming", 1, "other"),
               Request("CRC32", 2, "string")}

================================================================================
