----------------------------- MODULE MCHammingCoder -----------------------------
(* Every block there is, two in each message of one byte, longer messages, whose    *)
(* encodings leave each of the remainders base64 treats in its own way, and the      *)
(* empty one, which is legal JSON.                                                   *)
EXTENDS HammingCoder

MCMessages == {<<34 * k + 16>> : k \in 0 .. 7}
                 \union {<< >>, <<104, 255>>, <<0, 129>>, <<72, 105, 33>>}

================================================================================
