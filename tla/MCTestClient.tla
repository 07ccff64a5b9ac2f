------------------------------ MODULE MCTestClient ------------------------------
(* Every object of up to MaxReply bytes.                                        *)
EXTENDS TestClient

CONSTANT MaxReply   \* bound: the bytes of a reply

MCReplies == {r \in UNION {[1 .. n -> Bytes] : n \in 2 .. MaxReply} : IsObject(r)}


================================================================================
