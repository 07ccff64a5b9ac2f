---------------------------- MODULE MCJsonNetSession ----------------------------
(* Replies shorter and longer than the buffer, so that data_ shrinks, keeps a  *)
(* stale tail, and is reallocated; requests longer than a read.                *)
EXTENDS JsonNetSession

MCPayloads == { <<1>>, <<2, 3>>, <<4, 5, 6, 7, 8, 9>>, <<255>> }

MCUndecodable == { << >>, <<255>> }

\* '{' = 123 and '}' = 125
MCReply(p) == CASE p = <<1>>    -> <<123, 125>>
                [] p = <<2, 3>> -> <<123, 2, 3, 2, 3, 125>>
                [] OTHER        -> <<123, 4, 125>>

MCScripts == { << <<1>>, <<2, 3>>, <<4, 5, 6, 7, 8, 9>> >>,
               << <<2, 3>>, <<1>>, <<2, 3>> >>,
               << <<1>>, <<255>>, <<1>> >> }

================================================================================
