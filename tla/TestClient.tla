------------------------------- MODULE TestClient -------------------------------
(****************************************************************************)
(* TestClient._recv_result: replies are not framed, so the client of the    *)
(* tests reads byte by byte and counts braces to find the end of one, while *)
(* the bytes come in when the server and the network please, or never.      *)
(*                                                                          *)
(* A byte is what the client tells apart and what it cannot: a brace of the *)
(* object or one inside a string, another ASCII character, or a byte of a   *)
(* longer UTF-8 sequence, which the server does not escape.                 *)
(****************************************************************************)
EXTENDS Integers, Sequences, SequencesExt, FiniteSetsExt

CONSTANTS Replies,    \* the replies the server may send
          MayBreak    \* the connection may be closed or reset before the reply is out

ASSUME MayBreakAssumption == MayBreak \in BOOLEAN

Bytes == {"open", "close", "open in string", "close in string", "ascii", "wide"}

\* How deep the object is open behind its first n bytes, and what makes bytes one: the
\* last of them closes it.
Depth(r, n) == Cardinality({i \in 1 .. n : r[i] = "open"}) - Cardinality({i \in 1 .. n : r[i] = "close"})

IsObject(r) == /\ r # << >>
               /\ \A n \in 1 .. Len(r) - 1 : Depth(r, n) > 0
               /\ Depth(r, Len(r)) = 0

ASSUME RepliesAssumption == Replies \subseteq {r \in Seq(Bytes) : IsObject(r)}

VARIABLES reply,          \* what the server answers
          arrived,        \* how many bytes of it have come in
          stream,         \* what the socket reports when they are read
          received_data,  \* the bytes taken from the socket
          scope_balance,
          has_received,
          call            \* how it goes: "running", or how it ended

client_vars == <<reply, arrived, stream, received_data, scope_balance, has_received, call>>

ClientInit == /\ reply \in Replies
              /\ arrived = 0
              /\ stream = "open"
              /\ received_data = << >>
              /\ scope_balance = 0
              /\ has_received = FALSE
              /\ call = "running"

--------------------------------------------------------------------------------
(* The server and the network. *)

Arrive ==
    /\ stream = "open"
    /\ arrived < Len(reply)
    /\ arrived' = arrived + 1
    /\ UNCHANGED <<reply, stream, received_data, scope_balance, has_received, call>>

Break ==
    /\ MayBreak
    /\ stream = "open"
    /\ stream' \in {"closed", "reset"}
    /\ UNCHANGED <<reply, arrived, received_data, scope_balance, has_received, call>>

--------------------------------------------------------------------------------
(* The loop of the client: one action for each way an iteration can go. *)

Receiving == call = "running"

\* Mutant: inside an object or not, instead of how deep.
BalanceFlag(b) ==
    CASE b \in {"open", "open in string"}   -> 1
      [] b \in {"close", "close in string"} -> scope_balance - 1
      [] OTHER                              -> scope_balance

Balance(b) ==
    CASE b \in {"open", "open in string"}   -> scope_balance + 1
      [] b \in {"close", "close in string"} -> scope_balance - 1
      [] OTHER                              -> scope_balance

\* What the balance says of the data: nothing yet; an object, which json.loads then
\* reads or throws at; or no object.  A part of an object is not JSON.
Judge(data, balance) ==
    /\ has_received' = (balance = 0)
    /\ call' = CASE balance > 0 -> "running"
                 [] balance < 0 -> "refused"
                 [] balance = 0 -> IF data = reply THEN "object" ELSE "raised"

Unread == arrived > Len(received_data)

NextByte == reply[Len(received_data) + 1]

\* recv(1) gives a byte that is not UTF-8 by itself: decode() throws.
RecvWide ==
    /\ Receiving /\ Unread
    /\ NextByte = "wide"
    /\ call' = "raised"
    /\ UNCHANGED <<reply, arrived, stream, received_data, scope_balance, has_received>>

RecvByte ==
    /\ Receiving /\ Unread
    /\ NextByte # "wide"
    /\ received_data' = Append(received_data, NextByte)
    /\ scope_balance' = Balance(NextByte)
    /\ Judge(received_data', scope_balance')
    /\ UNCHANGED <<reply, arrived, stream>>

\* Mutant: the time-out is printed, and select() called again.
TimeoutPrinted ==
    /\ Receiving /\ ~Unread
    /\ stream = "open"
    /\ UNCHANGED client_vars

\* select() saw nothing for five seconds.
Timeout ==
    /\ Receiving /\ ~Unread
    /\ stream = "open"
    /\ call' = "timeout"
    /\ UNCHANGED <<reply, arrived, stream, received_data, scope_balance, has_received>>

\* recv() throws ConnectionResetError, which is printed; what had come in and was not
\* read may be gone.
RecvReset ==
    /\ Receiving
    /\ stream = "reset"
    /\ stream' = "closed"
    /\ arrived' \in {arrived, Len(received_data)}
    /\ UNCHANGED <<reply, received_data, scope_balance, has_received, call>>

\* recv(1) gives nothing, at once and every time: the same data is judged again.
RecvEof ==
    /\ Receiving /\ ~Unread
    /\ stream = "closed"
    /\ Judge(received_data, scope_balance)
    /\ UNCHANGED <<reply, arrived, stream, received_data, scope_balance>>

RecvResult == RecvWide \/ RecvByte \/ Timeout \/ RecvReset \/ RecvEof

ClientNext == Arrive \/ Break \/ RecvResult

\* The interpreter runs on; bytes need not come.
ClientSpec == ClientInit /\ [][ClientNext]_client_vars /\ WF_client_vars(RecvResult)

--------------------------------------------------------------------------------

\* Objects may be nested, come in any pieces and as slowly as they like: as long as
\* their strings hold no braces and only ASCII, and the connection stays, the call
\* ends with the object itself or a timeout (_test_runner.py:21-46).
Plain(r) == ToSet(r) \subseteq {"open", "close", "ascii"}

PlainReplyTaken ==
    Plain(reply) /\ stream = "open" => call \in {"running", "object", "timeout"}

\* The call ends, whatever the server does, unless the connection is over and all that
\* came, and can still be read, ends inside an object as it counts: then it asks the socket
\* for ever.
CutOff == stream = "closed" /\ ~Unread /\ scope_balance > 0

CallEnds == <>(call # "running" \/ CutOff)

================================================================================
