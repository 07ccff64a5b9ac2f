------------------------------ MODULE CoderService ------------------------------
(****************************************************************************)
(* What the server promises its clients, without sessions, buffers, coders  *)
(* or queues: each client has a conversation of its own, in which every     *)
(* message gets one answer, in order, that depends on that message alone.   *)
(* The clients share one fate: the service is up for all of them or none.   *)
(****************************************************************************)
EXTENDS Sequences, Naturals

CONSTANTS Clients,
          Requests,     \* what clients may ask
          Answers(_),   \* the answers a request may get
          Fatal(_),     \* the requests that may end the service
          MaxRequests   \* bound: the requests of one client

VARIABLES asked,      \* what each client asked, in order
          got,        \* the answers it has
          up,         \* the service runs
          sheltered   \* nothing but a request ends it: fixed at the start

vars == <<asked, got, up, sheltered>>

Init == /\ asked = [c \in Clients |-> << >>]
        /\ got = [c \in Clients |-> << >>]
        /\ up = TRUE
        /\ sheltered \in BOOLEAN

Waiting(c) == Len(got[c]) < Len(asked[c])

\* The request that is answered next.
Current(c) == asked[c][Len(got[c]) + 1]

Ask(c, m) ==
    /\ ~Waiting(c)
    /\ Len(asked[c]) < MaxRequests
    /\ asked' = [asked EXCEPT ![c] = Append(@, m)]
    /\ UNCHANGED <<got, up, sheltered>>

\* An answer that was sent may arrive after the service has ended.
Answer(c) ==
    /\ Waiting(c)
    /\ \E a \in Answers(Current(c)) : got' = [got EXCEPT ![c] = Append(@, a)]
    /\ UNCHANGED <<asked, up, sheltered>>

Fail ==
    /\ up
    /\ sheltered => \E c \in Clients : Waiting(c) /\ Fatal(Current(c))
    /\ up' = FALSE
    /\ UNCHANGED <<asked, got, sheltered>>

Next == \/ \E c \in Clients, m \in Requests : Ask(c, m)
        \/ \E c \in Clients : Answer(c)
        \/ Fail

Spec == Init /\ [][Next]_vars

================================================================================
