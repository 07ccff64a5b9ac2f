----------------------------- MODULE HandlerHelper ------------------------------
(****************************************************************************)
(* HandlerHelper: a set of callbacks ordered by the addresses of their      *)
(* copies on the heap, and triggerCallbacks, which walks over the set while *)
(* the callbacks it calls add and remove callbacks.  A registrant knows its *)
(* callback by the address addCallback returned, and the heap may give the  *)
(* address of a removed callback to a new one.                              *)
(*                                                                          *)
(* Nested triggers of the same event are left out, and what callbacks do    *)
(* besides: they return, or throw.                                          *)
(****************************************************************************)
EXTENDS Integers, FiniteSets, FiniteSetsExt

CONSTANTS Addresses,      \* the addresses the heap gives out
          MaxCallbacks    \* bound: how many callbacks are ever registered

ASSUME AddressesAssumption == Addresses \subseteq Nat \ {0}
ASSUME MaxCallbacksAssumption == MaxCallbacks \in Nat

VARIABLES
    callbacks_,  \* for each address, the callback that lives there, or 0
    fn_ptr,      \* for each callback ever registered, the address returned for it
    removed,     \* the callbacks whose registrants had them removed
    iter,        \* the node the walk is at, its callback running; 0: no walk
    calls,       \* how often the walk has called each callback
    stayed,      \* the callbacks registered since the walk began
    considerate, \* every registrant removed its callback once, and not from within it
    intact,      \* nothing was used after it was freed
    alive        \* no exception has met a noexcept

vars == <<callbacks_, fn_ptr, removed, iter, calls, stayed, considerate, intact, alive>>

Callbacks == 1 .. MaxCallbacks
Occupied  == {a \in Addresses : callbacks_[a] # 0}
Live      == {callbacks_[a] : a \in Occupied}

Init == /\ callbacks_ = [a \in Addresses |-> 0]
        /\ fn_ptr = << >>
        /\ removed = {}
        /\ iter = 0
        /\ calls = [k \in Callbacks |-> 0]
        /\ stayed = {}
        /\ considerate = TRUE
        /\ intact = TRUE
        /\ alive = TRUE

Running == alive /\ intact

--------------------------------------------------------------------------------

\* addCallback: std::set::insert of a copy at a new address.
AddCallback(a) ==
    /\ Running
    /\ a \notin Occupied
    /\ Cardinality(DOMAIN fn_ptr) < MaxCallbacks
    /\ LET k == Cardinality(DOMAIN fn_ptr) + 1
       IN  /\ callbacks_' = [callbacks_ EXCEPT ![a] = k]
           /\ fn_ptr' = [i \in 1 .. k |-> IF i = k THEN a ELSE fn_ptr[i]]
    /\ UNCHANGED <<removed, iter, calls, stayed, considerate, intact, alive>>

\* Mutant: the walk keeps the next node, to step over removals of the current one.
HeldNext == {iter} \union {a \in Occupied : a > iter /\ \A b \in Occupied : b > iter => a <= b}

\* The nodes the walk will look at again.
Held == {iter}

\* Mutant: erase is given the position after the one that was found, if there is one.
EraseAfter(a) == LET after == {b \in Occupied : b > a}
                     end   == IF after = {} THEN a ELSE Min(after)
                 IN  callbacks_' = [callbacks_ EXCEPT ![end] = 0]

Erase(a) == callbacks_' = [callbacks_ EXCEPT ![a] = 0]

\* removeCallback with the address returned for callback k: find, then erase what is
\* there.  Erasing the node the walk is at frees the function that runs and leaves
\* the iterator dangling.
RemoveCallback(k) ==
    /\ Running
    /\ k \in DOMAIN fn_ptr
    /\ IF fn_ptr[k] \in Occupied
       THEN /\ Erase(fn_ptr[k])
            /\ stayed' = stayed \ {callbacks_[fn_ptr[k]]}
            /\ intact' = (fn_ptr[k] \notin Held)
       ELSE UNCHANGED <<callbacks_, stayed, intact>>
    /\ removed' = removed \union {k}
    /\ considerate' = (considerate /\ k \notin removed /\ fn_ptr[k] # iter)
    /\ UNCHANGED <<fn_ptr, iter, calls, alive>>

\* The walk comes to a node and calls its callback.
Call(a) == /\ iter' = a
           /\ calls' = [calls EXCEPT ![callbacks_[a]] = @ + 1]

Trigger ==
    /\ Running
    /\ iter = 0
    /\ Occupied # {}
    /\ iter' = Min(Occupied)
    /\ calls' = [k \in Callbacks |-> IF k = callbacks_[Min(Occupied)] THEN 1 ELSE 0]
    /\ stayed' = Live
    /\ UNCHANGED <<callbacks_, fn_ptr, removed, considerate, intact, alive>>

\* Mutant: the iterator is not advanced.
AheadOrHere == {a \in Occupied : a >= iter}

\* Mutant: the iterator is advanced twice.
AheadButOne == LET after == {a \in Occupied : a > iter}
               IN  {a \in after : \E b \in after : b < a}

\* The nodes that come after the one the walk is at.
Ahead == {a \in Occupied : a > iter}

\* The callback returns: ++begin, and the next one is called, if there is one.
Return ==
    /\ Running
    /\ iter # 0
    /\ IF Ahead # {} THEN Call(Min(Ahead))
       ELSE iter' = 0 /\ UNCHANGED calls
    /\ UNCHANGED <<callbacks_, fn_ptr, removed, stayed, considerate, intact, alive>>

\* The callback throws out of triggerCallbacks, which is noexcept.
Throw ==
    /\ Running
    /\ iter # 0
    /\ alive' = FALSE
    /\ UNCHANGED <<callbacks_, fn_ptr, removed, iter, calls, stayed, considerate, intact>>

Next == \/ \E a \in Addresses : AddCallback(a)
        \/ \E k \in Callbacks : RemoveCallback(k)
        \/ Trigger
        \/ Return
        \/ Throw

Spec == Init /\ [][Next]_vars

--------------------------------------------------------------------------------

TypeOK ==
    /\ callbacks_ \in [Addresses -> Callbacks \union {0}]
    /\ DOMAIN fn_ptr \subseteq Callbacks
    /\ \A k \in DOMAIN fn_ptr : fn_ptr[k] \in Addresses
    /\ removed \subseteq DOMAIN fn_ptr
    /\ iter \in Addresses \union {0}
    /\ calls \in [Callbacks -> Nat]
    /\ stayed \subseteq Live
    /\ {considerate, intact, alive} \subseteq BOOLEAN

\* Whatever the callbacks called so far added and removed, the walk has called every
\* callback that was registered when it began and still is, up to the one it is at,
\* exactly once, will call the others, and calls none twice, not even one that got
\* the address of a callback already called (handler_helpers.tcc:21-26).
StayedAreCalledOnce ==
    /\ \A k \in Callbacks : calls[k] <= 1
    /\ iter # 0 => \A k \in stayed : calls[k] = IF fn_ptr[k] <= iter THEN 1 ELSE 0

\* The walk ended only after every callback that stayed was called.
EndsComplete == [][iter # 0 /\ iter' = 0 => \A k \in stayed : calls[k] = 1]_vars

\* As long as every registrant removes its callback once and not from within it, nothing
\* is used after it is freed, and each callback is there until it is removed by its own
\* registrant: no removal by address takes another's callback that came to live at that
\* address (handler_helpers.tcc:5-13).
RemovalIsOwn == considerate => intact /\ Live = DOMAIN fn_ptr \ removed

================================================================================
