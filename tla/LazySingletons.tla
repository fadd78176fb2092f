--------------------------- MODULE LazySingletons ----------------------------
(***************************************************************************)
(* What ows_index() promises its callers: for every driver name there is   *)
(* one index object, made when it is first asked for, and every call that  *)
(* returns, returns that object; a name without a driver is refused.       *)
(***************************************************************************)
CONSTANTS
    Threads,
    Names,    \* driver names an ODC environment may ask for
    Drivers,  \* those an OWS driver is registered for
    Ids,      \* identities of Python objects
    Nothing   \* no object

VARIABLES
    object,  \* [Drivers -> identities]: the driver's index object, or Nothing
    answer   \* [Threads -> ...]: <<name, object>> of the thread's last call

Init ==
    /\ object = [d \in Drivers |-> Nothing]
    /\ answer = [t \in Threads |-> <<Nothing, Nothing>>]

\* The first caller's object becomes the object.
Make(d) ==
    /\ object[d] = Nothing
    /\ object'[d] \in Ids \ {Nothing}
    /\ object' = [object EXCEPT ![d] = object'[d]]
    /\ UNCHANGED answer

Return(t, d) ==
    /\ object[d] # Nothing
    /\ answer' = [answer EXCEPT ![t] = <<d, object[d]>>]
    /\ UNCHANGED object

Refuse(t, n) ==
    /\ answer' = [answer EXCEPT ![t] = <<n, Nothing>>]
    /\ UNCHANGED object

Next ==
    \/ \E d \in Drivers : Make(d)
    \/ \E t \in Threads, d \in Drivers : Return(t, d)
    \/ \E t \in Threads, n \in Names \ Drivers : Refuse(t, n)

Spec == Init /\ [][Next]_<<object, answer>>
=============================================================================
