-------------------------- MODULE SnapshotRegister --------------------------
(***************************************************************************)
(* What publication promises: the committed snapshot is one register, and a *)
(* client replaces it only if it still holds the value the client last saw, *)
(* unless the new value is one that is written unconditionally.  Clients    *)
(* may look again, give up or die at any time.                              *)
(***************************************************************************)
CONSTANTS Clients, Values, Unconditional, Nothing

VARIABLES
    current,    \* the committed snapshot
    seen        \* what each client has seen of it, or Nothing

vars == <<current, seen>>

Init ==
    /\ current \in Values
    /\ seen = [c \in Clients |-> Nothing]

Look(c) ==
    /\ seen' = [seen EXCEPT ![c] = current]
    /\ UNCHANGED current

Forget(c) ==
    /\ seen' = [seen EXCEPT ![c] = Nothing]
    /\ UNCHANGED current

Replace(c) ==
    /\ current' \in Values
    /\ current' \in Unconditional \/ seen[c] = current
    /\ seen' = [seen EXCEPT ![c] = Nothing]

Next == \E c \in Clients : Look(c) \/ Forget(c) \/ Replace(c)

Spec == Init /\ [][Next]_vars
=============================================================================
