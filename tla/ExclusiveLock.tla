---------------------------- MODULE ExclusiveLock ----------------------------
(***************************************************************************)
(* What a caller of the create-lock relies on: one holder at a time, the   *)
(* protected section run only by the holder, and the lock given back only  *)
(* by its holder, outside the section.                                     *)
(***************************************************************************)
CONSTANTS Clients, Nobody

VARIABLES
    holder,   \* the client that has the lock, or Nobody
    inside    \* the clients running the protected section

Init == holder = Nobody /\ inside = {}

Take(c) == holder = Nobody /\ holder' = c /\ UNCHANGED inside
Enter(c) == holder = c /\ inside' = inside \cup {c} /\ UNCHANGED holder
Exit(c) == holder = c /\ inside' = inside \ {c} /\ UNCHANGED holder
Give(c) == holder = c /\ c \notin inside /\ holder' = Nobody /\ UNCHANGED inside

Next == \E c \in Clients : Take(c) \/ Enter(c) \/ Exit(c) \/ Give(c)

Spec == Init /\ [][Next]_<<holder, inside>>
=============================================================================
