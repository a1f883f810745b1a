----------------------------- MODULE Rendezvous -----------------------------
(***************************************************************************)
(* What a barrier for Max threads promises: a thread that arrives is held  *)
(* until Max threads of its generation have arrived, then all of them are  *)
(* released at once; the next generation gathers only when every thread of *)
(* the last one has gone.                                                  *)
(***************************************************************************)
EXTENDS Integers, FiniteSets

CONSTANTS Thread, Max

VARIABLES
    held,      \* threads that have arrived and may not go on
    released   \* threads of a full generation that have not left yet

Init == held = {} /\ released = {}

Arrive(t) ==
    /\ released = {}
    /\ t \notin held
    /\ IF Cardinality(held) + 1 < Max
       THEN held' = held \cup {t} /\ UNCHANGED released
       ELSE held' = {} /\ released' = held \cup {t}

Leave(t) ==
    /\ t \in released
    /\ released' = released \ {t}
    /\ UNCHANGED held

Next == \E t \in Thread : Arrive(t) \/ Leave(t)

Spec == Init /\ [][Next]_<<held, released>>
=============================================================================
