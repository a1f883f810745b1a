--------------------------- MODULE ShareAllocation ---------------------------
(***************************************************************************)
(* What the Turkey server promises its clients, without messages: a client *)
(* joins at most once, leaves at most once and only after joining, and     *)
(* after every arrival and departure each member holds the same share of   *)
(* the resources, with less than one unit per member left over.            *)
(***************************************************************************)
EXTENDS Integers, FiniteSets

CONSTANTS Client, Resources

VARIABLES
    alloc,     \* member -> resources it may use
    departed   \* clients that have been members and left

Members == DOMAIN alloc

\* All functions that divide the resources equally over the set ids.
EqualDivision(ids) ==
    {f \in [ids -> 0..Resources] :
        \A t \in ids : /\ f[t] * Cardinality(ids) <= Resources
                       /\ Resources < (f[t] + 1) * Cardinality(ids)}

Init ==
    /\ alloc = [c \in {} |-> 0]
    /\ departed = {}

Join(c) ==
    /\ c \notin Members \cup departed
    /\ alloc' \in EqualDivision(Members \cup {c})
    /\ UNCHANGED departed

Leave(c) ==
    /\ c \in Members
    /\ alloc' \in EqualDivision(Members \ {c})
    /\ departed' = departed \cup {c}

Next == \E c \in Client : Join(c) \/ Leave(c)

Spec == Init /\ [][Next]_<<alloc, departed>>
=============================================================================
