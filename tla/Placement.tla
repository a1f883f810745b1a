------------------------------ MODULE Placement ------------------------------
(* What canneal promises about the chip: every element sits at a location of  *)
(* its own, and the only thing that ever happens is that two elements         *)
(* exchange theirs, in one indivisible step.                                  *)
EXTENDS Naturals

CONSTANT Elem       \* the elements of the chip; location e is where e starts

VARIABLE loc        \* the location of each element

Init == loc = [e \in Elem |-> e]

Exchange(x, y) == loc' = [loc EXCEPT ![x] = loc[y], ![y] = loc[x]]

Next == \E x, y \in Elem : Exchange(x, y)

Spec == Init /\ [][Next]_loc
=============================================================================
