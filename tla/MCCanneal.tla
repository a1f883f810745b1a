----------------------------- MODULE MCCanneal -----------------------------
EXTENDS Canneal

(* A ring: element e feeds e + 1, so each cost also reads a neighbour that     *)
(* another thread may have checked out.                                        *)
Ring == [e \in Elem |-> <<(e + 1) % ChipSize>>]

(* NSTEPS as given on the command line, and -1 when it is not given.           *)
AllLimits == {-1, 0, 1, 2}
NoLimit == {-1}
=============================================================================
