------------------------------- MODULE Canneal -------------------------------
(* canneal_pthread: threads that anneal one netlist.  Each of them draws       *)
(* pairs of elements, reads the locations the cost of a swap depends on,       *)
(* decides, and exchanges the two locations with AtomicPtr::Swap, which checks *)
(* one pointer out (ATOMIC_NULL), sets the other and checks the first in.      *)
(* Nothing is locked while the cost is computed.  All threads meet at a        *)
(* barrier after each temperature step and then ask keep_going, each one for   *)
(* itself, whether to run another.                                             *)
(*                                                                             *)
(* An element is its index in _elements, so the order of the indices is the    *)
(* order of the addresses.  Costs are abstracted: any move may turn out good,  *)
(* bad or rejected.                                                            *)
EXTENDS Integers, Sequences, FiniteSets

CONSTANTS Thread,       \* the threads main creates
          ChipSize,     \* _chip_size
          Pins,         \* fanin and fanout of each element, as swap_cost reads them
          Moves,        \* _moves_per_thread_temp
          StepLimits,   \* the values of NSTEPS tried; -1 when it is not given
          ConvergedAt,  \* bound: no move is good after this many temperature steps
          ATOMIC_NULL   \* the value of a checked-out pointer

Elem == 0 .. ChipSize - 1

ASSUME NullAssumption == ATOMIC_NULL \notin Elem

ASSUME ConstantsAssumption ==
    /\ ChipSize \in Nat /\ Moves \in Nat /\ ConvergedAt \in Nat
    /\ Pins \in [Elem -> Seq(Elem)]
    /\ StepLimits \subseteq Nat \cup {-1}

VARIABLES p,            \* AtomicPtr::p of the present_loc of every element
          flag,         \* _keep_going_global_flag
          limit,        \* _number_temp_steps
          main,         \* where main is: waiting in pthread_join, or returned
          pc, a, b,     \* per thread: where Run is, and its two elements
          i,            \* per thread: moves made in this temperature step
          good, bad,    \* per thread: accepted_good_moves, accepted_bad_moves
          steps,        \* per thread: temp_steps_completed
          todo,         \* per thread: the elements whose location is still to be read
          seen,         \* per thread: val of PrivateSet, between Get and the cmpset
          held          \* per thread: valFirst before, valLast after last->PrivateSet

moveVars == <<flag, limit, main, a, b, good, bad, steps>>
vars == <<p, pc, i, todo, seen, held, moveVars>>

\* Mutant: Swap takes the two pointers in the order given, not by address.
AsGiven(t) == <<a[t], b[t]>>
Ordered(t) == IF a[t] < b[t] THEN <<a[t], b[t]>> ELSE <<b[t], a[t]>>
first(t) == Ordered(t)[1]
last(t) == Ordered(t)[2]

-----------------------------------------------------------------------------
Init ==
    /\ p = [e \in Elem |-> e]
    /\ flag = TRUE /\ limit \in StepLimits /\ main = "join"
    /\ pc = [t \in Thread |-> "keep_going"]
    /\ b \in [Thread -> Elem] /\ a = b
    /\ i = [t \in Thread |-> 0]
    /\ good = [t \in Thread |-> 0] /\ bad = [t \in Thread |-> -1]
    /\ steps = [t \in Thread |-> 0]
    /\ todo = [t \in Thread |-> <<>>]
    /\ seen = [t \in Thread |-> ATOMIC_NULL] /\ held = [t \in Thread |-> ATOMIC_NULL]

(* The head of the loop of Run: another temperature step, or the thread ends.  *)
WantsMore(t) == IF limit = -1 THEN flag /\ good[t] > bad[t] ELSE steps[t] < limit
keep_going(t) ==
    /\ pc[t] = "keep_going"
    /\ \/ /\ WantsMore(t)
          /\ pc' = [pc EXCEPT ![t] = "move"]
          /\ good' = [good EXCEPT ![t] = 0] /\ bad' = [bad EXCEPT ![t] = 0]
          /\ i' = [i EXCEPT ![t] = 0]
          /\ UNCHANGED flag
       \/ /\ ~WantsMore(t)
          /\ pc' = [pc EXCEPT ![t] = "done"]
          /\ flag' = (flag /\ limit # -1)
          /\ UNCHANGED <<good, bad, i>>
    /\ UNCHANGED <<p, limit, main, a, b, steps, todo, seen, held>>

(* One turn of the inner loop: the old b and a new element different from it.  *)
get_random_element(t) ==
    /\ pc[t] = "move" /\ i[t] < Moves
    /\ \E e \in Elem \ {b[t]} :
          /\ a' = [a EXCEPT ![t] = b[t]] /\ b' = [b EXCEPT ![t] = e]
          /\ todo' = [todo EXCEPT ![t] = <<b[t], e>> \o Pins[b[t]] \o Pins[e]]
    /\ pc' = [pc EXCEPT ![t] = "cost"]
    /\ UNCHANGED <<p, flag, limit, main, i, good, bad, steps, seen, held>>

(* One Get of calculate_delta_routing_cost; it spins on a checked-out pointer. *)
swap_cost(t) ==
    /\ pc[t] = "cost" /\ todo[t] # <<>>
    /\ p[Head(todo[t])] # ATOMIC_NULL
    /\ todo' = [todo EXCEPT ![t] = Tail(@)]
    /\ UNCHANGED <<p, pc, i, seen, held, moveVars>>

accept_move(t) ==
    /\ pc[t] = "cost" /\ todo[t] = <<>>
    /\ \/ /\ steps[t] < ConvergedAt
          /\ good' = [good EXCEPT ![t] = @ + 1]
          /\ pc' = [pc EXCEPT ![t] = "checkout"]
          /\ UNCHANGED <<bad, i>>
       \/ /\ bad' = [bad EXCEPT ![t] = @ + 1]
          /\ pc' = [pc EXCEPT ![t] = "checkout"]
          /\ UNCHANGED <<good, i>>
       \/ /\ i' = [i EXCEPT ![t] = @ + 1]
          /\ pc' = [pc EXCEPT ![t] = "move"]
          /\ UNCHANGED <<good, bad>>
    /\ UNCHANGED <<p, flag, limit, main, a, b, steps, todo, seen, held>>

(* PrivateSet(x) of pointer e: Get, then a compare-and-set of what it returned *)
(* which starts over when the pointer has changed in between.                  *)
Get(t, e, next) ==
    /\ p[e] # ATOMIC_NULL
    /\ seen' = [seen EXCEPT ![t] = p[e]]
    /\ pc' = [pc EXCEPT ![t] = next]
    /\ UNCHANGED <<p, i, todo, held, moveVars>>

\* Mutant: a plain store instead of the compare-and-set.
UncheckedSet(t, e, x, retry, next) ==
    /\ p' = [p EXCEPT ![e] = x] /\ held' = [held EXCEPT ![t] = seen[t]]
    /\ pc' = [pc EXCEPT ![t] = next]
    /\ seen' = [seen EXCEPT ![t] = ATOMIC_NULL]
    /\ UNCHANGED <<i, todo, moveVars>>
cmpset(t, e, x, retry, next) ==
    /\ \/ /\ p[e] = seen[t]
          /\ p' = [p EXCEPT ![e] = x] /\ held' = [held EXCEPT ![t] = seen[t]]
          /\ pc' = [pc EXCEPT ![t] = next]
       \/ /\ p[e] # seen[t]
          /\ pc' = [pc EXCEPT ![t] = retry]
          /\ UNCHANGED <<p, held>>
    /\ seen' = [seen EXCEPT ![t] = ATOMIC_NULL]
    /\ UNCHANGED <<i, todo, moveVars>>

(* AtomicPtr::Swap: Checkout the first, set the last, check the first in.      *)
Checkout(t) ==
    \/ pc[t] = "checkout" /\ Get(t, first(t), "checkout_cmpset")
    \/ /\ pc[t] = "checkout_cmpset"
       /\ cmpset(t, first(t), ATOMIC_NULL, "checkout", "set")

PrivateSet(t) ==
    \/ pc[t] = "set" /\ Get(t, last(t), "set_cmpset")
    \/ pc[t] = "set_cmpset" /\ cmpset(t, last(t), held[t], "set", "checkin")

\* Mutant: the value checked in is read from last again.
CheckinFromLast(t) ==
    /\ pc[t] = "checkin"
    /\ p' = [p EXCEPT ![first(t)] = p[last(t)]]
    /\ held' = [held EXCEPT ![t] = ATOMIC_NULL]
    /\ i' = [i EXCEPT ![t] = @ + 1]
    /\ pc' = [pc EXCEPT ![t] = "move"]
    /\ UNCHANGED <<todo, seen, moveVars>>
Checkin(t) ==
    /\ pc[t] = "checkin"
    /\ p' = [p EXCEPT ![first(t)] = held[t]]
    /\ held' = [held EXCEPT ![t] = ATOMIC_NULL]
    /\ i' = [i EXCEPT ![t] = @ + 1]
    /\ pc' = [pc EXCEPT ![t] = "move"]
    /\ UNCHANGED <<todo, seen, moveVars>>

(* pthread_barrier_wait: the last thread to arrive lets everybody go.          *)
Arrives(t) ==
    IF \A u \in Thread \ {t} : pc[u] = "barrier"
    THEN pc' = [u \in Thread |-> "keep_going"]
    ELSE pc' = [pc EXCEPT ![t] = "barrier"]

\* Mutant: no barrier (the code under ENABLE_THREADS is left out).
EndWithoutBarrier(t) ==
    /\ pc[t] = "move" /\ i[t] >= Moves
    /\ steps' = [steps EXCEPT ![t] = @ + 1]
    /\ pc' = [pc EXCEPT ![t] = "keep_going"]
    /\ UNCHANGED <<p, flag, limit, main, a, b, i, good, bad, todo, seen, held>>
EndTemperature(t) ==
    /\ pc[t] = "move" /\ i[t] >= Moves
    /\ steps' = [steps EXCEPT ![t] = @ + 1]
    /\ Arrives(t)
    /\ UNCHANGED <<p, flag, limit, main, a, b, i, good, bad, todo, seen, held>>

(* main joins every thread, then total_routing_cost Gets every location.       *)
total_routing_cost ==
    /\ main = "join" /\ \A t \in Thread : pc[t] = "done"
    /\ \A e \in Elem : p[e] # ATOMIC_NULL
    /\ main' = "returned"
    /\ UNCHANGED <<p, flag, limit, pc, a, b, i, good, bad, steps, todo, seen, held>>

Run(t) ==
    \/ keep_going(t) \/ get_random_element(t) \/ swap_cost(t) \/ accept_move(t)
    \/ Checkout(t) \/ PrivateSet(t) \/ Checkin(t) \/ EndTemperature(t)

Next == total_routing_cost \/ \E t \in Thread : Run(t)

Spec == Init /\ [][Next]_vars

FairSpec == Spec /\ WF_vars(total_routing_cost) /\ \A t \in Thread : WF_vars(Run(t))

-----------------------------------------------------------------------------
(* A thread between checking its first pointer out and checking it in, and the *)
(* location an element has: what its pointer holds or, while that is checked   *)
(* out, what the thread that has it is going to check in.                      *)
Holding(t) == pc[t] \in {"set", "set_cmpset", "checkin"}
Location(e) == IF p[e] # ATOMIC_NULL THEN p[e]
               ELSE held[CHOOSE t \in Thread : Holding(t) /\ first(t) = e]

(* Types; a thread makes at most _moves_per_thread_temp moves in a step.       *)
TypeOK ==
    /\ p \in [Elem -> Elem \cup {ATOMIC_NULL}]
    /\ flag \in BOOLEAN /\ limit \in StepLimits /\ main \in {"join", "returned"}
    /\ pc \in [Thread -> {"keep_going", "move", "cost", "checkout", "checkout_cmpset",
                          "set", "set_cmpset", "checkin", "barrier", "done"}]
    /\ a \in [Thread -> Elem] /\ b \in [Thread -> Elem]
    /\ i \in [Thread -> 0 .. Moves] /\ steps \in [Thread -> Nat]
    /\ good \in [Thread -> Nat] /\ bad \in [Thread -> Nat \cup {-1}]
    /\ todo \in [Thread -> Seq(Elem)]
    /\ seen \in [Thread -> Elem \cup {ATOMIC_NULL}]
    /\ held \in [Thread -> Elem \cup {ATOMIC_NULL}]

(* A pointer is ATOMIC_NULL exactly while one thread is inside Swap with it as *)
(* its first: two threads never check out the same pointer, and none stays     *)
(* checked out, so every spinning Get (main's last ones too) waits for a swap  *)
(* that is under way.                                                          *)
CheckedOutByOne ==
    \A e \in Elem :
        Cardinality({t \in Thread : Holding(t) /\ first(t) = e})
            = IF p[e] = ATOMIC_NULL THEN 1 ELSE 0

(* The placement main reports is a permutation: no location is lost and no two *)
(* elements share one, whatever swaps overlapped.                              *)
OnePlaceEach ==
    main = "returned" => /\ p \in [Elem -> Elem]
                         /\ \A e, f \in Elem : p[e] = p[f] => e = f

(* The barrier keeps the threads within one temperature step of each other,    *)
(* also after some of them have left the loop.                                 *)
SameTemperature == \A t, u \in Thread : steps[t] - steps[u] <= 1

(* AtomicPtr::Swap, which is several steps among which other threads swap the  *)
(* same elements and read half-swapped ones, is an atomic exchange.            *)
P == INSTANCE Placement WITH loc <- [e \in Elem |-> Location(e)]
ImplementsPlacement == P!Spec

(* Somebody waits at the barrier for a thread that has already left Run.       *)
Deserted == \E t, u \in Thread : pc[t] = "barrier" /\ pc[u] = "done"

(* canneal ends when NSTEPS is given: the address order of Swap keeps the      *)
(* spinning threads from waiting for each other in a circle.  Without NSTEPS   *)
(* it ends, or stops for good in pthread_barrier_wait because a thread saw     *)
(* the design converge and another, which asked keep_going earlier, did not.   *)
RunEnds == \/ <>(main = "returned")
           \/ limit = -1 /\ <>[]Deserted

(* keep_going: "run until design converges", "signal we have converged": once  *)
(* no move is good any more the signal gets every thread out of its loop and   *)
(* the program ends.                                                           *)
RunsUntilConverged == <>(main = "returned")
=============================================================================
