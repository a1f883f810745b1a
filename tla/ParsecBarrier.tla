---------------------------- MODULE ParsecBarrier ----------------------------
(***************************************************************************)
(* parsec_barrier_wait with ENABLE_SPIN_BARRIER, the barrier of            *)
(* streamcluster (src/apps/streamcluster/src/turkey/parsec_barrier.cpp):   *)
(* an arrival phase and a departure phase under one mutex and one          *)
(* condition variable, with an unsynchronised spin on the phase flag       *)
(* before each wait.                                                       *)
(*                                                                         *)
(* The spin loops end when the flag changes or when SPIN_COUNTER_MAX is    *)
(* reached; either way the thread goes on to lock the mutex and test the   *)
(* flag again, so a spin is one step that is always enabled.               *)
(***************************************************************************)
EXTENDS Integers, FiniteSets

CONSTANTS
    Thread,    \* the threads that use the barrier
    NoThread,  \* the holder of a free mutex
    Max,       \* count given to parsec_barrier_init
    Rounds     \* bound: how often each thread calls parsec_barrier_wait

ASSUME ThreadAssumption == IsFiniteSet(Thread) /\ NoThread \notin Thread
ASSUME MaxAssumption == Max \in Nat \ {0}
ASSUME RoundsAssumption == Rounds \in Nat

VARIABLES
    mutex,             \* the thread that holds barrier->mutex, or NoThread
    waiters,           \* threads blocked in pthread_cond_wait
    n,                 \* barrier->n
    is_arrival_phase,  \* barrier->is_arrival_phase
    master,            \* the local variable master of each thread
    passed,            \* calls from which the thread has returned
    pc

vars == <<mutex, waiters, n, is_arrival_phase, master, passed, pc>>

parsec_barrier_init ==
    /\ mutex = NoThread
    /\ waiters = {}
    /\ n = 0
    /\ is_arrival_phase = TRUE
    /\ master = [t \in Thread |-> FALSE]
    /\ passed = [t \in Thread |-> 0]
    /\ pc = [t \in Thread |-> "out"]

Go(t, from, to) ==
    /\ pc[t] = from
    /\ pc' = [pc EXCEPT ![t] = to]

Acquire(t) == mutex = NoThread /\ mutex' = t
Release == mutex' = NoThread

\* A call of parsec_barrier_wait.
Call(t) ==
    /\ Go(t, "out", "lock")
    /\ passed[t] < Rounds
    /\ UNCHANGED <<mutex, waiters, n, is_arrival_phase, master, passed>>

Lock(t) ==
    /\ Go(t, "lock", "check")
    /\ Acquire(t)
    /\ UNCHANGED <<waiters, n, is_arrival_phase, master, passed>>

\* Mutant: a thread may arrive while the previous use departs.
CheckPhaseIgnored(t) ==
    /\ Go(t, "check", "arrive")
    /\ UNCHANGED <<mutex, waiters, n, is_arrival_phase, master, passed>>

\* Wait outside until the departure of the previous use is complete.
CheckPhase(t) ==
    /\ \/ /\ is_arrival_phase
          /\ Go(t, "check", "arrive")
          /\ UNCHANGED mutex
       \/ /\ ~is_arrival_phase
          /\ Go(t, "check", "spinIn")
          /\ Release
    /\ UNCHANGED <<waiters, n, is_arrival_phase, master, passed>>

Spin(t) ==
    /\ Go(t, "spinIn", "trylockIn") \/ Go(t, "spinOut", "trylockOut")
    /\ UNCHANGED <<mutex, waiters, n, is_arrival_phase, master, passed>>

Trylock(t) ==
    /\ Go(t, "trylockIn", "waitIn") \/ Go(t, "trylockOut", "waitOut")
    /\ Acquire(t)
    /\ UNCHANGED <<waiters, n, is_arrival_phase, master, passed>>

\* pthread_cond_wait: release the mutex and block, in one step.
CondWait(t) == Release /\ waiters' = waiters \cup {t}

WaitIn(t) ==
    /\ \/ is_arrival_phase /\ Go(t, "waitIn", "arrive") /\ UNCHANGED <<mutex, waiters>>
       \/ ~is_arrival_phase /\ Go(t, "waitIn", "condIn") /\ CondWait(t)
    /\ UNCHANGED <<n, is_arrival_phase, master, passed>>

\* Mutant: after the spin the flag is not tested again.
WaitOutUnchecked(t) ==
    /\ Go(t, "waitOut", "leave")
    /\ UNCHANGED <<mutex, waiters, n, is_arrival_phase, master, passed>>

WaitOut(t) ==
    /\ \/ ~is_arrival_phase /\ Go(t, "waitOut", "leave") /\ UNCHANGED <<mutex, waiters>>
       \/ is_arrival_phase /\ Go(t, "waitOut", "condOut") /\ CondWait(t)
    /\ UNCHANGED <<n, is_arrival_phase, master, passed>>

\* pthread_cond_wait returns with the mutex, once the thread was woken up.
CondReturn(t) ==
    /\ Go(t, "condIn", "waitIn") \/ Go(t, "condOut", "waitOut")
    /\ t \notin waiters
    /\ Acquire(t)
    /\ UNCHANGED <<waiters, n, is_arrival_phase, master, passed>>

\* POSIX allows pthread_cond_wait to wake up without a broadcast.
SpuriousWakeup(t) ==
    /\ t \in waiters
    /\ waiters' = waiters \ {t}
    /\ UNCHANGED <<mutex, n, is_arrival_phase, master, passed, pc>>

\* Mutant: the test for the last thread is off by one.
ArriveOffByOne(t) ==
    /\ master' = [master EXCEPT ![t] = (n = 0)]
    /\ n' = n + 1
    /\ \/ /\ n >= Max
          /\ Go(t, "arrive", "leave")
          /\ is_arrival_phase' = FALSE
          /\ waiters' = {}
          /\ UNCHANGED mutex
       \/ /\ n < Max
          /\ Go(t, "arrive", "spinOut")
          /\ Release
          /\ UNCHANGED <<is_arrival_phase, waiters>>
    /\ UNCHANGED passed

\* Mutant: the master is chosen after the increment.
ArriveLateMaster(t) ==
    /\ master' = [master EXCEPT ![t] = (n + 1 = 1 \/ n + 1 = Max)]
    /\ n' = n + 1
    /\ \/ /\ n + 1 >= Max
          /\ Go(t, "arrive", "leave")
          /\ is_arrival_phase' = FALSE
          /\ waiters' = {}
          /\ UNCHANGED mutex
       \/ /\ n + 1 < Max
          /\ Go(t, "arrive", "spinOut")
          /\ Release
          /\ UNCHANGED <<is_arrival_phase, waiters>>
    /\ UNCHANGED passed

\* Mutant: the last thread takes the count back for everyone.
ArriveResetsCount(t) ==
    /\ master' = [master EXCEPT ![t] = (n = 0)]
    /\ \/ /\ n + 1 >= Max
          /\ Go(t, "arrive", "leave")
          /\ n' = 0
          /\ is_arrival_phase' = FALSE
          /\ waiters' = {}
          /\ UNCHANGED mutex
       \/ /\ n + 1 < Max
          /\ Go(t, "arrive", "spinOut")
          /\ n' = n + 1
          /\ Release
          /\ UNCHANGED <<is_arrival_phase, waiters>>
    /\ UNCHANGED passed

\* In the arrival phase: the first thread is the master, the last one starts
\* the departure phase, the others wait for it.
Arrive(t) ==
    /\ master' = [master EXCEPT ![t] = (n = 0)]
    /\ n' = n + 1
    /\ \/ /\ n + 1 >= Max
          /\ Go(t, "arrive", "leave")
          /\ is_arrival_phase' = FALSE
          /\ waiters' = {}
          /\ UNCHANGED mutex
       \/ /\ n + 1 < Max
          /\ Go(t, "arrive", "spinOut")
          /\ Release
          /\ UNCHANGED <<is_arrival_phase, waiters>>
    /\ UNCHANGED passed

\* Mutant: the first thread to leave starts a new arrival phase.
LeaveFirstResets(t) ==
    /\ Go(t, "leave", "out")
    /\ n' = n - 1
    /\ is_arrival_phase' = TRUE
    /\ waiters' = {}
    /\ Release
    /\ passed' = [passed EXCEPT ![t] = @ + 1]
    /\ UNCHANGED master

\* Mutant: the last thread to leave wakes nobody up.
LeaveNoBroadcast(t) ==
    /\ Go(t, "leave", "out")
    /\ n' = n - 1
    /\ is_arrival_phase' = (is_arrival_phase \/ n - 1 = 0)
    /\ Release
    /\ passed' = [passed EXCEPT ![t] = @ + 1]
    /\ UNCHANGED <<master, waiters>>

\* The last thread to leave starts a new arrival phase.
Leave(t) ==
    /\ Go(t, "leave", "out")
    /\ n' = n - 1
    /\ \/ n - 1 = 0 /\ is_arrival_phase' = TRUE /\ waiters' = {}
       \/ n - 1 # 0 /\ UNCHANGED <<is_arrival_phase, waiters>>
    /\ Release
    /\ passed' = [passed EXCEPT ![t] = @ + 1]
    /\ UNCHANGED master

Locking(t) == Lock(t) \/ Trylock(t) \/ CondReturn(t)
Working(t) == CheckPhase(t) \/ Spin(t) \/ WaitIn(t) \/ WaitOut(t) \/ Arrive(t) \/ Leave(t)

Next == \E t \in Thread : Call(t) \/ Locking(t) \/ Working(t) \/ SpuriousWakeup(t)

Spec == parsec_barrier_init /\ [][Next]_vars

\* Every thread is scheduled and keeps calling; a thread that tries for the
\* mutex again and again gets it in the end, although others may pass it.
Fairness ==
    \A t \in Thread : /\ WF_vars(Call(t))
                      /\ WF_vars(Working(t))
                      /\ SF_vars(Locking(t))

FairSpec == Spec /\ Fairness

-----------------------------------------------------------------------------
Point == {"out", "lock", "check", "spinIn", "trylockIn", "waitIn", "condIn", "arrive",
          "spinOut", "trylockOut", "waitOut", "condOut", "leave"}

\* The control points at which a thread holds the mutex.
Critical == {"check", "waitIn", "arrive", "waitOut", "leave"}

\* The threads that have arrived and not left.
Inside == {t \in Thread : pc[t] \in {"spinOut", "trylockOut", "waitOut", "condOut", "leave"}}

\* barrier->n, which is unsigned, stays between zero and max in both phases.
TypeOK ==
    /\ mutex \in Thread \cup {NoThread}
    /\ waiters \subseteq Thread
    /\ n \in 0..Max
    /\ is_arrival_phase \in BOOLEAN
    /\ master \in [Thread -> BOOLEAN]
    /\ passed \in [Thread -> Nat]
    /\ pc \in [Thread -> Point]

\* The critical sections exclude each other.
MutexHeld == \A t \in Thread : pc[t] \in Critical <=> mutex = t

(***************************************************************************)
(* barrier->n counts the threads inside, in both phases and although they  *)
(* spin, try the lock and sleep in any order; the arrival phase has room   *)
(* for one more, the departure phase has someone left; nobody arrives in a *)
(* departure phase and nobody leaves in an arrival phase.                  *)
(***************************************************************************)
Phases ==
    /\ n = Cardinality(Inside)
    /\ IF is_arrival_phase THEN n < Max ELSE n > 0
    /\ \A t \in Thread : /\ pc[t] = "arrive" => is_arrival_phase
                         /\ pc[t] = "leave" => ~is_arrival_phase

(***************************************************************************)
(* PARSEC_BARRIER_SERIAL_THREAD is returned to exactly one thread of each  *)
(* generation: while one gathers there is exactly one master inside, and   *)
(* while it departs there is at most one.                                  *)
(***************************************************************************)
OneMaster ==
    LET masters == {t \in Inside : master[t]}
    IN  /\ is_arrival_phase /\ n > 0 => Cardinality(masters) = 1
        /\ ~is_arrival_phase => Cardinality(masters) <= 1

(***************************************************************************)
(* With as many threads as the barrier was initialised for, no thread gets *)
(* two rounds ahead of another: nobody passes the barrier twice while      *)
(* someone still spins or sleeps inside, or has not even arrived.          *)
(***************************************************************************)
InLockstep ==
    Cardinality(Thread) = Max =>
        \A t, u \in Thread : passed[t] <= passed[u] + 1

(***************************************************************************)
(* Nobody sleeps through a phase change: a thread still registered with    *)
(* the condition variable waits for a phase that has not come.             *)
(***************************************************************************)
NoLostWakeup ==
    \A t \in waiters : /\ pc[t] = "condIn" => ~is_arrival_phase
                       /\ pc[t] = "condOut" => is_arrival_phase

(***************************************************************************)
(* The barrier implements Rendezvous.                                      *)
(***************************************************************************)
Abstract == INSTANCE Rendezvous WITH
    held <- IF is_arrival_phase THEN Inside ELSE {},
    released <- IF is_arrival_phase THEN {} ELSE Inside
ImplementsRendezvous == Abstract!Spec

(***************************************************************************)
(* When as many threads as the barrier was initialised for keep calling    *)
(* it, all of them get through all rounds.                                 *)
(***************************************************************************)
AllPass == <>(\A t \in Thread : passed[t] = Rounds /\ pc[t] = "out")
=============================================================================
