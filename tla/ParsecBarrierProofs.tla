------------------------ MODULE ParsecBarrierProofs ------------------------
(***************************************************************************)
(* Proofs about ParsecBarrier for any finite set of threads, any barrier   *)
(* size and any number of rounds.                                          *)
(***************************************************************************)
EXTENDS ParsecBarrier, FiniteSetTheorems, TLAPS

IndInv == TypeOK /\ MutexHeld /\ Phases

(* A thread that comes in or goes out changes the number inside by one.    *)
LEMMA InsideCount ==
    ASSUME NEW S \in SUBSET Thread, NEW t \in Thread
    PROVE  /\ Cardinality(S) \in Nat
           /\ Cardinality(S) = 0 <=> S = {}
           /\ t \notin S => Cardinality(S \cup {t}) = Cardinality(S) + 1
           /\ t \in S => Cardinality(S \ {t}) = Cardinality(S) - 1
  <1>1. IsFiniteSet(S)
    BY ThreadAssumption, FS_Subset
  <1>. QED
    BY <1>1, FS_CardinalityType, FS_EmptySet, FS_AddElement, FS_RemoveElement

(* The steps that neither arrive nor leave.                                *)
Quiet(t) == Call(t) \/ Locking(t) \/ CheckPhase(t) \/ Spin(t) \/ WaitIn(t) \/ WaitOut(t)
            \/ SpuriousWakeup(t)

(* A quiet step keeps the count, the phase and the set of threads inside.  *)
LEMMA QuietStep ==
    ASSUME IndInv, NEW t \in Thread, Quiet(t)
    PROVE  UNCHANGED <<n, is_arrival_phase, Inside>>
  <1>. pc \in [Thread -> Point]
    BY DEF IndInv, TypeOK
  <1>1. CASE Call(t) \/ CheckPhase(t) \/ Spin(t) \/ SpuriousWakeup(t)
    BY <1>1 DEF Call, CheckPhase, Spin, SpuriousWakeup, Go, Inside
  <1>2. CASE Locking(t)
    BY <1>2 DEF Locking, Lock, Trylock, CondReturn, Go, Inside
  <1>3. CASE WaitIn(t) \/ WaitOut(t)
    BY <1>3 DEF WaitIn, WaitOut, Go, Inside
  <1>. QED  BY <1>1, <1>2, <1>3 DEF Quiet

(* Types, and the mutex around the critical sections, in every step.       *)
LEMMA MutexStep ==
    ASSUME TypeOK, MutexHeld, Phases, [Next]_vars
    PROVE  TypeOK' /\ MutexHeld'
  <1>. USE ThreadAssumption, MaxAssumption DEF TypeOK, MutexHeld, Point, Critical
  <1>1. ASSUME NEW t \in Thread, Call(t)
        PROVE  TypeOK' /\ MutexHeld'
    BY <1>1 DEF Call, Go
  <1>2. ASSUME NEW t \in Thread, Lock(t)
        PROVE  TypeOK' /\ MutexHeld'
    BY <1>2 DEF Lock, Go, Acquire
  <1>3. ASSUME NEW t \in Thread, Trylock(t)
        PROVE  TypeOK' /\ MutexHeld'
    BY <1>3 DEF Trylock, Go, Acquire
  <1>4. ASSUME NEW t \in Thread, CondReturn(t)
        PROVE  TypeOK' /\ MutexHeld'
    BY <1>4 DEF CondReturn, Go, Acquire
  <1>5. ASSUME NEW t \in Thread, CheckPhase(t)
        PROVE  TypeOK' /\ MutexHeld'
    BY <1>5 DEF CheckPhase, Go, Release
  <1>6. ASSUME NEW t \in Thread, Spin(t)
        PROVE  TypeOK' /\ MutexHeld'
    BY <1>6 DEF Spin, Go
  <1>7. ASSUME NEW t \in Thread, WaitIn(t)
        PROVE  TypeOK' /\ MutexHeld'
    BY <1>7 DEF WaitIn, Go, CondWait, Release
  <1>8. ASSUME NEW t \in Thread, WaitOut(t)
        PROVE  TypeOK' /\ MutexHeld'
    BY <1>8 DEF WaitOut, Go, CondWait, Release
  <1>9. ASSUME NEW t \in Thread, Arrive(t)
        PROVE  TypeOK' /\ MutexHeld'
    <2>1. master' \in [Thread -> BOOLEAN]
      BY <1>9 DEF Arrive
    <2>2. n' \in 0..Max /\ is_arrival_phase' \in BOOLEAN /\ waiters' \subseteq Thread
      <3>1. n' \in 0..Max
        BY <1>9 DEF Arrive, Go, Phases
      <3>2. \/ is_arrival_phase' = FALSE /\ waiters' = {}
            \/ UNCHANGED <<is_arrival_phase, waiters>>
        BY <1>9 DEF Arrive
      <3>. QED  BY <3>1, <3>2
    <2>3. /\ mutex' \in Thread \cup {NoThread} /\ pc' \in [Thread -> Point]
          /\ MutexHeld'
      BY <1>9 DEF Arrive, Go, Release
    <2>. QED  BY <1>9, <2>1, <2>2, <2>3 DEF Arrive
  <1>10. ASSUME NEW t \in Thread, Leave(t)
         PROVE  TypeOK' /\ MutexHeld'
    <2>1. n - 1 \in 0..Max
      BY <1>10 DEF Leave, Go, Phases
    <2>2. n' \in 0..Max /\ is_arrival_phase' \in BOOLEAN /\ waiters' \subseteq Thread
      BY <1>10, <2>1 DEF Leave
    <2>3. /\ mutex' \in Thread \cup {NoThread} /\ pc' \in [Thread -> Point]
          /\ passed' \in [Thread -> Nat] /\ MutexHeld'
      BY <1>10 DEF Leave, Go, Release
    <2>. QED  BY <1>10, <2>2, <2>3 DEF Leave
  <1>11. ASSUME NEW t \in Thread, SpuriousWakeup(t)
         PROVE  TypeOK' /\ MutexHeld'
    BY <1>11 DEF SpuriousWakeup
  <1>12. CASE UNCHANGED vars
    BY <1>12 DEF vars
  <1>. QED
    BY <1>1, <1>2, <1>3, <1>4, <1>5, <1>6, <1>7, <1>8, <1>9, <1>10, <1>11, <1>12
       DEF Next, Locking, Working

(* An arrival counts one thread more, and ends the phase with the last.    *)
LEMMA ArriveStep ==
    ASSUME IndInv, NEW t \in Thread, Arrive(t)
    PROVE  /\ is_arrival_phase /\ t \notin Inside /\ Inside' = Inside \cup {t}
           /\ Phases'
  <1>. TypeOK /\ MutexHeld /\ Phases
    BY DEF IndInv
  <1>1. pc[t] = "arrive" /\ is_arrival_phase
    BY DEF Arrive, Go, Phases
  <1>2. t \notin Inside /\ Inside' = Inside \cup {t}
    BY <1>1 DEF Arrive, Go, Inside, TypeOK
  <1>3. n' = Cardinality(Inside')
    BY <1>2, InsideCount DEF Arrive, Phases, Inside
  <1>4. \A u \in Thread : u # t => pc'[u] \notin {"arrive", "leave"}
    BY <1>1 DEF MutexHeld, Critical, Arrive, Go, TypeOK
  <1>5. n \in Nat /\ n' = n + 1
    BY MaxAssumption DEF TypeOK, Arrive
  <1>6. CASE n + 1 >= Max
    <2>1. ~is_arrival_phase' /\ n' > 0 /\ pc'[t] = "leave"
      BY <1>5, <1>6, MaxAssumption DEF Arrive, Go, TypeOK
    <2>2. \A u \in Thread : /\ pc'[u] = "arrive" => is_arrival_phase'
                            /\ pc'[u] = "leave" => ~is_arrival_phase'
      BY <1>4, <2>1
    <2>. QED  BY <1>1, <1>2, <1>3, <2>1, <2>2 DEF Phases
  <1>7. CASE ~(n + 1 >= Max)
    <2>1. is_arrival_phase' /\ n' < Max /\ pc'[t] = "spinOut"
      BY <1>1, <1>5, <1>7, MaxAssumption DEF Arrive, Go, TypeOK
    <2>2. \A u \in Thread : /\ pc'[u] = "arrive" => is_arrival_phase'
                            /\ pc'[u] = "leave" => ~is_arrival_phase'
      BY <1>4, <2>1
    <2>. QED  BY <1>1, <1>2, <1>3, <2>1, <2>2 DEF Phases
  <1>. QED  BY <1>1, <1>2, <1>6, <1>7

(* A departure counts one thread less, and ends the phase with the last.   *)
LEMMA LeaveStep ==
    ASSUME IndInv, NEW t \in Thread, Leave(t)
    PROVE  /\ ~is_arrival_phase /\ t \in Inside /\ Inside' = Inside \ {t}
           /\ Phases'
  <1>. TypeOK /\ MutexHeld /\ Phases
    BY DEF IndInv
  <1>1. pc[t] = "leave" /\ ~is_arrival_phase
    BY DEF Leave, Go, Phases
  <1>2. t \in Inside /\ Inside' = Inside \ {t}
    BY <1>1 DEF Leave, Go, Inside, TypeOK
  <1>3. n' = Cardinality(Inside')
    BY <1>2, InsideCount DEF Leave, Phases, Inside
  <1>4. \A u \in Thread : pc'[u] \notin {"arrive", "leave"}
    BY <1>1 DEF MutexHeld, Critical, Leave, Go, TypeOK
  <1>5. n \in Nat /\ n > 0 /\ n' = n - 1
    BY <1>1, MaxAssumption DEF TypeOK, Leave, Phases
  <1>. QED  BY <1>1, <1>2, <1>3, <1>4, <1>5, MaxAssumption DEF Leave, Phases

(* Every step of parsec_barrier_wait keeps the invariant. *)
LEMMA NextIndInv == IndInv /\ [Next]_vars => IndInv'
  <1>. SUFFICES ASSUME IndInv, [Next]_vars PROVE IndInv'
    OBVIOUS
  <1>1. TypeOK' /\ MutexHeld'
    BY MutexStep DEF IndInv
  <1>2. ASSUME NEW t \in Thread, Quiet(t)
        PROVE  Phases'
    <2>1. UNCHANGED <<n, is_arrival_phase, Inside>>
      BY <1>2, QuietStep
    <2>2. ASSUME NEW u \in Thread
          PROVE  /\ pc'[u] = "arrive" => is_arrival_phase
                 /\ pc'[u] = "leave" => ~is_arrival_phase
      BY <1>2 DEF IndInv, TypeOK, Phases, Quiet, Call, Locking, Lock, Trylock, CondReturn,
                  CheckPhase, Spin, WaitIn, WaitOut, SpuriousWakeup, Go
    <2>. QED  BY <2>1, <2>2 DEF IndInv, Phases
  <1>3. CASE UNCHANGED vars
    BY <1>3 DEF IndInv, vars, Phases, Inside, TypeOK, MutexHeld
  <1>. QED
    BY <1>1, <1>2, <1>3, ArriveStep, LeaveStep DEF Next, Working, Quiet, IndInv

(* The inductive invariant: types, mutual exclusion of the critical        *)
(* sections, and the bookkeeping of the two phases.                        *)
THEOREM Invariance == Spec => []IndInv
  <1>1. parsec_barrier_init => IndInv
    <2>. SUFFICES ASSUME parsec_barrier_init PROVE IndInv
      OBVIOUS
    <2>1. Inside = {}
      BY DEF parsec_barrier_init, Inside
    <2>2. Cardinality(Inside) = 0
      BY <2>1, FS_EmptySet
    <2>. QED
      BY <2>2, MaxAssumption, ThreadAssumption
         DEF parsec_barrier_init, IndInv, TypeOK, MutexHeld, Phases, Point, Critical
  <1>. QED  BY <1>1, NextIndInv, PTL DEF Spec

(* barrier->n counts the threads inside, arrivals happen in the arrival    *)
(* phase only and departures in the departure phase only.                  *)
THEOREM PhasesHold == Spec => []Phases
  <1>1. IndInv => Phases
    BY DEF IndInv
  <1>. QED  BY <1>1, Invariance, PTL

(* barrier->n never runs past max nor below zero, even with more threads   *)
(* than the barrier was initialised for, and the other fields and the      *)
(* threads' locals keep their types.                                       *)
THEOREM TypeCorrect == Spec => []TypeOK
  BY Invariance, PTL DEF IndInv

(* Whoever changes the phase wakes up everyone who waits for the change.   *)
THEOREM Wakeups == Spec => []NoLostWakeup
  <1>1. parsec_barrier_init => NoLostWakeup
    BY DEF parsec_barrier_init, NoLostWakeup
  <1>2. IndInv /\ NoLostWakeup /\ [Next]_vars => NoLostWakeup'
    <2>. SUFFICES ASSUME IndInv, NoLostWakeup, [Next]_vars, NEW u \in waiters'
                  PROVE  /\ pc'[u] = "condIn" => ~is_arrival_phase'
                         /\ pc'[u] = "condOut" => is_arrival_phase'
      BY DEF NoLostWakeup
    <2>. USE DEF IndInv, TypeOK, NoLostWakeup
    <2>1. ASSUME NEW t \in Thread, Quiet(t)
          PROVE  /\ pc'[u] = "condIn" => ~is_arrival_phase'
                 /\ pc'[u] = "condOut" => is_arrival_phase'
      <3>1. CASE Call(t) \/ Locking(t) \/ CheckPhase(t) \/ Spin(t) \/ SpuriousWakeup(t)
        BY <3>1 DEF Call, Locking, Lock, Trylock, CondReturn, CheckPhase, Spin,
                    SpuriousWakeup, Go
      <3>2. CASE WaitIn(t)
        BY <3>2 DEF WaitIn, CondWait, Go
      <3>3. CASE WaitOut(t)
        BY <3>3 DEF WaitOut, CondWait, Go
      <3>. QED  BY <2>1, <3>1, <3>2, <3>3 DEF Quiet
    <2>2. ASSUME NEW t \in Thread, Arrive(t) \/ Leave(t)
          PROVE  /\ pc'[u] = "condIn" => ~is_arrival_phase'
                 /\ pc'[u] = "condOut" => is_arrival_phase'
      BY <2>2 DEF Arrive, Leave, Go
    <2>3. CASE UNCHANGED vars
      BY <2>3 DEF vars
    <2>. QED  BY <2>1, <2>2, <2>3 DEF Next, Working, Quiet
  <1>. QED  BY <1>1, <1>2, Invariance, PTL DEF Spec

(* A quiet step changes neither the masters nor the calls returned from.   *)
LEMMA QuietLocals ==
    ASSUME NEW t \in Thread, Quiet(t)
    PROVE  UNCHANGED <<master, passed>>
  BY DEF Quiet, Call, Locking, Lock, Trylock, CondReturn, CheckPhase, Spin, WaitIn, WaitOut,
         SpuriousWakeup

(* parsec_barrier_wait returns PARSEC_BARRIER_SERIAL_THREAD to one thread  *)
(* of a generation, whatever the size of the barrier.                      *)
THEOREM SerialThread == Spec => []OneMaster
  <1>. DEFINE masters == {t \in Inside : master[t]}
  <1>1. parsec_barrier_init => OneMaster
    BY DEF parsec_barrier_init, OneMaster
  <1>2. IndInv /\ IndInv' /\ OneMaster /\ [Next]_vars => OneMaster'
    <2>. SUFFICES ASSUME IndInv, IndInv', OneMaster, [Next]_vars PROVE OneMaster'
      OBVIOUS
    <2>0. /\ n \in Nat /\ n' \in Nat /\ Inside \in SUBSET Thread /\ masters \in SUBSET Thread
          /\ master \in [Thread -> BOOLEAN]
      BY DEF IndInv, TypeOK, Inside
    <2>1. ASSUME NEW t \in Thread, Arrive(t) PROVE OneMaster'
      <3>1. is_arrival_phase /\ t \notin Inside /\ Inside' = Inside \cup {t}
        BY <2>1, ArriveStep
      <3>2. master' = [master EXCEPT ![t] = (n = 0)]
        BY <2>1 DEF Arrive
      <3>3. CASE n = 0
        <4>1. Inside = {}
          BY <2>0, <3>3, InsideCount DEF IndInv, Phases
        <4>2. masters' = {t}
          BY <2>0, <3>1, <3>2, <3>3, <4>1
        <4>. QED  BY <4>2, FS_Singleton DEF OneMaster
      <3>4. CASE n # 0
        <4>1. masters' = masters
          BY <2>0, <3>1, <3>2, <3>4
        <4>2. Cardinality(masters) = 1
          BY <2>0, <3>1, <3>4 DEF OneMaster
        <4>. QED  BY <4>1, <4>2 DEF OneMaster
      <3>. QED  BY <3>3, <3>4
    <2>2. ASSUME NEW t \in Thread, Leave(t) PROVE OneMaster'
      <3>1. ~is_arrival_phase /\ t \in Inside /\ Inside' = Inside \ {t}
        BY <2>2, LeaveStep
      <3>2. master' = master /\ n' = n - 1
        BY <2>2 DEF Leave
      <3>3. masters' = masters \ {t}
        BY <3>1, <3>2
      <3>4. Cardinality(masters) \in Nat /\ Cardinality(masters) <= 1
        BY <2>0, <3>1, InsideCount DEF OneMaster
      <3>5. Cardinality(masters \ {t}) <= 1
        <4>1. CASE t \in masters
          BY <2>0, <3>4, <4>1, InsideCount
        <4>2. CASE t \notin masters
          <5>1. masters \ {t} = masters
            BY <4>2
          <5>. QED  BY <3>4, <5>1
        <4>. QED  BY <4>1, <4>2
      <3>6. is_arrival_phase' => n' = 0
        BY <2>2, <3>1, <3>2 DEF Leave
      <3>. QED  BY <3>3, <3>5, <3>6 DEF OneMaster
    <2>3. ASSUME NEW t \in Thread, Quiet(t) PROVE OneMaster'
      BY <2>3, QuietStep, QuietLocals DEF OneMaster
    <2>4. CASE UNCHANGED vars
      BY <2>4 DEF vars, OneMaster, Inside
    <2>. QED  BY <2>1, <2>2, <2>3, <2>4 DEF Next, Working, Quiet
  <1>. QED  BY <1>1, <1>2, Invariance, PTL DEF Spec

(* With as many threads as the barrier expects, a departure phase starts   *)
(* with everybody inside, so whoever is out has returned once more often.  *)
SameRound ==
    Cardinality(Thread) = Max =>
        \E k \in Nat : \A t \in Thread :
            passed[t] = IF is_arrival_phase \/ t \in Inside THEN k ELSE k + 1

(* parsec_barrier_wait keeps all threads within one round, for any size.   *)
THEOREM Lockstep == Spec => []InLockstep
  <1>1. parsec_barrier_init => SameRound
    BY DEF parsec_barrier_init, SameRound
  <1>2. IndInv /\ IndInv' /\ SameRound /\ [Next]_vars => SameRound'
    <2>. SUFFICES ASSUME IndInv, IndInv', SameRound, [Next]_vars, Cardinality(Thread) = Max
                  PROVE  \E k \in Nat : \A t \in Thread :
                            passed'[t] = IF is_arrival_phase' \/ t \in Inside' THEN k ELSE k + 1
      BY DEF SameRound
    <2>0. PICK k \in Nat : \A t \in Thread :
              passed[t] = IF is_arrival_phase \/ t \in Inside THEN k ELSE k + 1
      BY DEF SameRound
    <2>1. ASSUME NEW t \in Thread, Arrive(t)
          PROVE  \A u \in Thread : passed'[u] = k /\ (is_arrival_phase' \/ u \in Inside')
      <3>1. is_arrival_phase
        BY <2>1, ArriveStep
      <3>2. passed' = passed /\ n' = n + 1
        BY <2>1 DEF Arrive
      <3>3. CASE is_arrival_phase'
        BY <2>0, <3>1, <3>2, <3>3
      <3>4. CASE ~is_arrival_phase'
        <4>0. n \in Nat /\ n < Max
          BY <3>1, MaxAssumption DEF IndInv, Phases, TypeOK
        <4>1. n + 1 >= Max
          BY <2>1, <3>1, <3>4 DEF Arrive
        <4>2. n' = Max
          BY <3>2, <4>0, <4>1, MaxAssumption
        <4>3. Cardinality(Inside') = Cardinality(Thread)
          BY <4>2 DEF IndInv, Phases
        <4>4. Inside' \in SUBSET Thread
          BY DEF Inside
        <4>5. Inside' = Thread
          BY <4>3, <4>4, ThreadAssumption, FS_Subset
        <4>. QED  BY <2>0, <3>1, <3>2, <4>5
      <3>. QED  BY <3>3, <3>4
    <2>2. ASSUME NEW t \in Thread, Leave(t)
          PROVE  \E m \in Nat : \A u \in Thread :
                    passed'[u] = IF is_arrival_phase' \/ u \in Inside' THEN m ELSE m + 1
      <3>1. ~is_arrival_phase /\ t \in Inside /\ Inside' = Inside \ {t}
        BY <2>2, LeaveStep
      <3>2. passed' = [passed EXCEPT ![t] = passed[t] + 1] /\ passed \in [Thread -> Nat]
        BY <2>2 DEF Leave, IndInv, TypeOK
      <3>3. \A u \in Thread : passed'[u] = IF u \in Inside' THEN k ELSE k + 1
        BY <2>0, <3>1, <3>2
      <3>4. CASE ~is_arrival_phase'
        BY <3>3, <3>4
      <3>5. CASE is_arrival_phase'
        <4>1. n' = 0
          BY <2>2, <3>1, <3>5 DEF Leave
        <4>2. Inside' = {}
          BY <4>1, InsideCount DEF IndInv, Phases, Inside
        <4>3. \A u \in Thread : passed'[u] = k + 1
          BY <3>3, <4>2
        <4>. QED  BY <3>5, <4>3
      <3>. QED  BY <3>4, <3>5
    <2>3. ASSUME NEW t \in Thread, Quiet(t)
          PROVE  UNCHANGED <<passed, is_arrival_phase, Inside>>
      BY <2>3, QuietStep, QuietLocals
    <2>4. CASE UNCHANGED vars
      BY <2>0, <2>4 DEF vars, Inside
    <2>. QED  BY <2>0, <2>1, <2>2, <2>3, <2>4 DEF Next, Working, Quiet
  <1>3. SameRound => InLockstep
    BY DEF SameRound, InLockstep
  <1>. QED  BY <1>1, <1>2, <1>3, Invariance, PTL DEF Spec

(* The barrier with its spins, sleeps and two phases implements the        *)
(* rendezvous of Max threads.                                              *)
THEOREM Refinement == Spec => ImplementsRendezvous
  <1>. DEFINE held == IF is_arrival_phase THEN Inside ELSE {}
              released == IF is_arrival_phase THEN {} ELSE Inside
  <1>1. parsec_barrier_init => Abstract!Init
    BY DEF parsec_barrier_init, Abstract!Init, Inside
  <1>2. IndInv /\ IndInv' /\ [Next]_vars => [Abstract!Next]_<<held, released>>
    <2>. SUFFICES ASSUME IndInv, IndInv', [Next]_vars
                  PROVE  Abstract!Next \/ UNCHANGED <<held, released>>
      OBVIOUS
    <2>1. ASSUME NEW t \in Thread, Arrive(t)
          PROVE  Abstract!Arrive(t)
      <3>1. is_arrival_phase /\ t \notin Inside /\ Inside' = Inside \cup {t}
        BY <2>1, ArriveStep
      <3>2. Abstract!Cardinality(Inside) = Cardinality(Inside)
        BY DEF Cardinality, Abstract!Cardinality
      <3>3. Cardinality(Inside) = n
        BY DEF IndInv, Phases
      <3>4. CASE n + 1 < Max
        <4>0. ~(n + 1 >= Max)
          BY <3>4, MaxAssumption DEF IndInv, TypeOK
        <4>1. is_arrival_phase'
          BY <2>1, <3>1, <4>0 DEF Arrive
        <4>. QED  BY <3>1, <3>2, <3>3, <3>4, <4>1 DEF Abstract!Arrive
      <3>5. CASE ~(n + 1 < Max)
        <4>1. ~is_arrival_phase'
          BY <2>1, <3>5, MaxAssumption DEF Arrive, IndInv, TypeOK
        <4>. QED  BY <3>1, <3>2, <3>3, <3>5, <4>1 DEF Abstract!Arrive
      <3>. QED  BY <3>4, <3>5
    <2>2. ASSUME NEW t \in Thread, Leave(t)
          PROVE  Abstract!Leave(t)
      <3>1. ~is_arrival_phase /\ t \in Inside /\ Inside' = Inside \ {t}
        BY <2>2, LeaveStep
      <3>2. CASE n - 1 = 0
        <4>1. is_arrival_phase' /\ n' = 0
          BY <2>2, <3>2 DEF Leave
        <4>2. Inside' = {}
          BY <4>1, InsideCount DEF IndInv, Phases, Inside
        <4>. QED  BY <3>1, <4>1, <4>2 DEF Abstract!Leave
      <3>3. CASE n - 1 # 0
        <4>1. ~is_arrival_phase'
          BY <2>2, <3>1, <3>3 DEF Leave
        <4>. QED  BY <3>1, <4>1 DEF Abstract!Leave
      <3>. QED  BY <3>2, <3>3
    <2>3. ASSUME NEW t \in Thread, Quiet(t)
          PROVE  UNCHANGED <<held, released>>
      BY <2>3, QuietStep
    <2>4. CASE UNCHANGED vars
      BY <2>4 DEF vars, Inside
    <2>. QED  BY <2>1, <2>2, <2>3, <2>4 DEF Next, Working, Quiet, Abstract!Next
  <1>. QED  BY <1>1, <1>2, Invariance, PTL DEF Spec, Abstract!Spec, ImplementsRendezvous
=============================================================================
