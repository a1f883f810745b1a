--------------------------- MODULE JobRunnerProofs ---------------------------
(***************************************************************************)
(* Proofs about JobRunner for any number of tasks, processors and workers. *)
(***************************************************************************)
EXTENDS JobRunner, FiniteSetTheorems, TLAPS

\* The application of a task, and the job, at each point of the task's run().
TaskStage ==
    \A t \in Task :
        /\ pc[t] = "waiting" <=> t > taken
        /\ pc[t] \in {"waiting", "formatting", "counting", "spawning", "raised"} =>
              child[t] = "none"
        /\ pc[t] \in {"leaving", "done", "returned"} => child[t] = "reaped"
        /\ child[t] = "running" => pc[t] \in {"dropping", "os.wait"}

JobStage ==
    /\ taken <= dispatched
    /\ args.intelligent => dispatched = 0
    /\ main \in {"new", "raised"} => taken = 0 /\ dispatched = 0
    /\ main = "dispatching" => stat_process = "running"
    /\ main = "finished" => \A t \in Task : pc[t] = "returned"

Stage == TaskStage /\ JobStage

Workers == Cardinality(Occupied) <= pool_size

IndInv == TypeOK /\ Stage /\ CountersAgree

(* Counting the tasks of a set, and one task more or less.                 *)
LEMMA TaskCount ==
    ASSUME NEW S \in SUBSET Task
    PROVE  /\ IsFiniteSet(S)
           /\ Cardinality(S) \in Nat
           /\ Cardinality(S) = 0 <=> S = {}
           /\ \A t \in Task : t \notin S => Cardinality(S \cup {t}) = Cardinality(S) + 1
           /\ \A t \in Task : t \in S => Cardinality(S \ {t}) = Cardinality(S) - 1
  <1>1. IsFiniteSet(Task)
    BY NumTasksAssumption, FS_Interval DEF Task
  <1>2. IsFiniteSet(S)
    BY <1>1, FS_Subset
  <1>. QED
    BY <1>2, FS_CardinalityType, FS_EmptySet, FS_AddElement, FS_RemoveElement

(* A job has as many tasks as its file.                                    *)
LEMMA AllTasks == Cardinality(Task) = NumTasks
  BY NumTasksAssumption, FS_Interval DEF Task

(* A step of the main process or of an application leaves the workers'     *)
(* sets alone.                                                             *)
LEMMA SameSets ==
    ASSUME UNCHANGED pc
    PROVE  UNCHANGED <<Occupied, Counted, Unreturned>>
  BY DEF Occupied, Counted, Unreturned

(* Job.run keeps the invariant. *)
LEMMA MainStep ==
    ASSUME IndInv, JobRun
    PROVE  IndInv'
  <1>. USE DEF IndInv, TypeOK
  <1>1. UNCHANGED <<taken, pc, child, args, num_tasks_in_system>>
    BY DEF JobRun, Start, Dispatch, Finish, counterVars
  <1>2. UNCHANGED <<Occupied, Counted, Unreturned>>
    BY <1>1, SameSets
  <1>2a. TaskStage'
    BY <1>1 DEF Stage, TaskStage
  <1>3. CASE Start
    <2>1. TypeOK'
      BY <1>1, <1>3, NumTasksAssumption DEF Start
    <2>2. \A t \in Task : pc[t] # "returned"
      BY <1>3 DEF Start, Stage, TaskStage, JobStage, Task
    <2>3. Unreturned = Task
      BY <2>2 DEF Unreturned
    <2>4. CountersAgree'
      BY <1>1, <1>2, <1>3, <2>3, AllTasks DEF Start, CountersAgree
    <2>5. Stage'
      BY <1>1, <1>2a, <1>3 DEF Start, Stage, JobStage
    <2>. QED  BY <2>1, <2>4, <2>5
  <1>4. CASE Dispatch
    <2>1. TypeOK'
      BY <1>1, <1>4, NumTasksAssumption DEF Dispatch, counterVars
    <2>2. CountersAgree'
      BY <1>1, <1>2, <1>4 DEF Dispatch, counterVars, CountersAgree
    <2>3. CASE args.intelligent
      <3>1. main' = "raised" /\ dispatched' = 0 /\ dispatched = 0
        BY <1>4, <2>3 DEF Dispatch, Stage, JobStage
      <3>2. taken = 0 /\ taken' <= dispatched'
        BY <1>1, <3>1 DEF Stage, JobStage
      <3>. QED  BY <1>1, <1>2a, <2>1, <2>2, <3>1, <3>2 DEF Stage, JobStage
    <2>4. CASE ~args.intelligent
      <3>1. /\ main = "dispatching" /\ UNCHANGED <<main, stat_process>>
            /\ dispatched' = dispatched + 1
        BY <1>4, <2>4 DEF Dispatch
      <3>2. taken' <= dispatched' /\ ~args'.intelligent
        BY <1>1, <2>4, <3>1 DEF Stage, JobStage
      <3>. QED  BY <1>1, <1>2a, <2>1, <2>2, <3>1, <3>2 DEF Stage, JobStage
    <2>. QED  BY <2>1, <2>2, <2>3, <2>4
  <1>5. CASE Finish
    <2>1. TypeOK' /\ CountersAgree'
      BY <1>1, <1>2, <1>5 DEF Finish, CountersAgree, counterVars
    <2>2. Unreturned = {}
      <3>1. Unreturned \in SUBSET Task
        BY DEF Unreturned
      <3>2. Cardinality(Unreturned) = 0
        BY <1>5 DEF Finish, CountersAgree
      <3>. QED  BY <3>1, <3>2, TaskCount
    <2>3. Stage'
      BY <1>1, <1>2a, <1>5, <2>2 DEF Finish, Stage, JobStage, Unreturned
    <2>. QED  BY <2>1, <2>3
  <1>. QED  BY <1>3, <1>4, <1>5 DEF JobRun

(* A worker that takes a task.                                             *)
LEMMA TakeStep ==
    ASSUME IndInv, Take
    PROVE  IndInv'
  <1>. USE DEF IndInv, TypeOK
  <1>. DEFINE u == taken + 1
  <1>1. u \in Task /\ u <= dispatched /\ pc[u] = "waiting" /\ child[u] = "none"
    BY NumTasksAssumption DEF Take, Stage, TaskStage, JobStage, Task
  <1>2. /\ pc' = [pc EXCEPT ![u] = "formatting"] /\ taken' = u
        /\ UNCHANGED <<jobVars, child, counterVars>>
    BY DEF Take
  <1>3. TypeOK'
    BY <1>1, <1>2, NumTasksAssumption DEF jobVars, counterVars, Running, Task
  <1>4. Counted' = Counted /\ Unreturned' = Unreturned
    BY <1>1, <1>2 DEF Counted, Unreturned
  <1>5. CountersAgree'
    BY <1>2, <1>4 DEF CountersAgree, jobVars, counterVars
  <1>6. main = "dispatching"
    <2>1. main \notin {"new", "raised"}
      BY DEF Take, Stage, TaskStage, JobStage
    <2>2. main # "finished"
      BY <1>1 DEF Stage, TaskStage, JobStage
    <2>. QED  BY <2>1, <2>2
  <1>7. \A t \in Task : t # u => pc'[t] = pc[t] /\ (t > u <=> t > taken)
    BY <1>1, <1>2 DEF Task
  <1>8. Stage'
    BY <1>1, <1>2, <1>6, <1>7 DEF Stage, TaskStage, JobStage, jobVars, Task
  <1>. QED  BY <1>3, <1>5, <1>8

(* A step of run() for one task, seen from outside: where the task may be, *)
(* and what becomes of the counters.                                       *)
LEMMA RunStep ==
    ASSUME IndInv, NEW t \in Task, run(t) \/ ChildExits(t)
    PROVE  IndInv'
  <1>. USE DEF IndInv, TypeOK
  <1>1. /\ UNCHANGED <<jobVars, taken>>
        /\ pc[t] \notin {"waiting", "returned"}
        /\ pc'[t] # "waiting"
        /\ \A u \in Task : u # t => pc'[u] = pc[u] /\ child'[u] = child[u]
    <2>1. CASE ChildExits(t)
      BY <2>1 DEF ChildExits, Stage, TaskStage, JobStage
    <2>2. CASE run(t)
      BY <2>2 DEF run, Format, CountIn, Popen, PopenDel, Wait, CountOut, Done, Goto
    <2>. QED  BY <2>1, <2>2
  <1>2. main = "dispatching"
    <2>1. main \notin {"new", "raised"}
      BY <1>1 DEF Stage, TaskStage, JobStage, Task
    <2>2. main # "finished"
      BY <1>1 DEF Stage, TaskStage, JobStage
    <2>. QED  BY <2>1, <2>2
  <1>3. Counted \in SUBSET Task /\ Unreturned \in SUBSET Task /\ t \in Unreturned
    BY <1>1 DEF Counted, Unreturned
  <1>4. /\ num_tasks_in_system = Cardinality(Counted)
        /\ num_tasks_remaining = Cardinality(Unreturned)
    BY <1>2 DEF CountersAgree
  <1>5. /\ pc' \in [Task -> Running \cup {"waiting", "raised", "raisedCounted", "returned"}]
        /\ child' \in [Task -> {"none", "running", "zombie", "reaped"}]
    <2>1. CASE ChildExits(t)
      BY <2>1 DEF ChildExits
    <2>2. CASE Format(t) \/ CountIn(t) \/ CountOut(t) \/ Done(t)
      BY <2>2 DEF Format, CountIn, CountOut, Done, Goto, Running
    <2>3. CASE Popen(t)
      BY <2>3 DEF Popen, Goto, Running
    <2>4. CASE PopenDel(t)
      BY <2>4 DEF PopenDel, Goto, Running
    <2>5. CASE Wait(t)
      BY <2>5 DEF Wait, Goto, Running
    <2>. QED  BY <2>1, <2>2, <2>3, <2>4, <2>5 DEF run
  <1>6. /\ pc'[t] \in {"formatting", "counting", "spawning", "raised"} => child'[t] = "none"
        /\ pc'[t] \in {"leaving", "done", "returned"} => child'[t] = "reaped"
        /\ child'[t] = "running" => pc'[t] \in {"dropping", "os.wait"}
    <2>. pc[t] \in Running \cup {"raised", "raisedCounted"}
      BY <1>1
    <2>1. CASE ChildExits(t)
      BY <2>1 DEF ChildExits, Stage, TaskStage, JobStage
    <2>2. CASE Format(t) \/ CountIn(t)
      BY <2>2 DEF Format, CountIn, Goto, Stage, TaskStage, JobStage
    <2>3. CASE CountOut(t) \/ Done(t)
      BY <2>3 DEF CountOut, Done, Goto, Stage, TaskStage, JobStage
    <2>4. CASE Popen(t)
      BY <2>4 DEF Popen, Goto, Stage, TaskStage, JobStage
    <2>5. CASE PopenDel(t)
      BY <2>5 DEF PopenDel, Goto, Stage, TaskStage, JobStage
    <2>6. CASE Wait(t)
      BY <2>6 DEF Wait, Goto, Stage, TaskStage, JobStage
    <2>. QED  BY <2>1, <2>2, <2>3, <2>4, <2>5, <2>6 DEF run
  <1>7. Stage'
    BY <1>1, <1>2, <1>6 DEF Stage, TaskStage, JobStage, jobVars
  <1>8. /\ num_tasks_in_system' = Cardinality(Counted')
        /\ num_tasks_remaining' = Cardinality(Unreturned')
    <2>1. CASE CountIn(t)
      <3>1. t \notin Counted /\ Counted' = Counted \cup {t} /\ Unreturned' = Unreturned
        BY <1>1, <2>1 DEF CountIn, Goto, Counted, Unreturned
      <3>. QED  BY <1>3, <1>4, <2>1, <3>1, TaskCount DEF CountIn
    <2>2. CASE CountOut(t)
      <3>1. t \in Counted /\ Counted' = Counted \ {t} /\ Unreturned' = Unreturned
        BY <1>1, <2>2 DEF CountOut, Goto, Counted, Unreturned
      <3>. QED  BY <1>3, <1>4, <2>2, <3>1, TaskCount DEF CountOut
    <2>3. CASE Done(t)
      <3>1. Counted' = Counted /\ Unreturned' = Unreturned \ {t}
        BY <1>1, <2>3 DEF Done, Goto, Counted, Unreturned
      <3>. QED  BY <1>3, <1>4, <2>3, <3>1, TaskCount DEF Done
    <2>4. CASE ChildExits(t)
      BY <1>4, <2>4, SameSets DEF ChildExits, counterVars
    <2>5. CASE Format(t) \/ Popen(t) \/ PopenDel(t) \/ Wait(t)
      <3>1. Counted' = Counted /\ Unreturned' = Unreturned
        BY <1>1, <2>5 DEF Format, Popen, PopenDel, Wait, Goto, Counted, Unreturned
      <3>2. UNCHANGED counterVars
        BY <2>5 DEF Format, Popen, PopenDel, Wait
      <3>. QED  BY <1>4, <3>1, <3>2 DEF counterVars
    <2>. QED  BY <2>1, <2>2, <2>3, <2>4, <2>5 DEF run
  <1>9. num_tasks_in_system' \in Nat /\ num_tasks_remaining' \in Nat
    <2>. Counted' \in SUBSET Task /\ Unreturned' \in SUBSET Task
      BY DEF Counted, Unreturned
    <2>. QED  BY <1>8, TaskCount
  <1>10. TypeOK'
    BY <1>1, <1>5, <1>9 DEF jobVars
  <1>. QED  BY <1>7, <1>8, <1>10 DEF CountersAgree

(* At most as many tasks are being run as the pool has workers.            *)
LEMMA WorkersStep ==
    ASSUME IndInv, Workers, [Next]_vars
    PROVE  Workers'
  <1>. USE DEF IndInv, TypeOK, Workers
  <1>1. UNCHANGED args
    BY DEF Next, JobRun, Start, Dispatch, Finish, Take, run, Format, CountIn, Popen,
           PopenDel, Wait, CountOut, Done, ChildExits, vars, jobVars
  <1>2. pool_size' = pool_size /\ pool_size \in Int
    BY <1>1, NumTasksAssumption, PoolAssumption DEF pool_size, Lesser, Args
  <1>3. Occupied \in SUBSET Task /\ Occupied' \in SUBSET Task
    BY DEF Occupied
  <1>4. CASE Take
    <2>. DEFINE u == taken + 1
    <2>1. u \in Task /\ pc[u] = "waiting" /\ pc' = [pc EXCEPT ![u] = "formatting"]
      BY <1>4, NumTasksAssumption DEF Take, Stage, TaskStage, JobStage, Task
    <2>2. u \notin Occupied /\ Occupied' = Occupied \cup {u}
      BY <2>1 DEF Occupied, Running
    <2>3. Cardinality(Occupied') = Cardinality(Occupied) + 1
      BY <1>3, <2>1, <2>2, TaskCount
    <2>. QED  BY <1>2, <1>3, <1>4, <2>3, TaskCount DEF Take
  <1>5. ASSUME NEW t \in Task, run(t)
        PROVE  Workers'
    <2>1. pc[t] \in Running /\ \A v \in Task : v # t => pc'[v] = pc[v]
      BY <1>5 DEF run, Format, CountIn, Popen, PopenDel, Wait, CountOut, Done, Goto, Running
    <2>2. Occupied' \subseteq Occupied
      BY <2>1 DEF Occupied
    <2>3. Cardinality(Occupied') <= Cardinality(Occupied)
      BY <1>3, <2>2, TaskCount, FS_Subset
    <2>. QED  BY <1>2, <1>3, <2>3, TaskCount
  <1>6. CASE JobRun \/ (\E t \in Task : ChildExits(t)) \/ UNCHANGED vars
    <2>1. UNCHANGED pc
      BY <1>6 DEF JobRun, Start, Dispatch, Finish, ChildExits, vars
    <2>. QED  BY <1>2, <2>1, SameSets
  <1>. QED  BY <1>4, <1>5, <1>6 DEF Next

(* The inductive invariant: types, the stage of each task and of the job,  *)
(* the meaning of the counters and the number of busy workers.             *)
THEOREM Invariance == Spec => [](IndInv /\ Workers)
  <1>1. Init => IndInv /\ Workers
    <2>. SUFFICES ASSUME Init PROVE IndInv /\ Workers
      OBVIOUS
    <2>1. TypeOK /\ Stage
      BY NumTasksAssumption DEF Init, TypeOK, Stage, TaskStage, JobStage, Task, Running
    <2>2. Counted = {} /\ Occupied = {}
      BY DEF Init, Counted, Occupied, Running
    <2>3. CountersAgree
      BY <2>2, FS_EmptySet DEF Init, CountersAgree
    <2>4. pool_size >= 0
      BY NumTasksAssumption, PoolAssumption DEF Init, Args, pool_size, Lesser
    <2>. QED  BY <2>1, <2>2, <2>3, <2>4, FS_EmptySet DEF IndInv, Workers
  <1>2. IndInv /\ Workers /\ [Next]_vars => (IndInv /\ Workers)'
    <2>. SUFFICES ASSUME IndInv, Workers, [Next]_vars PROVE IndInv'
      BY WorkersStep
    <2>1. CASE UNCHANGED vars
      <3>1. UNCHANGED <<Occupied, Counted, Unreturned>>
        BY <2>1, SameSets DEF vars
      <3>. QED
        BY <2>1, <3>1 DEF vars, jobVars, counterVars, IndInv, TypeOK, Stage, TaskStage,
                          JobStage, CountersAgree
    <2>. QED  BY <2>1, MainStep, TakeStep, RunStep DEF Next
  <1>. QED  BY <1>1, <1>2, PTL DEF Spec

(* The values of the counters, of the stages of run() and of the children. *)
THEOREM TypeCorrect == Spec => []TypeOK
  BY Invariance, PTL DEF IndInv

(* The shared counters count what they are named after.                    *)
THEOREM Counters == Spec => []CountersAgree
  BY Invariance, PTL DEF IndInv

(* The statistics process is only stopped when every application is over.  *)
THEOREM Quiet == Spec => []FinishedIsQuiet
  <1>1. IndInv => FinishedIsQuiet
    <2>. SUFFICES ASSUME IndInv, main = "finished" PROVE FinishedIsQuiet
      BY DEF FinishedIsQuiet
    <2>1. \A t \in Task : pc[t] = "returned" /\ child[t] = "reaped"
      BY DEF IndInv, Stage, TaskStage, JobStage
    <2>2. Counted = {}
      BY <2>1 DEF Counted
    <2>. QED  BY <2>1, <2>2, FS_EmptySet DEF FinishedIsQuiet, IndInv, CountersAgree
  <1>. QED  BY <1>1, Invariance, PTL

(* --pool-size bounds the applications that run at a time, and statistics  *)
(* are written as long as one runs.                                        *)
THEOREM PoolSizeRespected == Spec => []Gated
  <1>1. IndInv /\ Workers => Gated
    <2>. SUFFICES ASSUME IndInv, Workers PROVE Gated
      OBVIOUS
    <2>. DEFINE running == {t \in Task : child[t] = "running"}
    <2>1. running \subseteq Occupied /\ Occupied \in SUBSET Task /\ running \in SUBSET Task
      BY DEF IndInv, Stage, TaskStage, Occupied, Running
    <2>2. Cardinality(running) <= Cardinality(Occupied)
      BY <2>1, TaskCount, FS_Subset
    <2>3. pool_size <= args.pool_size /\ pool_size \in Int /\ args.pool_size \in Int
      BY NumTasksAssumption, PoolAssumption DEF pool_size, Lesser, Args, IndInv, TypeOK
    <2>4. Cardinality(running) <= args.pool_size
      BY <2>1, <2>2, <2>3, TaskCount DEF Workers
    <2>5. ASSUME NEW t \in running
          PROVE  stat_process = "running"
      <3>1. pc[t] \in {"dropping", "os.wait"}
        BY DEF IndInv, Stage, TaskStage
      <3>2. taken # 0
        BY <3>1 DEF IndInv, Stage, TaskStage, Task
      <3>. QED  BY <3>1, <3>2 DEF IndInv, TypeOK, Stage, JobStage
    <2>. QED  BY <2>4, <2>5 DEF Gated
  <1>. QED  BY <1>1, Invariance, PTL
=============================================================================
