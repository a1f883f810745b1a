------------------------------ MODULE JobRunner ------------------------------
(***************************************************************************)
(* Job.run (src/turkey/job.py) and Task.run (src/turkey/task.py): the main *)
(* process starts a statistics process, hands the tasks of a job file to a *)
(* pool of worker processes and polls a shared counter until no task       *)
(* remains. Each worker spawns the application of its task and waits for   *)
(* it. The counters (src/turkey/counter.py) are shared memory under a lock,*)
(* so each of their operations is one step.                                *)
(*                                                                         *)
(* apply_async hands tasks out in order and keeps no result: what a task   *)
(* raises is lost in the worker, which goes on with the next task.         *)
(***************************************************************************)
EXTENDS Integers, FiniteSets

CONSTANTS
    NumTasks,     \* tasks in the job file
    MaxPoolSize,  \* bound: the largest --pool-size
    CpuCount      \* mp.cpu_count()

ASSUME NumTasksAssumption == NumTasks \in Nat
ASSUME PoolAssumption == MaxPoolSize \in Nat /\ CpuCount \in Nat \ {0}

VARIABLES
    main,                 \* control point of Job.run
    args,                 \* what the command line and the job file ask for
    stat_process,         \* the process that runs write_stats
    dispatched,           \* tasks given to apply_async
    taken,                \* tasks taken by a worker
    pc,                   \* control point of each task's run()
    child,                \* the application process of each task
    num_tasks_in_system,  \* config.num_tasks_in_system
    num_tasks_remaining   \* config.num_tasks_remaining

jobVars == <<main, args, stat_process, dispatched>>
counterVars == <<num_tasks_in_system, num_tasks_remaining>>
vars == <<jobVars, taken, pc, child, counterVars>>

Task == 1..NumTasks

\* The options of the job command, and the tasks whose configuration names a
\* key that run() has no value for (as those of vips and freqmine do).
Args == [pool_size : 0..MaxPoolSize, intelligent : BOOLEAN, bad_conf : SUBSET Task]

Lesser(m, n) == IF m < n THEN m ELSE n

\* Mutant: --pool-size is not looked at.
pool_size_default == Lesser(NumTasks, CpuCount)

pool_size == Lesser(NumTasks, Lesser(args.pool_size, CpuCount))

Init ==
    /\ main = "new"
    /\ args \in Args
    /\ stat_process = "none"
    /\ dispatched = 0
    /\ taken = 0
    /\ pc = [t \in Task |-> "waiting"]
    /\ child = [t \in Task |-> "none"]
    /\ num_tasks_in_system = 0
    /\ num_tasks_remaining = 0

-----------------------------------------------------------------------------
(* The main process. *)

\* Mutant: the counter is set when the tasks have been handed out.
StartUncounted ==
    /\ main = "new"
    /\ stat_process' = "running"
    /\ main' = IF pool_size < 1 THEN "raised" ELSE "dispatching"
    /\ UNCHANGED <<args, dispatched, taken, pc, child, counterVars>>

\* The statistics process, the pool and the counter. mp.Pool(0) raises.
Start ==
    /\ main = "new"
    /\ stat_process' = "running"
    /\ \/ /\ pool_size < 1
          /\ main' = "raised"
          /\ UNCHANGED num_tasks_remaining
       \/ /\ pool_size >= 1
          /\ main' = "dispatching"
          /\ num_tasks_remaining' = NumTasks
    /\ UNCHANGED <<args, dispatched, taken, pc, child, num_tasks_in_system>>

\* One round of the loop over the tasks. With --intelligent it divides
\* num_cpus by the Counter object itself, which raises.
Dispatch ==
    /\ main = "dispatching"
    /\ dispatched < NumTasks
    /\ \/ args.intelligent /\ main' = "raised" /\ UNCHANGED dispatched
       \/ ~args.intelligent /\ dispatched' = dispatched + 1 /\ UNCHANGED main
    /\ UNCHANGED <<args, stat_process, taken, pc, child, counterVars>>

\* Mutant: the loop looks at the tasks in the system.
FinishWhenNoneRuns ==
    /\ main = "dispatching"
    /\ dispatched = NumTasks
    /\ ~(num_tasks_in_system > 0)
    /\ main' = "finished"
    /\ stat_process' = "terminated"
    /\ UNCHANGED <<args, dispatched, taken, pc, child, counterVars>>

\* The polling loop has seen that no task remains.
Finish ==
    /\ main = "dispatching"
    /\ dispatched = NumTasks
    /\ ~(num_tasks_remaining > 0)
    /\ main' = "finished"
    /\ stat_process' = "terminated"
    /\ UNCHANGED <<args, dispatched, taken, pc, child, counterVars>>

-----------------------------------------------------------------------------
(* The workers. *)

Running == {"formatting", "counting", "spawning", "dropping", "os.wait", "leaving", "done"}
Occupied == {t \in Task : pc[t] \in Running}

Goto(t, from, to) == pc[t] = from /\ pc' = [pc EXCEPT ![t] = to]

\* mp.Pool: a free worker takes the next task.
Take ==
    /\ taken < dispatched
    /\ Cardinality(Occupied) < pool_size
    /\ taken' = taken + 1
    /\ pc' = [pc EXCEPT ![taken + 1] = "formatting"]
    /\ UNCHANGED <<jobVars, child, counterVars>>

\* The environment and the arguments are formatted; a key that is not in
\* the dictionary raises.
Format(t) ==
    /\ Goto(t, "formatting", IF t \in args.bad_conf THEN "raised" ELSE "counting")
    /\ UNCHANGED <<jobVars, taken, child, counterVars>>

\* num_tasks_in_system.increment()
CountIn(t) ==
    /\ Goto(t, "counting", "spawning")
    /\ num_tasks_in_system' = num_tasks_in_system + 1
    /\ UNCHANGED <<jobVars, taken, child, num_tasks_remaining>>

\* subprocess.Popen starts a shell with the application, or fork fails.
Popen(t) ==
    /\ \/ Goto(t, "spawning", "dropping") /\ child' = [child EXCEPT ![t] = "running"]
       \/ Goto(t, "spawning", "raisedCounted") /\ UNCHANGED child
    /\ UNCHANGED <<jobVars, taken, counterVars>>

ChildExits(t) ==
    /\ child[t] = "running"
    /\ child' = [child EXCEPT ![t] = "zombie"]
    /\ UNCHANGED <<jobVars, taken, pc, counterVars>>

\* run() keeps no reference to the Popen object, and Popen.__del__ reaps the
\* process if it is over by then.
PopenDel(t) ==
    /\ Goto(t, "dropping", "os.wait")
    /\ child' = [child EXCEPT ![t] = IF @ = "zombie" THEN "reaped" ELSE @]
    /\ UNCHANGED <<jobVars, taken, counterVars>>

\* Mutant: run() does not wait for the application.
WaitSkipped(t) ==
    /\ Goto(t, "os.wait", "leaving")
    /\ UNCHANGED <<jobVars, taken, child, counterVars>>

\* os.wait() returns when the worker's only child is over. When there is no
\* child left to wait for it raises.
Wait(t) ==
    /\ \/ /\ child[t] = "zombie"
          /\ Goto(t, "os.wait", "leaving")
          /\ child' = [child EXCEPT ![t] = "reaped"]
       \/ /\ child[t] = "reaped"
          /\ Goto(t, "os.wait", "raisedCounted")
          /\ UNCHANGED child
    /\ UNCHANGED <<jobVars, taken, counterVars>>

\* num_tasks_in_system.decrement()
CountOut(t) ==
    /\ Goto(t, "leaving", "done")
    /\ num_tasks_in_system' = num_tasks_in_system - 1
    /\ UNCHANGED <<jobVars, taken, child, num_tasks_remaining>>

\* Mutant: num_tasks_remaining is not counted down.
DoneUncounted(t) ==
    /\ Goto(t, "done", "returned")
    /\ UNCHANGED <<jobVars, taken, child, counterVars>>

\* num_tasks_remaining.decrement()
Done(t) ==
    /\ Goto(t, "done", "returned")
    /\ num_tasks_remaining' = num_tasks_remaining - 1
    /\ UNCHANGED <<jobVars, taken, child, num_tasks_in_system>>

run(t) == Format(t) \/ CountIn(t) \/ Popen(t) \/ PopenDel(t) \/ Wait(t) \/ CountOut(t) \/ Done(t)

-----------------------------------------------------------------------------
JobRun == Start \/ Dispatch \/ Finish

Next == JobRun \/ Take \/ \E t \in Task : run(t) \/ ChildExits(t)

Spec == Init /\ [][Next]_vars

\* The operating system runs every process, and every application ends.
Fairness ==
    /\ WF_vars(JobRun)
    /\ WF_vars(Take)
    /\ \A t \in Task : WF_vars(run(t)) /\ WF_vars(ChildExits(t))

FairSpec == Spec /\ Fairness

-----------------------------------------------------------------------------
TypeOK ==
    /\ main \in {"new", "dispatching", "finished", "raised"}
    /\ args \in Args
    /\ stat_process \in {"none", "running", "terminated"}
    /\ dispatched \in 0..NumTasks
    /\ taken \in 0..NumTasks
    /\ pc \in [Task -> Running \cup {"waiting", "raised", "raisedCounted", "returned"}]
    /\ child \in [Task -> {"none", "running", "zombie", "reaped"}]
    /\ num_tasks_in_system \in Nat
    /\ num_tasks_remaining \in Nat

Counted == {t \in Task : pc[t] \in {"spawning", "dropping", "os.wait", "leaving",
                                    "raisedCounted"}}
Unreturned == {t \in Task : pc[t] # "returned"}
Raised == {t \in Task : pc[t] \in {"raised", "raisedCounted"}}

(***************************************************************************)
(* The two counters mean what their names say, however the workers and the *)
(* main process interleave: num_tasks_in_system counts the tasks between   *)
(* increment() and decrement(), num_tasks_remaining those of a started job *)
(* that have not run to their end. A task that raised stays in both.       *)
(***************************************************************************)
CountersAgree ==
    /\ num_tasks_in_system = Cardinality(Counted)
    /\ main = "dispatching" => num_tasks_remaining = Cardinality(Unreturned)

(***************************************************************************)
(* Job.run stops the statistics process only when every task has run, no   *)
(* application is left running and num_tasks_in_system is back to zero.    *)
(***************************************************************************)
FinishedIsQuiet ==
    main = "finished" =>
        /\ \A t \in Task : pc[t] = "returned" /\ child[t] = "reaped"
        /\ num_tasks_in_system = 0

(***************************************************************************)
(* No more applications run at a time than "Number of workers to gate",    *)
(* and while one runs the statistics are being written.                    *)
(***************************************************************************)
Gated ==
    LET running == {t \in Task : child[t] = "running"}
    IN  /\ Cardinality(running) <= args.pool_size
        /\ running # {} => stat_process = "running"

(***************************************************************************)
(* Once every task given to the pool has returned or raised, and none did  *)
(* raise, the job ends: polling the counter misses nothing.                *)
(***************************************************************************)
EndsUnlessRaised ==
    main = "dispatching" ~> main \in {"finished", "raised"} \/ Raised # {}

(***************************************************************************)
(* "wanting to wait for the async applies to finish": when every task was  *)
(* handed to the pool and none is left running, Job.run gets out of its    *)
(* polling loop.                                                           *)
(***************************************************************************)
LoopEnds ==
    (dispatched = NumTasks /\ taken = NumTasks /\ Occupied = {}) ~> main # "dispatching"
=============================================================================
