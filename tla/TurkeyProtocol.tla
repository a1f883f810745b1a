--------------------------- MODULE TurkeyProtocol ---------------------------
(***************************************************************************)
(* The Turkey client library (src/src/Client.cpp) and the Turkey server    *)
(* (src/turkey/server.py, src/turkey/scheduler.py) exchanging Start, Stop  *)
(* and Update messages over ZeroMQ: a ROUTER socket in the server, one     *)
(* DEALER socket per client process.                                       *)
(*                                                                         *)
(* A client process has two threads. The application thread constructs the *)
(* Client, calls start(), works, and calls stop(). The message thread runs *)
(* processMessage(). Both use registered_, the pools and the socket        *)
(* without a lock. The server is one loop that handles one message at a    *)
(* time.                                                                   *)
(***************************************************************************)
EXTENDS Integers, Sequences, FiniteSets

CONSTANTS
    Client,         \* client processes, by ZMQ identity (their pid)
    Resources,      \* num_cpus given to Server()
    NumPools,       \* pools of a Client
    DefaultThreads  \* defaultNumThreads of a Client

ASSUME ClientAssumption == IsFiniteSet(Client)
ASSUME ResourcesAssumption == Resources \in Nat
ASSUME PoolAssumption == NumPools \in Nat \ {0} /\ DefaultThreads \in Nat

VARIABLES
    tasks,       \* Server.tasks: registered identity -> its 'resources'
    toServer,    \* per client, the messages it sent that sched has not received
    toClient,    \* per client, the messages sent to it that it has not received
    arrived,     \* how many of toClient[c] have reached the DEALER socket
    main,        \* control point of the application thread
    proc,        \* control point of the message thread
    registered,  \* Client::registered_
    pool,        \* threads of each of the client's pools
    joining,     \* loop position of stop() over the pools
    resizing,    \* loop position of allocator_ over the pools
    data         \* data() of the Update being applied

serverVars == <<tasks>>
netVars == <<toServer, toClient, arrived>>
poolVars == <<pool, joining, resizing, data>>
clientVars == <<main, proc, registered, poolVars>>
vars == <<serverVars, netVars, clientVars>>

(***************************************************************************)
(* Messages. The decoder returns exactly the type and data encoded: zero   *)
(* is the flatbuffers default, so it is left out of the buffer and read    *)
(* back as zero. Start and Stop are sent by the server with data 0.        *)
(***************************************************************************)
Pool == 1..NumPools
StartMsg == [type |-> "Start", data |-> 0]
StopMsg == [type |-> "Stop", data |-> 0]
UpdateMsg(n) == [type |-> "Update", data |-> n]
Message == [type : {"Start", "Stop", "Update"}, data : Nat]

Alive(c) == main[c] \notin {"exited", "aborted"}

Init ==
    /\ tasks = [c \in {} |-> 0]
    /\ toServer = [c \in Client |-> <<>>]
    /\ toClient = [c \in Client |-> <<>>]
    /\ arrived = [c \in Client |-> 0]
    /\ main = [c \in Client |-> "constructed"]
    /\ proc = [c \in Client |-> "none"]
    /\ registered = [c \in Client |-> FALSE]
    /\ pool = [c \in Client |-> [p \in Pool |-> DefaultThreads]]
    /\ joining = [c \in Client |-> 1]
    /\ resizing = [c \in Client |-> 1]
    /\ data = [c \in Client |-> 0]

-----------------------------------------------------------------------------
(* The server. *)

\* Mutant: the share is rounded up.
scheduleRoundingUp(ids) ==
    [t \in ids |-> (Resources + Cardinality(ids) - 1) \div Cardinality(ids)]

\* Scheduler.schedule: an equal share, rounded down, for every task.
schedule(ids) == [t \in ids |-> Resources \div Cardinality(ids)]

\* Mutant: the reply is sent after the Updates.
SendsReplyLast(c, reply, alloc) ==
    LET updated == [t \in Client |-> IF t \in DOMAIN alloc
                                     THEN Append(toClient[t], UpdateMsg(alloc[t]))
                                     ELSE toClient[t]]
    IN  [updated EXCEPT ![c] = Append(@, reply)]

\* Mutant: the Updates go to the tasks there were before the message.
SendsToOldTasks(c, reply, alloc) ==
    LET replied == [toClient EXCEPT ![c] = Append(@, reply)]
    IN  [t \in Client |-> IF t \in DOMAIN tasks \cup DOMAIN alloc
                          THEN Append(replied[t], UpdateMsg(0))
                          ELSE replied[t]]

\* What sched sends: the reply to c, then an Update to every task left.
Sends(c, reply, alloc) ==
    LET replied == [toClient EXCEPT ![c] = Append(@, reply)]
    IN  [t \in Client |-> IF t \in DOMAIN alloc
                          THEN Append(replied[t], UpdateMsg(alloc[t]))
                          ELSE replied[t]]

\* Mutant: Stop does not pop the task.
schedNoPop(c) ==
    /\ toServer[c] # <<>>
    /\ toServer' = [toServer EXCEPT ![c] = Tail(@)]
    /\ tasks' = schedule(DOMAIN tasks \cup {c})
    /\ toClient' = Sends(c, IF Head(toServer[c]) = "Start" THEN StartMsg ELSE StopMsg, tasks')
    /\ UNCHANGED <<arrived, clientVars>>

\* Mutant: Stop is not answered.
schedNoStopReply(c) ==
    /\ toServer[c] # <<>>
    /\ toServer' = [toServer EXCEPT ![c] = Tail(@)]
    /\ \/ /\ Head(toServer[c]) = "Start"
          /\ tasks' = schedule(DOMAIN tasks \cup {c})
          /\ toClient' = Sends(c, StartMsg, tasks')
       \/ /\ Head(toServer[c]) = "Stop"
          /\ tasks' = schedule(DOMAIN tasks \ {c})
          /\ toClient' = [t \in Client |-> IF t \in DOMAIN tasks'
                            THEN Append(toClient[t], UpdateMsg(tasks'[t])) ELSE toClient[t]]
    /\ UNCHANGED <<arrived, clientVars>>

\* sched on a message of client c. The sends only append to queues no one
\* reads before they arrive, so the handler is one step.
sched(c) ==
    /\ toServer[c] # <<>>
    /\ toServer' = [toServer EXCEPT ![c] = Tail(@)]
    /\ \/ /\ Head(toServer[c]) = "Start"
          /\ tasks' = schedule(DOMAIN tasks \cup {c})
          /\ toClient' = Sends(c, StartMsg, tasks')
       \/ /\ Head(toServer[c]) = "Stop"
          /\ tasks' = schedule(DOMAIN tasks \ {c})
          /\ toClient' = Sends(c, StopMsg, tasks')
    /\ UNCHANGED <<arrived, clientVars>>

\* ZeroMQ: the next message in flight to c reaches its socket.
Deliver(c) ==
    /\ Alive(c)
    /\ arrived[c] < Len(toClient[c])
    /\ arrived' = [arrived EXCEPT ![c] = @ + 1]
    /\ UNCHANGED <<serverVars, toServer, toClient, clientVars>>

-----------------------------------------------------------------------------
(* The application thread. *)

sendMessage(c, type) == toServer' = [toServer EXCEPT ![c] = Append(@, type)]

start(c) ==
    /\ main[c] = "constructed"
    /\ main' = [main EXCEPT ![c] = "working"]
    /\ proc' = [proc EXCEPT ![c] = "connect"]
    /\ UNCHANGED <<serverVars, netVars, registered, poolVars>>

\* The application has waited for its work and calls stop().
stop(c) ==
    /\ main[c] = "working"
    /\ main' = [main EXCEPT ![c] = "joinPools"]
    /\ joining' = [joining EXCEPT ![c] = 1]
    /\ UNCHANGED <<serverVars, netVars, proc, registered, pool, resizing, data>>

\* pool.join() for the next pool: its threads finish and go away.
JoinPool(c) ==
    /\ main[c] = "joinPools"
    /\ pool' = [pool EXCEPT ![c][joining[c]] = 0]
    /\ joining' = [joining EXCEPT ![c] = @ + 1]
    /\ main' = [main EXCEPT ![c] = IF joining[c] = NumPools
                                   THEN "checkRegistered" ELSE @]
    /\ UNCHANGED <<serverVars, netVars, proc, registered, resizing, data>>

\* Mutant: the Stop message is not sent.
CheckRegisteredNoSend(c) ==
    /\ main[c] = "checkRegistered"
    /\ main' = [main EXCEPT ![c] = IF registered[c] THEN "joinThread" ELSE "stopped"]
    /\ UNCHANGED <<serverVars, netVars, proc, registered, poolVars>>

\* The unsynchronised read of registered_.
CheckRegistered(c) ==
    /\ main[c] = "checkRegistered"
    /\ \/ /\ registered[c]
          /\ sendMessage(c, "Stop")
          /\ main' = [main EXCEPT ![c] = "joinThread"]
       \/ /\ ~registered[c]
          /\ main' = [main EXCEPT ![c] = "stopped"]
          /\ UNCHANGED toServer
    /\ UNCHANGED <<serverVars, toClient, arrived, proc, registered, poolVars>>

\* The process ends. What it had queued for the server may or may not have
\* left the process; the rest is lost.
Exit(c, how) ==
    /\ main' = [main EXCEPT ![c] = how]
    /\ \E k \in 0..Len(toServer[c]) :
          toServer' = [toServer EXCEPT ![c] = SubSeq(@, 1, k)]
    /\ UNCHANGED <<serverVars, toClient, arrived, registered, poolVars>>

\* stop() has returned, which it only does when it read registered_ = FALSE:
\* when it read TRUE it waits in "joinThread" for a message thread that never
\* returns once registered, and only exit(0) there ends the process.
\* main() then returns (main_client.cpp, main_equi.cpp): ~Client destroys a
\* std::thread that start() created and nobody joined, which terminates.
DestroyClient(c) ==
    /\ main[c] = "stopped"
    /\ Exit(c, "aborted")
    /\ UNCHANGED proc

\* dedup's Encode calls exit(0) after stop() instead.
ExitAfterStop(c) ==
    /\ main[c] = "stopped"
    /\ Exit(c, "exited")
    /\ UNCHANGED proc

-----------------------------------------------------------------------------
(* The message thread: processMessage. *)

Goto(c, from, to) ==
    /\ Alive(c)
    /\ proc[c] = from
    /\ proc' = [proc EXCEPT ![c] = to]

\* connect() and the registration. The message is queued in the socket even
\* when the server is not up yet.
Register(c) ==
    /\ Goto(c, "connect", "poll")
    /\ sendMessage(c, "Start")
    /\ UNCHANGED <<serverVars, toClient, arrived, main, registered, poolVars>>

\* Mutant: the result of poll() is not looked at.
PollInUnchecked(c) ==
    /\ Goto(c, "poll", "header")
    /\ registered' = [registered EXCEPT ![c] = TRUE]
    /\ UNCHANGED <<serverVars, netVars, main, poolVars>>

\* poll() reports POLLIN: something the server sent has arrived.
PollIn(c) ==
    /\ Goto(c, "poll", "header")
    /\ arrived[c] > 0
    /\ registered' = [registered EXCEPT ![c] = TRUE]
    /\ UNCHANGED <<serverVars, netVars, main, poolVars>>

\* Nothing arrived within 1000 ms: the thread returns, and never retries.
PollTimeout(c) ==
    /\ Goto(c, "poll", "returned")
    /\ arrived[c] = 0
    /\ UNCHANGED <<serverVars, netVars, main, registered, poolVars>>

Receive(c) ==
    /\ toClient' = [toClient EXCEPT ![c] = Tail(@)]
    /\ arrived' = [arrived EXCEPT ![c] = @ - 1]

\* recv(&header, ZMQ_RCVMORE). The server sends no delimiter frame, so this
\* takes a whole message if one is there. ZMQ_RCVMORE passed as a flag holds
\* the ZMQ_DONTWAIT bit: with nothing there the call returns at once.
RecvHeader(c) ==
    /\ Goto(c, "header", "message")
    /\ \/ arrived[c] > 0 /\ Receive(c)
       \/ arrived[c] = 0 /\ UNCHANGED <<toClient, arrived>>
    /\ UNCHANGED <<serverVars, toServer, main, registered, poolVars>>

\* recv(&message) blocks for a message, and the switch handles it. Its case
\* for Start is dead code (StartReplyIsSwallowed), so there is no action for it.
RecvStop(c) ==
    /\ Goto(c, "message", "stopped")
    /\ arrived[c] > 0
    /\ Head(toClient[c]).type = "Stop"
    /\ Receive(c)
    /\ main' = [main EXCEPT ![c] = "exited"]
    /\ UNCHANGED <<serverVars, toServer, registered, poolVars>>

RecvUpdate(c) ==
    /\ Goto(c, "message", "allocate")
    /\ arrived[c] > 0
    /\ Head(toClient[c]).type = "Update"
    /\ Receive(c)
    /\ data' = [data EXCEPT ![c] = Head(toClient[c]).data]
    /\ resizing' = [resizing EXCEPT ![c] = 1]
    /\ UNCHANGED <<serverVars, toServer, main, registered, pool, joining>>

\* The default allocator_: setNumThreads on the next pool, whatever the
\* application thread has done to that pool.
SetNumThreads(c) ==
    /\ Goto(c, "allocate", IF resizing[c] = NumPools THEN "header" ELSE "allocate")
    /\ pool' = [pool EXCEPT ![c][resizing[c]] = data[c]]
    /\ resizing' = [resizing EXCEPT ![c] = @ + 1]
    /\ UNCHANGED <<serverVars, netVars, main, registered, joining, data>>

-----------------------------------------------------------------------------
Application(c) ==
    \/ start(c) \/ stop(c) \/ JoinPool(c) \/ CheckRegistered(c)
    \/ DestroyClient(c) \/ ExitAfterStop(c)

\* The steps of the message thread that nothing but its own progress decides.
MessageThread(c) ==
    \/ Register(c) \/ PollIn(c) \/ RecvHeader(c)
    \/ RecvStop(c) \/ RecvUpdate(c) \/ SetNumThreads(c)

Next ==
    \E c \in Client :
        \/ sched(c) \/ Deliver(c)
        \/ Application(c) \/ MessageThread(c) \/ PollTimeout(c)

Spec == Init /\ [][Next]_vars

\* The operating system runs every thread; the server loop and ZeroMQ make
\* progress; an application finishes its work. Whether a poll times out is left
\* open: the real time of the server and the network decides it.
Fairness ==
    \A c \in Client :
        /\ WF_vars(sched(c))
        /\ WF_vars(Deliver(c))
        /\ WF_vars(Application(c))
        /\ WF_vars(MessageThread(c))

FairSpec == Spec /\ Fairness

-----------------------------------------------------------------------------
MainPoint == {"constructed", "working", "joinPools", "checkRegistered",
              "joinThread", "stopped", "exited", "aborted"}
ProcPoint == {"none", "connect", "poll", "returned", "header",
              "message", "allocate", "stopped"}

TypeOK ==
    /\ DOMAIN tasks \subseteq Client
    /\ tasks \in [DOMAIN tasks -> Nat]
    /\ toServer \in [Client -> Seq({"Start", "Stop"})]
    /\ toClient \in [Client -> Seq(Message)]
    /\ arrived \in [Client -> Nat]
    /\ main \in [Client -> MainPoint]
    /\ proc \in [Client -> ProcPoint]
    /\ registered \in [Client -> BOOLEAN]
    /\ pool \in [Client -> [Pool -> Nat]]
    /\ joining \in [Client -> 1..(NumPools + 1)]
    /\ resizing \in [Client -> 1..(NumPools + 1)]
    /\ data \in [Client -> Nat]

Last(q) == q[Len(q)]
Share(t) == UpdateMsg(tasks[t])

\* The clients whose Stop the server has handled.
Departed == {c \in Client : /\ main[c] = "joinThread" \/ proc[c] = "stopped"
                            /\ toServer[c] = <<>>}

(***************************************************************************)
(* Whatever is on its way to a task, the last of it is an Update with the  *)
(* allocation the server has recorded for it: sched re-sends every task's  *)
(* share whenever the shares change.                                       *)
(***************************************************************************)
LastWordIsCurrent ==
    \A t \in DOMAIN tasks : toClient[t] # <<>> => Last(toClient[t]) = Share(t)

(***************************************************************************)
(* The reply to Stop is the last message a client is ever sent: sched pops *)
(* the task before it sends the Updates. A message thread that has thrown  *)
(* this reply away as a "header" therefore waits for ever.                 *)
(***************************************************************************)
StopIsLastWord ==
    \A c \in Client : \A i \in 1..Len(toClient[c]) :
        toClient[c][i].type = "Stop" =>
            /\ i = Len(toClient[c])
            /\ c \notin DOMAIN tasks
            /\ toServer[c] = <<>>

(***************************************************************************)
(* The server's answer to Start never gets to the switch: it is the first  *)
(* message, poll() waits for it, and the message thread takes it for the   *)
(* header. The switch only ever sees an Update or a Stop.                  *)
(***************************************************************************)
StartReplyIsSwallowed ==
    \A c \in Client : \A i \in 1..Len(toClient[c]) :
        toClient[c][i].type = "Start" =>
            /\ i = 1
            /\ proc[c] \in {"poll", "returned", "header"}
            /\ proc[c] = "header" => arrived[c] > 0

(***************************************************************************)
(* Only a client that stop() found unregistered can be gone and still be   *)
(* scheduled: the timeout of poll, or the read of registered_, ran ahead   *)
(* of the server's answer. No client that sent Stop becomes such a ghost.  *)
(***************************************************************************)
GhostsNeverSentStop ==
    \A c \in Client : ~Alive(c) /\ c \in DOMAIN tasks =>
        /\ proc[c] # "stopped"
        /\ \A i \in 1..Len(toServer[c]) : toServer[c][i] # "Stop"

(***************************************************************************)
(* How the two threads of a client, its queues and the server's table hang *)
(* together at every moment: a client is in the table from the handling of *)
(* its Start to the handling of its Stop, whatever its threads have seen of *)
(* that, and a Stop is only on its way while stop() waits for the message  *)
(* thread. With the types and the loop bounds it is inductive.             *)
(***************************************************************************)
LifecycleOf(c) ==
    /\ toServer[c] \in {<<>>, <<"Start">>, <<"Stop">>}
    /\ main[c] = "constructed" => proc[c] = "none"
    /\ proc[c] \in {"none", "connect"} => toServer[c] = <<>>
    /\ proc[c] \in {"none", "connect"} \/ toServer[c] = <<"Start">> =>
          c \notin DOMAIN tasks /\ toClient[c] = <<>>
    /\ registered[c] => /\ proc[c] \in {"header", "message", "allocate", "stopped"}
                        /\ toServer[c] # <<"Start">>
    /\ Alive(c) /\ proc[c] \notin {"none", "connect"} /\ c \notin DOMAIN tasks =>
          toServer[c] = <<"Start">> \/ c \in Departed
    /\ main[c] = "joinThread" => registered[c]
    /\ toServer[c] = <<"Stop">> => main[c] = "joinThread" /\ c \in DOMAIN tasks
    /\ proc[c] = "stopped" => main[c] = "exited" /\ toServer[c] = <<>>
    /\ c \in Departed => c \notin DOMAIN tasks
    /\ \A i \in 1..Len(toClient[c]) : toClient[c][i].type = "Stop" =>
          i = Len(toClient[c]) /\ main[c] = "joinThread" /\ c \in Departed

Lifecycle == \A c \in Client : LifecycleOf(c)

LoopBounds ==
    \A c \in Client :
        /\ arrived[c] <= Len(toClient[c])
        /\ main[c] = "joinPools" => joining[c] <= NumPools
        /\ proc[c] = "allocate" => resizing[c] <= NumPools

(***************************************************************************)
(* The server with its messages implements ShareAllocation.                *)
(***************************************************************************)
Abstract == INSTANCE ShareAllocation WITH alloc <- tasks, departed <- Departed
ImplementsShareAllocation == Abstract!Spec

(***************************************************************************)
(* stop() of a registered client releases its resources in the end.        *)
(***************************************************************************)
StopReleasesResources ==
    \A c \in Client : main[c] = "joinThread" ~> c \notin DOMAIN tasks

\* The next recv of the message thread takes the Stop reply for a header.
DiscardsStop(c) ==
    proc[c] = "header" /\ arrived[c] > 0 /\ Head(toClient[c]).type = "Stop"

(***************************************************************************)
(* A client that has sent its Stop and waits for its message thread ends   *)
(* by exit(0) in that thread, unless the thread takes the Stop reply for a *)
(* header: there is no other way for the shutdown to hang.                 *)
(***************************************************************************)
StopExitsOrIsDiscarded ==
    \A c \in Client :
        toServer[c] = <<"Stop">> ~> main[c] = "exited" \/ DiscardsStop(c)

(***************************************************************************)
(* "If registered with server, send a stop message and join": the shutdown *)
(* of a registered client ends.                                            *)
(***************************************************************************)
StopEnds == \A c \in Client : main[c] = "joinThread" ~> main[c] = "exited"

(***************************************************************************)
(* "Join all the pool threads": after the loop over the pools in stop() no *)
(* pool has a thread.                                                      *)
(***************************************************************************)
JoinedPoolsAreEmpty ==
    \A c \in Client : main[c] \in {"checkRegistered", "joinThread", "stopped"} =>
        \A p \in Pool : pool[c][p] = 0
=============================================================================
