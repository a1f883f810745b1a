------------------------ MODULE TurkeyProtocolProofs ------------------------
(***************************************************************************)
(* Proofs about TurkeyProtocol for any finite set of clients, any number   *)
(* of resources, pools and default threads.                                *)
(***************************************************************************)
EXTENDS TurkeyProtocol, FiniteSetTheorems, TLAPS

IndInv == TypeOK /\ LoopBounds /\ Lifecycle

-----------------------------------------------------------------------------
(* Facts about the operators. *)

(* The queues of a client hold at most one message to the server, so their  *)
(* ends are simple.                                                         *)
LEMMA QueueEnds ==
    ASSUME NEW m
    PROVE  /\ Append(<<>>, m) = <<m>>
           /\ Tail(<<m>>) = <<>>
           /\ Head(<<m>>) = m
           /\ <<m>> # <<>>
  OBVIOUS

(* Receiving the first message of a queue leaves the others, the last one  *)
(* in its place.                                                           *)
LEMMA TailFacts ==
    ASSUME NEW S, NEW q \in Seq(S), q # <<>>
    PROVE  /\ Tail(q) \in Seq(S)
           /\ Len(Tail(q)) = Len(q) - 1
           /\ Len(q) \in Nat \ {0}
           /\ \A i \in 1..Len(Tail(q)) : Tail(q)[i] = q[i + 1]
           /\ Head(q) \in S /\ Head(q) = q[1]
  OBVIOUS

(* Sending appends at the end.                                             *)
LEMMA AppendFacts ==
    ASSUME NEW S, NEW q \in Seq(S), NEW m \in S
    PROVE  /\ Append(q, m) \in Seq(S)
           /\ Len(Append(q, m)) = Len(q) + 1
           /\ Len(q) \in Nat
           /\ Append(q, m)[Len(q) + 1] = m
           /\ \A i \in 1..Len(q) : Append(q, m)[i] = q[i]
           /\ Append(q, m) # <<>>
  OBVIOUS

(* Cutting a queue of at most one message keeps all of it or nothing.      *)
LEMMA CutFacts ==
    ASSUME NEW q \in {<<>>, <<"Start">>, <<"Stop">>}, NEW k \in 0..Len(q)
    PROVE  SubSeq(q, 1, k) \in {<<>>, q}
  OBVIOUS

(* The rounded-down share of n tasks exceeds the resources by nothing and   *)
(* leaves less than one unit per task unused.                               *)
LEMMA ShareFacts ==
    ASSUME NEW n \in Nat \ {0}
    PROVE  LET q == Resources \div n
           IN  q \in 0..Resources /\ q * n <= Resources /\ Resources < (q + 1) * n
  BY ResourcesAssumption

(* Scheduler.schedule divides the resources equally over the tasks.        *)
LEMMA ScheduleFacts ==
    ASSUME NEW ids \in SUBSET Client
    PROVE  /\ schedule(ids) \in [ids -> 0..Resources]
           /\ schedule(ids) \in Abstract!EqualDivision(ids)
  <1>1. CASE ids = {}
    BY <1>1 DEF schedule, Abstract!EqualDivision
  <1>2. CASE ids # {}
    <2>1. IsFiniteSet(ids)
      BY ClientAssumption, FS_Subset
    <2>2. Cardinality(ids) \in Nat \ {0}
      BY <1>2, <2>1, FS_CardinalityType, FS_EmptySet
    <2>3. Abstract!Cardinality(ids) = Cardinality(ids)
      BY DEF Cardinality, Abstract!Cardinality
    <2>. QED  BY <2>2, <2>3, ShareFacts DEF schedule, Abstract!EqualDivision
  <1>. QED  BY <1>1, <1>2

(* What sched sends keeps every queue a queue of messages, no shorter than  *)
(* it was.                                                                  *)
LEMMA SendsFacts ==
    ASSUME TypeOK, NEW c \in Client, NEW reply \in {StartMsg, StopMsg},
           NEW ids \in SUBSET Client
    PROVE  LET sent == Sends(c, reply, schedule(ids))
           IN  /\ sent \in [Client -> Seq(Message)]
               /\ \A t \in Client : Len(toClient[t]) <= Len(sent[t])
  <1>. DEFINE alloc == schedule(ids)
              replied == [toClient EXCEPT ![c] = Append(@, reply)]
  <1>1. reply \in Message
    BY DEF StartMsg, StopMsg, Message
  <1>2. /\ replied \in [Client -> Seq(Message)]
        /\ \A t \in Client : Len(toClient[t]) <= Len(replied[t])
    <2>. SUFFICES ASSUME NEW t \in Client
                  PROVE  replied[t] \in Seq(Message) /\ Len(toClient[t]) <= Len(replied[t])
      BY DEF TypeOK
    <2>. toClient[t] \in Seq(Message)
      BY DEF TypeOK
    <2>1. CASE t = c
      BY <1>1, <2>1, AppendFacts DEF TypeOK
    <2>2. CASE t # c
      BY <2>2 DEF TypeOK
    <2>. QED  BY <2>1, <2>2
  <1>3. \A t \in ids : UpdateMsg(alloc[t]) \in Message
    BY ScheduleFacts, ResourcesAssumption DEF UpdateMsg, Message
  <1>4. DOMAIN alloc = ids
    BY DEF schedule
  <1>. HIDE DEF alloc, replied
  <1>. SUFFICES ASSUME NEW t \in Client
                PROVE  LET q == IF t \in DOMAIN alloc
                                THEN Append(replied[t], UpdateMsg(alloc[t])) ELSE replied[t]
                       IN  q \in Seq(Message) /\ Len(toClient[t]) <= Len(q)
    BY DEF Sends, alloc, replied
  <1>5. replied[t] \in Seq(Message) /\ Len(toClient[t]) <= Len(replied[t]) /\ Len(toClient[t]) \in Nat
    BY <1>2 DEF TypeOK
  <1>6. CASE t \in DOMAIN alloc
    BY <1>3, <1>4, <1>5, <1>6, AppendFacts
  <1>7. CASE t \notin DOMAIN alloc
    BY <1>5, <1>7
  <1>. QED  BY <1>6, <1>7

-----------------------------------------------------------------------------
(* The types and the loop bounds. *)

(* Every step of client and server keeps them. *)
LEMMA TypeStep ==
    ASSUME TypeOK, LoopBounds, [Next]_vars
    PROVE  TypeOK' /\ LoopBounds'
  <1>. USE DEF TypeOK, LoopBounds, MainPoint, ProcPoint,
              serverVars, netVars, poolVars, clientVars, Pool
  <1>1. ASSUME NEW c \in Client, sched(c)
        PROVE  TypeOK' /\ LoopBounds'
    <2>1. PICK ids \in SUBSET Client, reply \in {StartMsg, StopMsg} :
              tasks' = schedule(ids) /\ toClient' = Sends(c, reply, schedule(ids))
      <3>1. CASE Head(toServer[c]) = "Start"
        BY <1>1, <3>1 DEF sched
      <3>2. CASE Head(toServer[c]) = "Stop"
        BY <1>1, <3>2 DEF sched
      <3>. QED  BY <1>1, <3>1, <3>2 DEF sched
    <2>2. DOMAIN tasks' = ids /\ tasks' \in [ids -> Nat]
      <3>1. schedule(ids) \in [ids -> 0..Resources]
        BY ScheduleFacts
      <3>2. 0..Resources \subseteq Nat
        BY ResourcesAssumption
      <3>. QED  BY <2>1, <3>1, <3>2
    <2>3. /\ toClient' \in [Client -> Seq(Message)]
          /\ \A t \in Client : Len(toClient[t]) <= Len(toClient'[t])
      BY <2>1, SendsFacts
    <2>4. toServer' \in [Client -> Seq({"Start", "Stop"})]
      <3>1. toServer[c] \in Seq({"Start", "Stop"}) /\ toServer[c] # <<>>
        BY <1>1 DEF sched
      <3>2. Tail(toServer[c]) \in Seq({"Start", "Stop"})
        BY <3>1, TailFacts
      <3>. QED  BY <1>1, <3>2 DEF sched
    <2>5. TypeOK'
      BY <1>1, <2>2, <2>3, <2>4 DEF sched
    <2>6. LoopBounds'
      <3>1. UNCHANGED <<arrived, main, proc, joining, resizing>>
        BY <1>1 DEF sched
      <3>2. ASSUME NEW t \in Client
            PROVE  arrived[t] <= Len(toClient'[t])
        <4>1. /\ Len(toClient[t]) \in Nat /\ Len(toClient'[t]) \in Nat
              /\ arrived[t] \in Nat /\ arrived[t] <= Len(toClient[t])
          BY <2>3
        <4>. QED  BY <2>3, <4>1
      <3>. QED  BY <3>1, <3>2
    <2>. QED  BY <2>5, <2>6
  <1>2. ASSUME NEW c \in Client, Deliver(c)
        PROVE  TypeOK' /\ LoopBounds'
    BY <1>2 DEF Deliver
  <1>3. ASSUME NEW c \in Client, Application(c)
        PROVE  TypeOK' /\ LoopBounds'
    <2>1. CASE start(c)
      BY <2>1 DEF start
    <2>2. CASE stop(c)
      <3>1. main' \in [Client -> MainPoint]
        BY <2>2 DEF stop
      <3>2. joining' \in [Client -> 1..(NumPools + 1)] /\ joining'[c] <= NumPools
        BY <2>2, PoolAssumption DEF stop
      <3>3. \A t \in Client : t # c => main'[t] = main[t] /\ joining'[t] = joining[t]
        BY <2>2 DEF stop
      <3>. QED  BY <2>2, <3>1, <3>2, <3>3 DEF stop
    <2>3. CASE JoinPool(c)
      <3>1. pool' \in [Client -> [Pool -> Nat]]
        BY <2>3 DEF JoinPool
      <3>2. joining[c] \in 1..NumPools /\ NumPools \in Nat
        BY <2>3, PoolAssumption DEF JoinPool
      <3>3. joining' \in [Client -> 1..(NumPools + 1)]
        BY <2>3, <3>2 DEF JoinPool
      <3>4. ASSUME NEW d \in Client, main'[d] = "joinPools"
            PROVE  joining'[d] <= NumPools
        <4>1. CASE d = c
          BY <2>3, <3>2, <3>4, <4>1 DEF JoinPool
        <4>2. CASE d # c
          BY <2>3, <3>4, <4>2 DEF JoinPool
        <4>. QED  BY <4>1, <4>2
      <3>5. main' \in [Client -> MainPoint]
        BY <2>3 DEF JoinPool
      <3>. QED  BY <2>3, <3>1, <3>3, <3>4, <3>5 DEF JoinPool
    <2>4. CASE CheckRegistered(c)
      <3>1. toServer' \in [Client -> Seq({"Start", "Stop"})]
        <4>1. Append(toServer[c], "Stop") \in Seq({"Start", "Stop"})
          BY AppendFacts
        <4>2. \/ toServer' = [toServer EXCEPT ![c] = Append(toServer[c], "Stop")]
              \/ UNCHANGED toServer
          BY <2>4 DEF CheckRegistered, sendMessage
        <4>. QED  BY <4>1, <4>2
      <3>2. main' \in [Client -> MainPoint]
        BY <2>4 DEF CheckRegistered
      <3>. QED  BY <2>4, <3>1, <3>2 DEF CheckRegistered
    <2>5. ASSUME NEW how \in {"exited", "aborted"}, Exit(c, how), UNCHANGED proc
          PROVE  TypeOK' /\ LoopBounds'
      BY <2>5 DEF Exit
    <2>6. CASE DestroyClient(c)
      BY <2>5, <2>6 DEF DestroyClient
    <2>7. CASE ExitAfterStop(c)
      BY <2>5, <2>7 DEF ExitAfterStop
    <2>. QED  BY <1>3, <2>1, <2>2, <2>3, <2>4, <2>6, <2>7 DEF Application
  <1>4. ASSUME NEW c \in Client, MessageThread(c)
        PROVE  TypeOK' /\ LoopBounds'
    <2>0. ASSUME Receive(c), arrived[c] > 0
          PROVE  /\ toClient' \in [Client -> Seq(Message)]
                 /\ arrived' \in [Client -> Nat]
                 /\ \A t \in Client : arrived'[t] <= Len(toClient'[t])
                 /\ Head(toClient[c]) \in Message
      <3>1. toClient[c] \in Seq(Message) /\ toClient[c] # <<>>
        BY <2>0
      <3>. QED  BY <2>0, <3>1, TailFacts DEF Receive
    <2>1. CASE Register(c)
      <3>1. Append(toServer[c], "Start") \in Seq({"Start", "Stop"})
        BY AppendFacts
      <3>. QED  BY <2>1, <3>1 DEF Register, Goto, sendMessage
    <2>2. CASE PollIn(c)
      BY <2>2 DEF PollIn, Goto
    <2>3. CASE RecvHeader(c)
      BY <2>3, <2>0 DEF RecvHeader, Goto
    <2>5. CASE RecvStop(c)
      BY <2>5, <2>0 DEF RecvStop, Goto
    <2>6. CASE RecvUpdate(c)
      <3>1. data' \in [Client -> Nat]
        BY <2>6, <2>0 DEF RecvUpdate, Message
      <3>2. /\ resizing' \in [Client -> 1..(NumPools + 1)]
            /\ \A d \in Client : proc'[d] = "allocate" => resizing'[d] <= NumPools
        BY <2>6, PoolAssumption DEF RecvUpdate, Goto
      <3>. QED  BY <2>6, <2>0, <3>1, <3>2 DEF RecvUpdate, Goto
    <2>7. CASE SetNumThreads(c)
      <3>1. pool' \in [Client -> [Pool -> Nat]]
        BY <2>7 DEF SetNumThreads
      <3>2. /\ resizing' \in [Client -> 1..(NumPools + 1)]
            /\ \A d \in Client : proc'[d] = "allocate" => resizing'[d] <= NumPools
        <4>1. resizing[c] \in 1..NumPools /\ NumPools \in Nat
          BY <2>7, PoolAssumption DEF SetNumThreads, Goto
        <4>2. resizing' \in [Client -> 1..(NumPools + 1)]
          BY <2>7, <4>1 DEF SetNumThreads
        <4>3. ASSUME NEW d \in Client, proc'[d] = "allocate"
              PROVE  resizing'[d] <= NumPools
          <5>1. CASE d = c
            BY <2>7, <4>1, <4>3, <5>1 DEF SetNumThreads, Goto
          <5>2. CASE d # c
            BY <2>7, <4>3, <5>2 DEF SetNumThreads, Goto
          <5>. QED  BY <5>1, <5>2
        <4>. QED  BY <4>2, <4>3
      <3>. QED  BY <2>7, <3>1, <3>2 DEF SetNumThreads, Goto
    <2>. QED  BY <1>4, <2>1, <2>2, <2>3, <2>5, <2>6, <2>7 DEF MessageThread
  <1>5. ASSUME NEW c \in Client, PollTimeout(c)
        PROVE  TypeOK' /\ LoopBounds'
    BY <1>5 DEF PollTimeout, Goto
  <1>6. CASE UNCHANGED vars
    BY <1>6 DEF vars
  <1>. QED  BY <1>1, <1>2, <1>3, <1>4, <1>5, <1>6 DEF Next

-----------------------------------------------------------------------------
(* The lifecycle of a client. *)

(* A step that touches neither a client's threads nor its queues nor its    *)
(* place in the server's table keeps its lifecycle.                         *)
LEMMA Frame ==
    ASSUME NEW d \in Client, LifecycleOf(d),
           main'[d] = main[d], proc'[d] = proc[d], registered'[d] = registered[d],
           toServer'[d] = toServer[d], toClient'[d] = toClient[d],
           (d \in DOMAIN tasks') = (d \in DOMAIN tasks)
    PROVE  LifecycleOf(d)'
  BY DEF LifecycleOf, Departed, Alive

(* sched on a Start or a Stop of client c.                                 *)
LEMMA SchedLifecycle ==
    ASSUME IndInv, TypeOK', NEW c \in Client, sched(c), NEW d \in Client
    PROVE  LifecycleOf(d)'
  <1>. LifecycleOf(c) /\ LifecycleOf(d) /\ TypeOK
    BY DEF IndInv, Lifecycle
  <1>1. toServer[c] \in {<<"Start">>, <<"Stop">>}
    BY DEF sched, LifecycleOf
  <1>2. toServer'[c] = <<>> /\ Head(toServer[c]) \in {"Start", "Stop"}
    BY <1>1, QueueEnds DEF sched, TypeOK
  <1>3. \A ids : DOMAIN schedule(ids) = ids
    BY DEF schedule
  <1>4. UNCHANGED <<main, proc, registered>> /\ \A t \in Client : t # c => toServer'[t] = toServer[t]
    BY DEF sched, clientVars, TypeOK
  <1>5. ASSUME d # c
        PROVE  LifecycleOf(d)'
    <2>1. (d \in DOMAIN tasks') = (d \in DOMAIN tasks)
      BY <1>2, <1>3, <1>5 DEF sched
    <2>2. CASE d \notin DOMAIN tasks
      <3>1. toClient'[d] = toClient[d]
        BY <1>2, <1>5, <2>1, <2>2 DEF sched, Sends, TypeOK
      <3>. QED  BY <1>4, <1>5, <2>1, <3>1, Frame
    <2>3. CASE d \in DOMAIN tasks
      <3>1. toClient'[d] = Append(toClient[d], UpdateMsg(tasks'[d]))
        BY <1>2, <1>5, <2>1, <2>3 DEF sched, Sends, TypeOK
      <3>2. UpdateMsg(tasks'[d]) \in Message /\ UpdateMsg(tasks'[d]).type = "Update"
        BY <2>1, <2>3 DEF TypeOK, UpdateMsg, Message
      <3>3. \A i \in 1..Len(toClient'[d]) : toClient'[d][i].type # "Stop"
        <4>1. toClient[d] \in Seq(Message)
          BY DEF TypeOK
        <4>2. \A i \in 1..Len(toClient[d]) : toClient[d][i].type # "Stop"
          BY <2>3 DEF LifecycleOf
        <4>. QED  BY <3>1, <3>2, <4>1, <4>2, AppendFacts
      <3>. QED  BY <1>4, <1>5, <2>1, <2>3, <3>3 DEF LifecycleOf, Departed, Alive
    <2>. QED  BY <2>2, <2>3
  <1>6. CASE d = c /\ toServer[c] = <<"Start">>
    <2>1. Head(toServer[c]) = "Start" /\ toClient[c] = <<>>
      BY <1>6, QueueEnds DEF LifecycleOf
    <2>2. c \in DOMAIN tasks'
      BY <1>3, <2>1 DEF sched
    <2>3. toClient'[c] = Append(Append(<<>>, StartMsg), UpdateMsg(tasks'[c]))
      BY <2>1, <2>2 DEF sched, Sends, TypeOK
    <2>5. \A i \in 1..Len(toClient'[c]) : toClient'[c][i].type # "Stop"
      <3>1. /\ StartMsg \in Message /\ StartMsg.type = "Start"
            /\ UpdateMsg(tasks'[c]) \in Message /\ UpdateMsg(tasks'[c]).type = "Update"
        BY <2>2 DEF TypeOK, StartMsg, UpdateMsg, Message
      <3>. DEFINE q == Append(<<>>, StartMsg)
      <3>2. q \in Seq(Message) /\ Len(q) = 1 /\ q[1] = StartMsg
        BY <3>1
      <3>3. \A i \in 1..Len(q) : q[i].type # "Stop"
        BY <3>1, <3>2
      <3>. HIDE DEF q
      <3>. QED  BY <2>3, <3>1, <3>2, <3>3, AppendFacts DEF q
    <2>6. main[c] # "joinThread" /\ proc[c] # "stopped" /\ proc[c] \notin {"none", "connect"}
          /\ main[c] # "constructed"
      BY <1>6, QueueEnds DEF LifecycleOf
    <2>. QED  BY <1>2, <1>4, <1>6, <2>2, <2>5, <2>6, QueueEnds DEF LifecycleOf, Departed, Alive
  <1>7. CASE d = c /\ toServer[c] = <<"Stop">>
    <2>1. Head(toServer[c]) = "Stop" /\ toServer[c] # <<"Start">> /\ toServer[c] # <<>>
      BY <1>7, QueueEnds
    <2>2. c \notin DOMAIN tasks'
      BY <1>3, <2>1 DEF sched
    <2>3. toClient'[c] = Append(toClient[c], StopMsg)
      BY <2>1, <2>2 DEF sched, Sends, TypeOK
    <2>4. main[c] = "joinThread" /\ registered[c] /\ c \in Departed'
      BY <1>2, <1>4, <1>7, <2>1 DEF LifecycleOf, Departed
    <2>5. \A i \in 1..Len(toClient'[c]) :
              toClient'[c][i].type = "Stop" => i = Len(toClient'[c])
      <3>1. toClient[c] \in Seq(Message) /\ StopMsg \in Message
        BY DEF TypeOK, StopMsg, Message
      <3>2. \A i \in 1..Len(toClient[c]) : toClient[c][i].type # "Stop"
        BY <2>1 DEF LifecycleOf, Departed
      <3>. QED  BY <2>3, <3>1, <3>2, AppendFacts
    <2>6. proc[c] \notin {"none", "connect", "stopped"} /\ main[c] # "constructed"
      BY <2>1, <2>4 DEF LifecycleOf
    <2>. QED  BY <1>2, <1>4, <1>7, <2>2, <2>4, <2>5, <2>6, QueueEnds DEF LifecycleOf, Alive
  <1>. QED  BY <1>1, <1>5, <1>6, <1>7

(* A step of the application thread of client c.                           *)
LEMMA ApplicationLifecycle ==
    ASSUME IndInv, NEW c \in Client, Application(c), NEW d \in Client
    PROVE  LifecycleOf(d)'
  <1>. LifecycleOf(c) /\ LifecycleOf(d) /\ TypeOK
    BY DEF IndInv, Lifecycle
  <1>. USE QueueEnds DEF serverVars, netVars, poolVars, clientVars, TypeOK
  <1>1. CASE start(c)
    BY <1>1 DEF start, LifecycleOf, Departed, Alive
  <1>2. CASE stop(c)
    BY <1>2 DEF stop, LifecycleOf, Departed, Alive
  <1>3. CASE JoinPool(c)
    BY <1>3 DEF JoinPool, LifecycleOf, Departed, Alive
  <1>4. CASE CheckRegistered(c)
    <2>1. CASE registered[c]
      <3>1. toServer[c] = <<>>
        BY <1>4, <2>1 DEF CheckRegistered, LifecycleOf
      <3>2. CASE d = c
        <4>1. /\ main[c] = "checkRegistered" /\ main'[c] = "joinThread"
              /\ toServer'[c] = <<"Stop">>
              /\ UNCHANGED <<tasks, toClient, proc, registered>>
          BY <1>4, <2>1, <3>1 DEF CheckRegistered, sendMessage
        <4>2. c \in DOMAIN tasks /\ proc[c] \in {"header", "message", "allocate"}
          BY <2>1, <3>1, <4>1 DEF LifecycleOf, Departed, Alive
        <4>3. \A i \in 1..Len(toClient[c]) : toClient[c][i].type # "Stop"
          BY <4>1 DEF LifecycleOf
        <4>4. toServer'[c] # <<>> /\ toServer'[c] # <<"Start">>
          BY <4>1
        <4>. QED  BY <2>1, <3>2, <4>1, <4>2, <4>3, <4>4 DEF LifecycleOf, Departed, Alive
      <3>3. CASE d # c
        BY <1>4, <2>1, <3>3, Frame DEF CheckRegistered, sendMessage
      <3>. QED  BY <3>2, <3>3
    <2>2. CASE ~registered[c]
      BY <1>4, <2>2 DEF CheckRegistered, LifecycleOf, Departed, Alive
    <2>. QED  BY <2>1, <2>2
  <1>5. ASSUME NEW how \in {"exited", "aborted"}, Exit(c, how), UNCHANGED proc, main[c] = "stopped"
        PROVE  LifecycleOf(d)'
    <2>1. toServer'[c] \in {<<>>, toServer[c]}
      <3>1. PICK k \in 0..Len(toServer[c]) : toServer'[c] = SubSeq(toServer[c], 1, k)
        BY <1>5 DEF Exit
      <3>2. toServer[c] \in {<<>>, <<"Start">>, <<"Stop">>}
        BY DEF LifecycleOf
      <3>. QED  BY <3>1, <3>2, CutFacts
    <2>2. CASE d = c
      BY <1>5, <2>1, <2>2 DEF Exit, LifecycleOf, Departed, Alive
    <2>3. CASE d # c
      BY <1>5, <2>3, Frame DEF Exit
    <2>. QED  BY <2>2, <2>3
  <1>. QED
    BY <1>1, <1>2, <1>3, <1>4, <1>5 DEF Application, DestroyClient, ExitAfterStop

(* A step of the message thread of client c, or the delivery of a message. *)
LEMMA MessageThreadLifecycle ==
    ASSUME IndInv, NEW c \in Client,
           MessageThread(c) \/ PollTimeout(c) \/ Deliver(c), NEW d \in Client
    PROVE  LifecycleOf(d)'
  <1>. LifecycleOf(c) /\ LifecycleOf(d) /\ TypeOK /\ LoopBounds
    BY DEF IndInv, Lifecycle
  <1>. USE QueueEnds DEF serverVars, netVars, poolVars, clientVars, TypeOK
  <1>0. ASSUME Receive(c), arrived[c] > 0
        PROVE  /\ toClient[c] # <<>> /\ Head(toClient[c]) = toClient[c][1]
               /\ 1 \in 1..Len(toClient[c])
               /\ \A i \in 1..Len(toClient'[c]) :
                     /\ i + 1 \in 1..Len(toClient[c])
                     /\ toClient'[c][i] = toClient[c][i + 1]
                     /\ i + 1 = Len(toClient[c]) => i = Len(toClient'[c])
               /\ \A t \in Client : t # c => toClient'[t] = toClient[t]
    <2>1. toClient[c] \in Seq(Message) /\ toClient[c] # <<>>
      BY <1>0 DEF LoopBounds
    <2>2. toClient'[c] = Tail(toClient[c])
      BY <1>0 DEF Receive
    <2>3. \A t \in Client : t # c => toClient'[t] = toClient[t]
      BY <1>0 DEF Receive
    <2>4. /\ Len(toClient'[c]) = Len(toClient[c]) - 1
          /\ Len(toClient[c]) \in Nat \ {0}
          /\ \A i \in 1..Len(toClient'[c]) : toClient'[c][i] = toClient[c][i + 1]
          /\ Head(toClient[c]) = toClient[c][1]
      BY <2>1, <2>2, TailFacts
    <2>. HIDE QueueEnds DEF TypeOK
    <2>. QED  BY <2>1, <2>3, <2>4
  <1>1. CASE Register(c)
    <2>1. toServer[c] = <<>>
      BY <1>1 DEF Register, Goto, LifecycleOf
    <2>2. CASE d = c
      BY <1>1, <2>1, <2>2 DEF Register, Goto, sendMessage, LifecycleOf, Departed, Alive
    <2>3. CASE d # c
      BY <1>1, <2>3, Frame DEF Register, Goto, sendMessage
    <2>. QED  BY <2>2, <2>3
  <1>2. CASE PollIn(c)
    <2>1. toClient[c] # <<>>
      BY <1>2 DEF PollIn, LoopBounds
    <2>. QED  BY <1>2, <2>1 DEF PollIn, Goto, LifecycleOf, Departed, Alive
  <1>3. ASSUME Receive(c), arrived[c] > 0, proc[c] \in {"header", "message"},
               proc'[c] \in {"header", "message", "allocate"},
               UNCHANGED <<tasks, toServer, main, registered>>,
               \A t \in Client : t # c => proc'[t] = proc[t]
        PROVE  LifecycleOf(d)'
    <2>1. CASE d # c
      BY <1>0, <1>3, <2>1, Frame
    <2>2. CASE d = c
      <3>1. ASSUME NEW i \in 1..Len(toClient'[c]), toClient'[c][i].type = "Stop"
            PROVE  i = Len(toClient'[c]) /\ main[c] = "joinThread" /\ c \in Departed
        <4>1. /\ i + 1 \in 1..Len(toClient[c])
              /\ toClient'[c][i] = toClient[c][i + 1]
              /\ i + 1 = Len(toClient[c]) => i = Len(toClient'[c])
          BY <1>0, <1>3
        <4>2. toClient[c][i + 1].type = "Stop"
          BY <3>1, <4>1
        <4>3. \A j \in 1..Len(toClient[c]) : toClient[c][j].type = "Stop" =>
                  j = Len(toClient[c]) /\ main[c] = "joinThread" /\ c \in Departed
          BY DEF LifecycleOf
        <4>. QED  BY <4>1, <4>2, <4>3
      <3>2. (c \in Departed') = (c \in Departed)
        BY <1>3 DEF Departed
      <3>3. toServer[c] # <<"Start">>
        BY <1>0, <1>3 DEF LifecycleOf
      <3>. QED  BY <1>3, <2>2, <3>1, <3>2, <3>3 DEF LifecycleOf, Alive
    <2>. QED  BY <2>1, <2>2
  <1>4. CASE RecvHeader(c)
    <2>1. CASE arrived[c] > 0
      BY <1>3, <1>4, <2>1 DEF RecvHeader, Goto
    <2>2. CASE ~(arrived[c] > 0)
      BY <1>4, <2>2 DEF RecvHeader, Goto, LifecycleOf, Departed, Alive
    <2>. QED  BY <2>1, <2>2
  <1>5. CASE RecvUpdate(c)
    BY <1>3, <1>5 DEF RecvUpdate, Goto
  <1>6. CASE RecvStop(c)
    <2>1. CASE d # c
      BY <1>0, <1>6, <2>1, Frame DEF RecvStop, Goto
    <2>2. CASE d = c
      <3>1. /\ Len(toClient[c]) = 1 /\ main[c] = "joinThread" /\ c \in Departed
            /\ \A i \in 1..Len(toClient'[c]) : i + 1 \in 1..Len(toClient[c])
        BY <1>0, <1>6 DEF RecvStop, LifecycleOf
      <3>2. ~ \E i \in 1..Len(toClient'[c]) : TRUE
        BY <3>1
      <3>3. toServer[c] = <<>> /\ registered[c] /\ c \notin DOMAIN tasks
        BY <1>6, <3>1 DEF LifecycleOf, Departed, RecvStop, Goto
      <3>4. /\ UNCHANGED <<tasks, toServer, registered>>
            /\ main'[c] = "exited" /\ proc'[c] = "stopped"
        BY <1>6 DEF RecvStop, Goto
      <3>. QED  BY <2>2, <3>2, <3>3, <3>4 DEF LifecycleOf, Departed, Alive
    <2>. QED  BY <2>1, <2>2
  <1>7. CASE SetNumThreads(c)
    BY <1>7 DEF SetNumThreads, Goto, LifecycleOf, Departed, Alive
  <1>8. CASE PollTimeout(c)
    BY <1>8 DEF PollTimeout, Goto, LifecycleOf, Departed, Alive
  <1>9. CASE Deliver(c)
    BY <1>9, Frame DEF Deliver
  <1>. QED
    BY <1>1, <1>2, <1>3, <1>4, <1>5, <1>6, <1>7, <1>8, <1>9 DEF MessageThread

-----------------------------------------------------------------------------
(* The inductive invariant and what follows from it. *)

(* The invariant holds when nothing has been started. *)
LEMMA InitIndInv == Init => IndInv
  <1>. SUFFICES ASSUME Init PROVE IndInv
    OBVIOUS
  <1>. USE PoolAssumption DEF Init
  <1>1. TypeOK
    BY DEF TypeOK, MainPoint, ProcPoint, Pool
  <1>2. LoopBounds
    BY DEF LoopBounds
  <1>3. Lifecycle
    BY DEF Lifecycle, LifecycleOf, Departed, Alive
  <1>. QED  BY <1>1, <1>2, <1>3 DEF IndInv

(* Every step of client and server keeps it. *)
LEMMA NextIndInv == IndInv /\ [Next]_vars => IndInv'
  <1>. SUFFICES ASSUME IndInv, [Next]_vars PROVE IndInv'
    OBVIOUS
  <1>1. TypeOK' /\ LoopBounds'
    BY TypeStep DEF IndInv
  <1>2. ASSUME NEW d \in Client
        PROVE  LifecycleOf(d)'
    <2>1. CASE UNCHANGED vars
      BY <2>1, Frame DEF IndInv, Lifecycle, vars, serverVars, netVars, clientVars
    <2>2. CASE Next
      BY <1>1, <2>2, SchedLifecycle, ApplicationLifecycle, MessageThreadLifecycle DEF Next
    <2>. QED  BY <2>1, <2>2
  <1>3. Lifecycle'
    BY <1>2 DEF Lifecycle
  <1>. QED  BY <1>1, <1>3 DEF IndInv

(* The inductive invariant holds in every reachable state: types, loop     *)
(* bounds, and the lifecycle of every client.                              *)
THEOREM Invariance == Spec => []IndInv
  BY InitIndInv, NextIndInv, PTL DEF Spec

(* The state of client and server is well typed, for every number of       *)
(* clients, resources and pools.                                           *)
THEOREM TypeCorrect == Spec => []TypeOK
  <1>1. IndInv => TypeOK
    BY DEF IndInv
  <1>. QED  BY <1>1, Invariance, PTL

(* Every client keeps to its lifecycle.                                    *)
THEOREM LifecycleHolds == Spec => []Lifecycle
  <1>1. IndInv => Lifecycle
    BY DEF IndInv
  <1>. QED  BY <1>1, Invariance, PTL

(* A process that is gone and still scheduled never sent a Stop.           *)
THEOREM Ghosts == Spec => []GhostsNeverSentStop
  <1>1. IndInv => GhostsNeverSentStop
    <2>. SUFFICES ASSUME IndInv, NEW c \in Client, ~Alive(c), c \in DOMAIN tasks
                  PROVE  /\ proc[c] # "stopped"
                         /\ \A i \in 1..Len(toServer[c]) : toServer[c][i] # "Stop"
      BY DEF GhostsNeverSentStop
    <2>1. LifecycleOf(c)
      BY DEF IndInv, Lifecycle
    <2>2. toServer[c] \in {<<>>, <<"Start">>} /\ c \notin Departed
      BY <2>1 DEF LifecycleOf, Alive
    <2>. QED  BY <2>1, <2>2 DEF LifecycleOf, Departed
  <1>. QED  BY <1>1, Invariance, PTL

(* The reply to Stop is the last message a client is sent.                 *)
THEOREM LastReply == Spec => []StopIsLastWord
  <1>1. IndInv => StopIsLastWord
    BY DEF IndInv, Lifecycle, LifecycleOf, StopIsLastWord, Departed
  <1>. QED  BY <1>1, Invariance, PTL

(* The last message on its way to a task carries its current allocation.   *)
THEOREM CurrentShareSent == Spec => []LastWordIsCurrent
  <1>1. Init => LastWordIsCurrent
    BY DEF Init, LastWordIsCurrent
  <1>2. IndInv /\ IndInv' /\ LastWordIsCurrent /\ [Next]_vars => LastWordIsCurrent'
    <2>. SUFFICES ASSUME IndInv, IndInv', LastWordIsCurrent, [Next]_vars,
                         NEW t \in DOMAIN tasks', toClient'[t] # <<>>
                  PROVE  Last(toClient'[t]) = UpdateMsg(tasks'[t])
      BY DEF LastWordIsCurrent, Share
    <2>. TypeOK /\ TypeOK' /\ LoopBounds
      BY DEF IndInv
    <2>0. t \in Client
      BY DEF TypeOK
    <2>1. ASSUME NEW c \in Client, sched(c)
          PROVE  Last(toClient'[t]) = UpdateMsg(tasks'[t])
      <3>1. PICK reply \in {StartMsg, StopMsg} : toClient' = Sends(c, reply, tasks')
        BY <2>1 DEF sched
      <3>. DEFINE replied == [toClient EXCEPT ![c] = Append(@, reply)]
      <3>2. replied[t] \in Seq(Message)
        <4>1. reply \in Message
          BY DEF StartMsg, StopMsg, Message
        <4>2. toClient[t] \in Seq(Message)
          BY <2>0 DEF TypeOK
        <4>. QED  BY <2>0, <4>1, <4>2, AppendFacts DEF TypeOK
      <3>3. toClient'[t] = Append(replied[t], UpdateMsg(tasks'[t]))
        BY <2>0, <3>1 DEF Sends
      <3>4. UpdateMsg(tasks'[t]) \in Message
        BY DEF TypeOK, UpdateMsg, Message
      <3>. HIDE DEF replied
      <3>. QED  BY <3>2, <3>3, <3>4, AppendFacts DEF Last
    <2>2. ASSUME UNCHANGED <<tasks, toClient>>
          PROVE  Last(toClient'[t]) = UpdateMsg(tasks'[t])
      BY <2>2 DEF LastWordIsCurrent, Share
    <2>3. ASSUME NEW c \in Client, Receive(c), arrived[c] > 0, UNCHANGED tasks
          PROVE  Last(toClient'[t]) = UpdateMsg(tasks'[t])
      <3>1. toClient[c] \in Seq(Message) /\ toClient[c] # <<>>
        BY <2>3 DEF TypeOK, LoopBounds
      <3>2. CASE t # c
        BY <2>0, <2>3, <3>2 DEF Receive, LastWordIsCurrent, Share, TypeOK
      <3>3. CASE t = c
        <4>1. toClient'[c] = Tail(toClient[c])
          BY <2>3 DEF Receive, TypeOK
        <4>2. Last(toClient[c]) = UpdateMsg(tasks'[c])
          BY <2>3, <3>1, <3>3 DEF LastWordIsCurrent, Share
        <4>3. Len(Tail(toClient[c])) \in Nat \ {0}
          BY <3>1, <3>3, <4>1, TailFacts
        <4>. QED  BY <3>1, <3>3, <4>1, <4>2, <4>3, TailFacts DEF Last
      <3>. QED  BY <3>2, <3>3
    <2>4. ASSUME NEW c \in Client, Application(c)
          PROVE  UNCHANGED <<tasks, toClient>>
      BY <2>4 DEF Application, start, stop, JoinPool, CheckRegistered, DestroyClient,
                  ExitAfterStop, Exit, serverVars, netVars
    <2>5. ASSUME NEW c \in Client, MessageThread(c)
          PROVE  \/ UNCHANGED <<tasks, toClient>>
                 \/ Receive(c) /\ arrived[c] > 0 /\ UNCHANGED tasks
      BY <2>5 DEF MessageThread, Register, PollIn, RecvHeader, RecvStop,
                  RecvUpdate, SetNumThreads, serverVars, netVars
    <2>6. ASSUME NEW c \in Client, PollTimeout(c) \/ Deliver(c)
          PROVE  UNCHANGED <<tasks, toClient>>
      BY <2>6 DEF PollTimeout, Deliver, serverVars, netVars
    <2>7. CASE UNCHANGED vars
      BY <2>2, <2>7 DEF vars, serverVars, netVars
    <2>. QED  BY <2>1, <2>2, <2>3, <2>4, <2>5, <2>6, <2>7 DEF Next
  <1>. QED  BY <1>1, <1>2, Invariance, PTL DEF Spec

-----------------------------------------------------------------------------
(* The reply to Start. *)

(* What makes StartReplyIsSwallowed inductive, for one client: a message   *)
(* thread that is past poll() has set registered_, so it was not there     *)
(* when the server answered the Start.                                     *)
Swallowed(d) ==
    /\ \A i \in 1..Len(toClient[d]) : toClient[d][i].type = "Start" =>
          /\ i = 1 /\ proc[d] \in {"poll", "returned", "header"}
          /\ proc[d] = "header" => arrived[d] > 0
    /\ proc[d] \in {"header", "message", "allocate", "stopped"} => registered[d]

(* sched puts one Start reply, in front, into an empty queue.              *)
LEMMA SchedSwallowed ==
    ASSUME IndInv, TypeOK', NEW c \in Client, sched(c), NEW d \in Client, Swallowed(c), Swallowed(d)
    PROVE  Swallowed(d)'
  <1>. TypeOK /\ LifecycleOf(c)
    BY DEF IndInv, Lifecycle
  <1>1. UNCHANGED <<proc, registered, arrived>>
    BY DEF sched, clientVars
  <1>2. /\ toServer[c] \in {<<"Start">>, <<"Stop">>}
        /\ toServer[c] = <<"Start">> => Head(toServer[c]) = "Start"
        /\ toServer[c] = <<"Stop">> => Head(toServer[c]) = "Stop"
    BY QueueEnds DEF sched, LifecycleOf
  <1>3. toClient[d] \in Seq(Message) /\ StopMsg \in Message /\ StartMsg \in Message
    BY DEF TypeOK, StartMsg, StopMsg, Message
  <1>4. ASSUME d \in DOMAIN tasks'
        PROVE  UpdateMsg(tasks'[d]) \in Message /\ UpdateMsg(tasks'[d]).type = "Update"
    BY <1>4 DEF TypeOK, UpdateMsg, Message
  <1>5. ASSUME NEW q \in Seq(Message), toClient'[d] = q \/ toClient'[d] = Append(q, UpdateMsg(tasks'[d])),
               d \notin DOMAIN tasks' => toClient'[d] = q
        PROVE  \A i \in 1..Len(toClient'[d]) : toClient'[d][i].type = "Start" =>
                    i \in 1..Len(q) /\ q[i] = toClient'[d][i]
    <2>1. CASE toClient'[d] = q
      BY <2>1
    <2>2. CASE toClient'[d] # q
      <3>1. d \in DOMAIN tasks' /\ toClient'[d] = Append(q, UpdateMsg(tasks'[d]))
        BY <1>5, <2>2
      <3>. QED  BY <1>4, <3>1, AppendFacts
    <2>. QED  BY <2>1, <2>2
  <1>6. CASE d # c
    <2>1. /\ toClient'[d] = toClient[d] \/ toClient'[d] = Append(toClient[d], UpdateMsg(tasks'[d]))
          /\ d \notin DOMAIN tasks' => toClient'[d] = toClient[d]
      BY <1>6 DEF sched, Sends, TypeOK
    <2>2. \A i \in 1..Len(toClient'[d]) : toClient'[d][i].type = "Start" =>
              i \in 1..Len(toClient[d]) /\ toClient[d][i] = toClient'[d][i]
      BY <1>3, <1>5, <2>1
    <2>. QED  BY <1>1, <2>2 DEF Swallowed
  <1>7. CASE d = c /\ toServer[c] = <<"Stop">>
    <2>. DEFINE q == Append(toClient[c], StopMsg)
    <2>1. /\ toClient'[c] = q \/ toClient'[c] = Append(q, UpdateMsg(tasks'[c]))
          /\ c \notin DOMAIN tasks' => toClient'[c] = q
      BY <1>2, <1>7 DEF sched, Sends, TypeOK
    <2>2. /\ q \in Seq(Message)
          /\ \A i \in 1..Len(q) : q[i].type = "Start" =>
                i \in 1..Len(toClient[c]) /\ toClient[c][i] = q[i]
      <3>1. StopMsg.type # "Start"
        BY DEF StopMsg
      <3>. QED  BY <1>3, <1>7, <3>1, AppendFacts
    <2>. HIDE DEF q
    <2>. QED  BY <1>1, <1>5, <1>7, <2>1, <2>2 DEF Swallowed
  <1>8. CASE d = c /\ toServer[c] = <<"Start">>
    <2>. DEFINE q == Append(<<>>, StartMsg)
    <2>1. toClient[c] = <<>> /\ ~registered[c] /\ proc[c] \notin {"none", "connect"}
      BY <1>8, QueueEnds DEF LifecycleOf
    <2>2. proc[c] \in {"poll", "returned"}
      BY <2>1 DEF Swallowed, TypeOK, ProcPoint
    <2>3. /\ toClient'[c] = q \/ toClient'[c] = Append(q, UpdateMsg(tasks'[c]))
          /\ c \notin DOMAIN tasks' => toClient'[c] = q
      BY <1>2, <1>8, <2>1 DEF sched, Sends, TypeOK
    <2>4. q \in Seq(Message) /\ Len(q) = 1
      BY <1>3
    <2>. HIDE DEF q
    <2>. QED  BY <1>1, <1>5, <1>8, <2>2, <2>3, <2>4 DEF Swallowed
  <1>. QED  BY <1>2, <1>6, <1>7, <1>8

(* The first receive of the message thread takes it, in "header".          *)
LEMMA ClientSwallowed ==
    ASSUME IndInv, NEW c \in Client, NEW d \in Client, Swallowed(d),
           Application(c) \/ MessageThread(c) \/ PollTimeout(c) \/ Deliver(c)
    PROVE  Swallowed(d)'
  <1>. TypeOK /\ LoopBounds /\ LifecycleOf(d)
    BY DEF IndInv, Lifecycle
  <1>1. ASSUME Receive(c), arrived[c] > 0, Goto(c, "header", "message") \/ Goto(c, "message", "allocate")
                 \/ Goto(c, "message", "stopped"), UNCHANGED registered
        PROVE  Swallowed(d)'
    <2>1. CASE d # c
      BY <1>1, <2>1 DEF Receive, Goto, Swallowed, TypeOK
    <2>2. CASE d = c
      <3>1. toClient[c] \in Seq(Message) /\ toClient[c] # <<>> /\ toClient'[c] = Tail(toClient[c])
        BY <1>1 DEF Receive, TypeOK, LoopBounds
      <3>2. \A i \in 1..Len(toClient'[c]) :
                i + 1 \in 1..Len(toClient[c]) /\ toClient'[c][i] = toClient[c][i + 1] /\ i + 1 # 1
        BY <3>1, TailFacts
      <3>3. \A i \in 1..Len(toClient'[c]) : toClient'[c][i].type # "Start"
        BY <2>2, <3>2 DEF Swallowed
      <3>4. registered'[c]
        BY <1>1, <2>2 DEF Goto, Swallowed
      <3>. QED  BY <2>2, <3>3, <3>4 DEF Swallowed
    <2>. QED  BY <2>1, <2>2
  <1>2. CASE Application(c)
    <2>1. UNCHANGED <<toClient, arrived, registered>>
      BY <1>2 DEF Application, start, stop, JoinPool, CheckRegistered, DestroyClient,
                  ExitAfterStop, Exit, netVars
    <2>2. CASE start(c)
      <3>1. d = c => toClient[d] = <<>> /\ proc'[d] = "connect"
        BY <2>2 DEF start, LifecycleOf, TypeOK
      <3>2. d # c => proc'[d] = proc[d]
        BY <2>2 DEF start, TypeOK
      <3>. QED  BY <2>1, <3>1, <3>2 DEF Swallowed
    <2>3. CASE ~start(c)
      <3>1. UNCHANGED proc
        BY <1>2, <2>3 DEF Application, stop, JoinPool, CheckRegistered, DestroyClient, ExitAfterStop
      <3>. QED  BY <2>1, <3>1 DEF Swallowed
    <2>. QED  BY <2>2, <2>3
  <1>3. CASE Register(c)
    <2>1. d = c => toClient[d] = <<>> /\ proc'[d] = "poll"
      BY <1>3 DEF Register, Goto, LifecycleOf, TypeOK
    <2>. QED  BY <1>3, <2>1 DEF Register, Goto, Swallowed, TypeOK
  <1>4. CASE PollIn(c)
    BY <1>4 DEF PollIn, Goto, Swallowed, TypeOK, netVars
  <1>5. CASE PollTimeout(c)
    BY <1>5 DEF PollTimeout, Goto, Swallowed, TypeOK, netVars
  <1>6. CASE Deliver(c)
    <2>1. /\ UNCHANGED <<toClient, proc, registered>>
          /\ arrived[d] > 0 => arrived'[d] > 0
      BY <1>6 DEF Deliver, clientVars, TypeOK
    <2>. QED  BY <2>1 DEF Swallowed
  <1>7. CASE RecvHeader(c)
    <2>1. CASE arrived[c] > 0
      BY <1>1, <1>7, <2>1 DEF RecvHeader
    <2>2. CASE ~(arrived[c] > 0)
      BY <1>7, <2>2 DEF RecvHeader, Goto, Swallowed, TypeOK
    <2>. QED  BY <2>1, <2>2
  <1>8. CASE RecvStop(c) \/ RecvUpdate(c)
    BY <1>1, <1>8 DEF RecvStop, RecvUpdate
  <1>9. CASE SetNumThreads(c)
    BY <1>9 DEF SetNumThreads, Goto, Swallowed, TypeOK, netVars
  <1>. QED  BY <1>2, <1>3, <1>4, <1>5, <1>6, <1>7, <1>8, <1>9 DEF MessageThread

(* The case for Start in processMessage's switch is dead code: however the *)
(* server's answers, the poll and the application interleave, the message  *)
(* thread receives the reply to Start as the header.                       *)
THEOREM StartReply == Spec => []StartReplyIsSwallowed
  <1>. DEFINE Inv == \A d \in Client : Swallowed(d)
  <1>1. Init => Inv
    BY DEF Init, Swallowed
  <1>2. IndInv /\ IndInv' /\ Inv /\ [Next]_vars => Inv'
    <2>. SUFFICES ASSUME IndInv, IndInv', Inv, [Next]_vars, NEW d \in Client
                  PROVE  Swallowed(d)'
      OBVIOUS
    <2>1. CASE UNCHANGED vars
      BY <2>1 DEF vars, serverVars, netVars, clientVars, Swallowed
    <2>2. TypeOK'
      BY DEF IndInv
    <2>. QED  BY <2>1, <2>2, SchedSwallowed, ClientSwallowed DEF Next
  <1>3. Inv => StartReplyIsSwallowed
    BY DEF StartReplyIsSwallowed, Swallowed
  <1>. QED  BY <1>1, <1>2, <1>3, Invariance, PTL DEF Spec

-----------------------------------------------------------------------------
(* The protocol implements ShareAllocation. *)

(* A step that leaves the server alone stutters abstractly: no client moves *)
(* into or out of the departed ones.                                        *)
LEMMA StutterStep ==
    ASSUME IndInv, NEW c \in Client,
           Application(c) \/ MessageThread(c) \/ PollTimeout(c) \/ Deliver(c)
    PROVE  tasks' = tasks /\ Departed' = Departed
  <1>. TypeOK /\ LoopBounds /\ LifecycleOf(c)
    BY DEF IndInv, Lifecycle
  <1>. USE DEF serverVars, netVars, clientVars, poolVars, TypeOK
  <1>0. SUFFICES /\ UNCHANGED tasks
                 /\ (c \in Departed') = (c \in Departed)
                 /\ \A t \in Client : t # c => /\ main'[t] = main[t] /\ proc'[t] = proc[t]
                                               /\ toServer'[t] = toServer[t]
    BY DEF Departed
  <1>1. CASE start(c)
    BY <1>1 DEF start, LifecycleOf, Departed
  <1>2. CASE stop(c) \/ JoinPool(c)
    BY <1>2 DEF stop, JoinPool, Departed
  <1>3. CASE CheckRegistered(c)
    <2>1. Append(toServer[c], "Stop") # <<>>
      <3>1. toServer[c] \in Seq({"Start", "Stop"})
        OBVIOUS
      <3>. HIDE DEF TypeOK
      <3>. QED  BY <3>1, AppendFacts
    <2>. QED  BY <1>3, <2>1 DEF CheckRegistered, sendMessage, LifecycleOf, Departed
  <1>4. CASE DestroyClient(c) \/ ExitAfterStop(c)
    BY <1>4 DEF DestroyClient, ExitAfterStop, Exit, LifecycleOf, Departed
  <1>5. CASE Register(c)
    <2>1. main[c] # "joinThread"
      BY <1>5 DEF Register, Goto, LifecycleOf
    <2>. QED  BY <1>5, <2>1 DEF Register, Goto, sendMessage, Departed
  <1>6. CASE RecvStop(c)
    <2>1. c \in Departed
      <3>1. toClient[c] \in Seq(Message) /\ toClient[c] # <<>>
        BY <1>6 DEF RecvStop, LoopBounds
      <3>2. 1 \in 1..Len(toClient[c]) /\ Head(toClient[c]) = toClient[c][1]
        BY <3>1, TailFacts
      <3>. QED  BY <1>6, <3>2 DEF RecvStop, LifecycleOf
    <2>2. toServer[c] = <<>>
      BY <2>1 DEF Departed
    <2>. QED  BY <1>6, <2>1, <2>2 DEF RecvStop, Goto, Departed
  <1>7. CASE PollIn(c) \/ RecvHeader(c) \/ RecvUpdate(c) \/ SetNumThreads(c)
             \/ PollTimeout(c) \/ Deliver(c)
    BY <1>7 DEF PollIn, RecvHeader, RecvUpdate, SetNumThreads, PollTimeout,
                Deliver, Goto, Departed
  <1>. QED
    BY <1>1, <1>2, <1>3, <1>4, <1>5, <1>6, <1>7 DEF Application, MessageThread

(* Handling a Start is an arrival and handling a Stop a departure.         *)
LEMMA SchedStep ==
    ASSUME IndInv, NEW c \in Client, sched(c)
    PROVE  Abstract!Next
  <1>. TypeOK /\ LifecycleOf(c)
    BY DEF IndInv, Lifecycle
  <1>1. /\ toServer[c] \in {<<"Start">>, <<"Stop">>}
        /\ toServer'[c] = <<>>
        /\ UNCHANGED <<main, proc>> /\ \A t \in Client : t # c => toServer'[t] = toServer[t]
    BY QueueEnds DEF sched, LifecycleOf, clientVars, TypeOK
  <1>2. DOMAIN tasks \subseteq Client
    BY DEF TypeOK
  <1>3. CASE toServer[c] = <<"Start">>
    <2>1. Head(toServer[c]) = "Start"
      BY <1>3
    <2>2. c \notin DOMAIN tasks /\ main[c] # "joinThread" /\ proc[c] # "stopped"
      BY <1>3, QueueEnds DEF LifecycleOf
    <2>3. Departed' = Departed /\ c \notin Departed
      BY <1>1, <1>3, <2>2 DEF Departed
    <2>4. tasks' = schedule(DOMAIN tasks \cup {c})
      BY <2>1 DEF sched
    <2>5. tasks' \in Abstract!EqualDivision(DOMAIN tasks \cup {c})
      BY <1>2, <2>4, ScheduleFacts
    <2>6. Abstract!Join(c)
      BY <2>2, <2>3, <2>5 DEF Abstract!Join, Abstract!Members
    <2>. QED  BY <2>6 DEF Abstract!Next
  <1>4. CASE toServer[c] = <<"Stop">>
    <2>1. Head(toServer[c]) = "Stop"
      BY <1>4
    <2>2. c \in DOMAIN tasks /\ main[c] = "joinThread"
      BY <1>4 DEF LifecycleOf
    <2>3. Departed' = Departed \cup {c}
      BY <1>1, <2>2 DEF Departed
    <2>4. tasks' = schedule(DOMAIN tasks \ {c})
      BY <2>1 DEF sched
    <2>5. tasks' \in Abstract!EqualDivision(DOMAIN tasks \ {c})
      BY <1>2, <2>4, ScheduleFacts
    <2>6. Abstract!Leave(c)
      BY <2>2, <2>3, <2>5 DEF Abstract!Leave, Abstract!Members
    <2>. QED  BY <2>6 DEF Abstract!Next
  <1>. QED  BY <1>1, <1>3, <1>4

(* The server with its queues and racing clients implements the equal      *)
(* division of the resources among clients that join and leave once.       *)
THEOREM Refinement == Spec => ImplementsShareAllocation
  <1>1. Init => Abstract!Init
    BY DEF Init, Abstract!Init, Departed
  <1>2. IndInv /\ [Next]_vars => [Abstract!Next]_<<tasks, Departed>>
    <2>. SUFFICES ASSUME IndInv, [Next]_vars
                  PROVE  Abstract!Next \/ (tasks' = tasks /\ Departed' = Departed)
      OBVIOUS
    <2>1. CASE UNCHANGED vars
      BY <2>1 DEF vars, serverVars, netVars, clientVars, Departed
    <2>2. CASE Next
      BY <2>2, StutterStep, SchedStep DEF Next
    <2>. QED  BY <2>1, <2>2
  <1>. QED  BY <1>1, <1>2, Invariance, PTL DEF Spec, Abstract!Spec, ImplementsShareAllocation
=============================================================================
