----------------------------- MODULE DedupQueue -----------------------------
(***************************************************************************)
(* The synchronised queue between two stages of the pthread build of dedup *)
(* (src/apps/dedup/src/queue.c) on its ring buffer (queue.h): one mutex,   *)
(* the condition variables notEmpty and notFull, and a count of the        *)
(* producers that have terminated.  Producers and consumers aggregate      *)
(* items in private ring buffers of Limit elements, as every stage does.   *)
(*                                                                         *)
(* One step is one lock, one test, one element moved inside the critical   *)
(* section, or one return with its signal and unlock.                      *)
(***************************************************************************)
EXTENDS Integers, Sequences, FiniteSets

CONSTANTS
    Producer,     \* threads of the stage before the queue
    Consumer,     \* threads of the stage after it
    NoThread,     \* the holder of a free mutex
    NoItem,       \* what a slot holds before its first use
    Size,         \* size given to queue_init
    Limit,        \* ITEM_PER_INSERT = ITEM_PER_FETCH
    PerProducer,  \* bound: items each producer makes
    MaxSpurious   \* bound: wake-ups without a signal

ASSUME ThreadAssumption ==
    /\ IsFiniteSet(Producer)
    /\ Producer \cap Consumer = {}
    /\ NoThread \notin Producer \cup Consumer
ASSUME SizeAssumption == Size \in Nat \ {0} /\ Limit \in Nat \ {0}
ASSUME BoundAssumption == PerProducer \in Nat /\ MaxSpurious \in Nat

Thread == Producer \cup Consumer
NProducers == Cardinality(Producer)
Slots == Size + 1  \* buf->size: one slot stays unused
Item == Producer \X (1..PerProducer)

VARIABLES
    data, head, tail,  \* que->buf
    nTerminated,       \* que->nTerminated
    mutex,             \* the thread that holds que->mutex, or NoThread
    i,                 \* the local i of the thread that holds the mutex
    buf,               \* the private ring buffer of each thread
    pc,
    made,              \* items each producer has made
    spurious,          \* wake-ups without a signal so far
    put, got           \* history: items inserted and removed, in order

vars == <<data, head, tail, nTerminated, mutex, i, buf, pc, made, spurious, put, got>>

ring == <<data, head, tail>>

ringbuffer_isEmpty == tail = head
ringbuffer_isFull == head = (tail - 1 + Slots) % Slots

Wrap(k) == IF k >= Slots THEN k - Slots ELSE k

Count == Wrap(head - tail + Slots)

\* The elements of the ring buffer, oldest first.
Contents == [k \in 1..Count |-> data[Wrap(tail + k - 1)]]

\* Mutant: head wraps around one slot early.
InsertWrapsEarly(x) ==
    /\ data' = [data EXCEPT ![head] = x]
    /\ head' = IF head + 1 = Size THEN 0 ELSE head + 1
    /\ UNCHANGED tail

ringbuffer_insert(x) ==
    /\ data' = [data EXCEPT ![head] = x]
    /\ head' = Wrap(head + 1)
    /\ UNCHANGED tail

ringbuffer_remove ==
    /\ tail' = Wrap(tail + 1)
    /\ UNCHANGED <<data, head>>

queue_isTerminated == nTerminated = NProducers

queue_init ==
    /\ data = [k \in 0..Size |-> NoItem]
    /\ head = 0 /\ tail = 0
    /\ nTerminated = 0
    /\ mutex = NoThread
    /\ i = 0
    /\ buf = [t \in Thread |-> <<>>]
    /\ pc = [t \in Thread |-> IF t \in Producer THEN "work" ELSE "dequeue"]
    /\ made = [p \in Producer |-> 0]
    /\ spurious = 0
    /\ put = <<>> /\ got = <<>>

Go(t, from, to) ==
    /\ pc[t] = from
    /\ pc' = [pc EXCEPT ![t] = to]

\* t moves on, and the threads of woken leave pthread_cond_wait: they block on
\* the mutex and then test their condition again.
GoAndWake(t, to, woken) ==
    pc' = [u \in Thread |-> IF u = t THEN to
                            ELSE IF u \notin woken THEN pc[u]
                            ELSE IF u \in Producer THEN "relock" ELSE "dequeue"]

Waiting(cond) == {t \in Thread : pc[t] = cond}

\* pthread_cond_signal wakes one waiter, if there is one.
Signalled(cond) ==
    IF Waiting(cond) = {} THEN {{}} ELSE {{t} : t \in Waiting(cond)}

Acquire(t) == mutex = NoThread /\ mutex' = t
Release == mutex' = NoThread

-----------------------------------------------------------------------------
(* The stages around the queue: a producer fills its buffer and enqueues   *)
(* it when full, then drains what is left over and terminates.             *)

Insert(p) ==
    /\ pc[p] = "work"
    /\ made[p] < PerProducer
    /\ made' = [made EXCEPT ![p] = @ + 1]
    /\ buf' = [buf EXCEPT ![p] = Append(@, <<p, made'[p]>>)]
    /\ pc' = [pc EXCEPT ![p] = IF Len(buf'[p]) = Limit THEN "enqueue" ELSE "work"]
    /\ UNCHANGED <<ring, nTerminated, mutex, i, spurious, put, got>>

Drain(p) ==
    /\ made[p] = PerProducer
    /\ Go(p, "work", IF buf[p] = <<>> THEN "terminate" ELSE "enqueue")
    /\ UNCHANGED <<ring, nTerminated, mutex, i, buf, made, spurious, put, got>>

\* A consumer processes the whole buffer before it dequeues again.
Process(c) ==
    /\ Go(c, "work", "dequeue")
    /\ buf' = [buf EXCEPT ![c] = <<>>]
    /\ UNCHANGED <<ring, nTerminated, mutex, i, made, spurious, put, got>>

-----------------------------------------------------------------------------
(* queue_enqueue.                                                          *)

EnqueueLock(p) ==
    /\ Go(p, "enqueue", "full?") \/ Go(p, "relock", "full?")
    /\ Acquire(p)
    /\ UNCHANGED <<ring, nTerminated, i, buf, made, spurious, put, got>>

EnqueueCheck(p) ==
    /\ \/ ringbuffer_isFull /\ Go(p, "full?", "notFull") /\ Release /\ UNCHANGED i
       \/ ~ringbuffer_isFull /\ Go(p, "full?", "insert") /\ i' = 0 /\ UNCHANGED mutex
    /\ UNCHANGED <<ring, nTerminated, buf, made, spurious, put, got>>

EnqueueMore(p) == i < Limit /\ ~ringbuffer_isFull /\ buf[p] # <<>>

EnqueueOne(p) ==
    /\ pc[p] = "insert"
    /\ EnqueueMore(p)
    /\ ringbuffer_insert(Head(buf[p]))
    /\ buf' = [buf EXCEPT ![p] = Tail(@)]
    /\ i' = i + 1
    /\ put' = Append(put, Head(buf[p]))
    /\ UNCHANGED <<nTerminated, mutex, pc, made, spurious, got>>

EnqueueReturn(p) ==
    /\ pc[p] = "insert"
    /\ ~EnqueueMore(p)
    /\ \E woken \in IF i > 0 THEN Signalled("notEmpty") ELSE {{}} :
           GoAndWake(p, "work", woken)
    /\ Release
    /\ UNCHANGED <<ring, nTerminated, i, buf, made, spurious, put, got>>

-----------------------------------------------------------------------------
(* queue_dequeue.                                                          *)

DequeueLock(c) ==
    /\ Go(c, "dequeue", "empty?")
    /\ Acquire(c)
    /\ UNCHANGED <<ring, nTerminated, i, buf, made, spurious, put, got>>

\* Mutant: a consumer gives up on a queue that is empty for the moment.
DequeueCheckGivesUp(c) ==
    /\ \/ ringbuffer_isEmpty /\ Go(c, "empty?", "done") /\ Release /\ UNCHANGED i
       \/ ~ringbuffer_isEmpty /\ Go(c, "empty?", "remove") /\ i' = 0 /\ UNCHANGED mutex
    /\ UNCHANGED <<ring, nTerminated, buf, made, spurious, put, got>>

\* Wait, return -1, which ends the stage, or start to remove elements.
DequeueCheck(c) ==
    /\ \/ /\ ringbuffer_isEmpty /\ ~queue_isTerminated
          /\ Go(c, "empty?", "notEmpty") /\ Release /\ UNCHANGED i
       \/ /\ ringbuffer_isEmpty /\ queue_isTerminated
          /\ Go(c, "empty?", "done") /\ Release /\ UNCHANGED i
       \/ /\ ~ringbuffer_isEmpty
          /\ Go(c, "empty?", "remove") /\ i' = 0 /\ UNCHANGED mutex
    /\ UNCHANGED <<ring, nTerminated, buf, made, spurious, put, got>>

DequeueMore(c) == i < Limit /\ ~ringbuffer_isEmpty /\ Len(buf[c]) < Limit

DequeueOne(c) ==
    /\ pc[c] = "remove"
    /\ DequeueMore(c)
    /\ ringbuffer_remove
    /\ buf' = [buf EXCEPT ![c] = Append(@, data[tail])]
    /\ i' = i + 1
    /\ got' = Append(got, data[tail])
    /\ UNCHANGED <<nTerminated, mutex, pc, made, spurious, put>>

DequeueReturn(c) ==
    /\ pc[c] = "remove"
    /\ ~DequeueMore(c)
    /\ \E woken \in IF i > 0 THEN Signalled("notFull") ELSE {{}} :
           GoAndWake(c, "work", woken)
    /\ Release
    /\ UNCHANGED <<ring, nTerminated, i, buf, made, spurious, put, got>>

-----------------------------------------------------------------------------
\* Mutant: the last producer wakes one consumer instead of all of them.
TerminateSignals(p) ==
    /\ pc[p] = "terminate"
    /\ mutex = NoThread
    /\ nTerminated' = nTerminated + 1
    /\ \E woken \in IF nTerminated' = NProducers THEN Signalled("notEmpty") ELSE {{}} :
           GoAndWake(p, "done", woken)
    /\ UNCHANGED <<ring, mutex, i, buf, made, spurious, put, got>>

queue_terminate(p) ==
    /\ pc[p] = "terminate"
    /\ mutex = NoThread
    /\ nTerminated' = nTerminated + 1
    /\ GoAndWake(p, "done", IF nTerminated' = NProducers THEN Waiting("notEmpty") ELSE {})
    /\ UNCHANGED <<ring, mutex, i, buf, made, spurious, put, got>>

\* POSIX allows pthread_cond_wait to return without a signal.
SpuriousWakeup(t) ==
    /\ spurious < MaxSpurious
    /\ spurious' = spurious + 1
    /\ Go(t, "notFull", "relock") \/ Go(t, "notEmpty", "dequeue")
    /\ UNCHANGED <<ring, nTerminated, mutex, i, buf, made, put, got>>

ProducerStep(p) ==
    \/ Insert(p) \/ Drain(p) \/ queue_terminate(p)
    \/ EnqueueLock(p) \/ EnqueueCheck(p) \/ EnqueueOne(p) \/ EnqueueReturn(p)

ConsumerStep(c) ==
    \/ Process(c)
    \/ DequeueLock(c) \/ DequeueCheck(c) \/ DequeueOne(c) \/ DequeueReturn(c)

Next ==
    \/ \E p \in Producer : ProducerStep(p)
    \/ \E c \in Consumer : ConsumerStep(c)
    \/ \E t \in Thread : SpuriousWakeup(t)

Spec == queue_init /\ [][Next]_vars

\* The threads are scheduled; nothing is assumed of spurious wake-ups, nor
\* of who gets a contended mutex.
FairSpec ==
    /\ Spec
    /\ \A p \in Producer : WF_vars(ProducerStep(p))
    /\ \A c \in Consumer : WF_vars(ConsumerStep(c))

-----------------------------------------------------------------------------
TypeOK ==
    /\ data \in [0..Size -> Item \cup {NoItem}]
    /\ head \in 0..Size /\ tail \in 0..Size
    /\ nTerminated \in 0..NProducers
    /\ mutex \in Thread \cup {NoThread}
    /\ i \in 0..Limit
    /\ buf \in [Thread -> Seq(Item)]
    /\ pc \in [Thread -> {"work", "enqueue", "relock", "full?", "notFull", "insert",
                          "terminate", "dequeue", "empty?", "notEmpty", "remove", "done"}]
    /\ made \in [Producer -> 0..PerProducer]
    /\ spurious \in 0..MaxSpurious
    /\ put \in Seq(Item) /\ got \in Seq(Item)

(***************************************************************************)
(* Nothing that was inserted is lost, repeated or overtaken: at every      *)
(* moment the inserted items are those removed, in the same order,         *)
(* followed by the contents of the ring buffer, whatever the wrap-around   *)
(* of head and tail.                                                       *)
(***************************************************************************)
FirstInFirstOut == put = got \o Contents

(***************************************************************************)
(* The batch that a thread moves inside its critical section is not seen   *)
(* in part: what the queue holds for the others is its contents without    *)
(* the elements inserted so far, or with those removed so far.             *)
(***************************************************************************)
Committed ==
    IF mutex \in Thread /\ pc[mutex] = "insert"
    THEN SubSeq(Contents, 1, Len(Contents) - i)
    ELSE IF mutex \in Thread /\ pc[mutex] = "remove"
    THEN buf[mutex] \o Contents
    ELSE Contents

Abstract == INSTANCE BatchChannel WITH
    chan <- Committed, terminated <- nTerminated,
    ended <- \E c \in Consumer : pc[c] = "done"

(***************************************************************************)
(* queue_enqueue, queue_dequeue and queue_terminate implement a bounded    *)
(* FIFO of batches: the ring buffer, the condition variables and the       *)
(* spurious wake-ups do not show.                                          *)
(***************************************************************************)
ImplementsBatchChannel == Abstract!Spec

(***************************************************************************)
(* Every thread ends and every item was delivered: one signal per batch    *)
(* wakes enough threads, and the broadcast of the last producer reaches    *)
(* every consumer.                                                         *)
(***************************************************************************)
EveryItemIsDelivered ==
    <>(/\ \A t \in Thread : pc[t] = "done"
       /\ Len(got) = NProducers * PerProducer)
=============================================================================
