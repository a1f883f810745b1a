-------------------------- MODULE DedupQueueProofs --------------------------
(***************************************************************************)
(* Proofs about DedupQueue for any number of producers and consumers and   *)
(* any size of the queue and of the batches.                               *)
(***************************************************************************)
EXTENDS DedupQueue, SequenceTheorems, FiniteSetTheorems, TLAPS

RingType ==
    /\ data \in [0..Size -> Item \cup {NoItem}]
    /\ head \in 0..Size /\ tail \in 0..Size

(* The remainder in ringbuffer_isFull is the slot before the tail, around  *)
(* the end of the buffer.                                                  *)
LEMMA SlotBefore ==
    ASSUME NEW n \in Nat \ {0}, NEW k \in 0..n - 1
    PROVE  (k - 1 + n) % n = IF k = 0 THEN n - 1 ELSE k - 1
  <1>1. CASE k = 0
    BY <1>1
  <1>2. CASE k # 0
    BY <1>2
  <1>. QED
    BY <1>1, <1>2

(* How many elements there are, and what full and empty say about it.      *)
LEMMA RingCount ==
    ASSUME RingType
    PROVE  /\ Count \in 0..Size
           /\ ringbuffer_isEmpty <=> Count = 0
           /\ ringbuffer_isFull <=> Count = Size
  <1>. USE SizeAssumption DEF RingType, Slots
  <1>1. (tail - 1 + Slots) % Slots = IF tail = 0 THEN Slots - 1 ELSE tail - 1
    BY SlotBefore
  <1>. QED
    BY <1>1 DEF Count, Wrap, ringbuffer_isEmpty, ringbuffer_isFull

RingElements ==
    /\ Contents \in Seq(Item \cup {NoItem})
    /\ Len(Contents) = Count
    /\ \A k \in 1..Count : Contents[k] = data[Wrap(tail + k - 1)]

(* The contents are a sequence of that length.                             *)
LEMMA RingContents == RingType => RingElements
  <1>. SUFFICES ASSUME RingType PROVE RingElements
    OBVIOUS
  <1>1. Count \in Nat
    BY RingCount, SizeAssumption
  <1>2. \A k \in 1..Count : Wrap(tail + k - 1) \in 0..Size
    BY RingCount, SizeAssumption DEF RingType, Wrap, Slots
  <1>3. Contents \in [1..Count -> Item \cup {NoItem}]
    BY <1>2 DEF Contents, RingType
  <1>. QED
    BY <1>1, <1>3, SeqDef DEF Contents, RingElements

(* Insertion appends to the contents.                                      *)
LEMMA InsertAppends ==
    ASSUME RingType, ~ringbuffer_isFull, NEW x \in Item, ringbuffer_insert(x)
    PROVE  /\ RingType'
           /\ Count' = Count + 1
           /\ Contents' = Append(Contents, x)
  <1>. USE SizeAssumption
  <1>1. RingType'
    BY DEF RingType, ringbuffer_insert, Wrap, Slots
  <1>2. Count < Size /\ Count \in Nat
    BY RingCount
  <1>3. Count' = Count + 1
    BY <1>2 DEF RingType, ringbuffer_insert, Count, Wrap, Slots
  <1>4. RingElements /\ RingElements'
    BY <1>1, RingContents, PTL
  <1>5. ASSUME NEW k \in 1..Count
        PROVE  Wrap(tail + k - 1) \in 0..Size /\ Wrap(tail + k - 1) # head
    BY <1>2 DEF RingType, Count, Wrap, Slots
  <1>6. Wrap(tail + Count) = head
    BY <1>2 DEF RingType, Count, Wrap, Slots
  <1>7. \A k \in 1..Count : Contents'[k] = Contents[k]
    <2>. TAKE k \in 1..Count
    <2>1. Contents'[k] = data'[Wrap(tail + k - 1)]
      BY <1>2, <1>3, <1>4 DEF RingElements, ringbuffer_insert
    <2>2. Contents[k] = data[Wrap(tail + k - 1)]
      BY <1>4 DEF RingElements
    <2>3. data'[Wrap(tail + k - 1)] = data[Wrap(tail + k - 1)]
      BY <1>5 DEF RingType, ringbuffer_insert
    <2>. QED
      BY <2>1, <2>2, <2>3
  <1>8. Contents'[Count + 1] = x
    BY <1>2, <1>3, <1>4, <1>6 DEF RingType, ringbuffer_insert, RingElements
  <1>9. /\ Append(Contents, x) \in Seq(Item \cup {NoItem})
        /\ Len(Append(Contents, x)) = Count + 1
        /\ \A k \in 1..Count : Append(Contents, x)[k] = Contents[k]
        /\ Append(Contents, x)[Count + 1] = x
    BY <1>4, AppendProperties DEF RingElements
  <1>10. \A k \in 1..Count + 1 : Contents'[k] = Append(Contents, x)[k]
    BY <1>2, <1>7, <1>8, <1>9
  <1>11. Contents' = Append(Contents, x)
    BY <1>3, <1>4, <1>9, <1>10, SeqEqual DEF RingElements
  <1>. QED
    BY <1>1, <1>3, <1>11

(* Removal takes the element at the tail, which is the oldest one.         *)
LEMMA RemoveTakesOldest ==
    ASSUME RingType, ~ringbuffer_isEmpty, ringbuffer_remove
    PROVE  /\ RingType'
           /\ Count' = Count - 1
           /\ data[tail] = Contents[1]
           /\ Contents' = Tail(Contents)
  <1>. USE SizeAssumption
  <1>1. RingType'
    BY DEF RingType, ringbuffer_remove, Wrap, Slots
  <1>2. Count > 0 /\ Count \in Nat /\ Count =< Size
    BY RingCount
  <1>3. Count' = Count - 1
    BY <1>2 DEF RingType, ringbuffer_remove, Count, Wrap, Slots
  <1>4. RingElements /\ RingElements'
    BY <1>1, RingContents, PTL
  <1>5. data[tail] = Contents[1]
    BY <1>2, <1>4 DEF RingType, RingElements, Wrap, Slots
  <1>6. \A k \in 1..Count - 1 : Wrap(tail' + k - 1) = Wrap(tail + (k + 1) - 1)
    BY <1>2 DEF RingType, ringbuffer_remove, Wrap, Slots
  <1>7. \A k \in 1..Count - 1 : Contents'[k] = Contents[k + 1]
    <2>. TAKE k \in 1..Count - 1
    <2>1. k + 1 \in 1..Count
      BY <1>2
    <2>2. Contents[k + 1] = data[Wrap(tail + (k + 1) - 1)]
      BY <2>1, <1>4 DEF RingElements
    <2>3. Contents'[k] = data[Wrap(tail' + k - 1)]
      BY <1>3, <1>4 DEF ringbuffer_remove, RingElements
    <2>. QED
      BY <1>6, <2>2, <2>3
  <1>8. /\ Tail(Contents) \in Seq(Item \cup {NoItem})
        /\ Len(Tail(Contents)) = Count - 1
        /\ \A k \in 1..Count - 1 : Tail(Contents)[k] = Contents[k + 1]
    <2>1. Contents # <<>>
      BY <1>2, <1>4, EmptySeq DEF RingElements
    <2>. QED
      BY <1>4, <2>1, HeadTailProperties DEF RingElements
  <1>9. Contents' = Tail(Contents)
    BY <1>3, <1>4, <1>7, <1>8, SeqEqual DEF RingElements
  <1>. QED
    BY <1>1, <1>3, <1>5, <1>9

-----------------------------------------------------------------------------
ProducerLabels ==
    {"work", "enqueue", "relock", "full?", "notFull", "insert", "terminate", "done"}
ConsumerLabels == {"work", "dequeue", "empty?", "notEmpty", "remove", "done"}
Inside == {"full?", "insert", "empty?", "remove"}
Asleep == {"notFull", "notEmpty"}

Roles == \A t \in Thread : pc[t] \in IF t \in Producer THEN ProducerLabels ELSE ConsumerLabels

Mutex == \A t \in Thread : mutex = t <=> pc[t] \in Inside

(* The private buffer of a thread at each point of its calls, and how far  *)
(* the loop of the thread that holds the mutex has come.                   *)
ProducerBatch(p) ==
    /\ pc[p] \in {"enqueue", "relock", "full?", "notFull"} => buf[p] # <<>>
    /\ pc[p] = "insert" => i =< Count /\ (i = 0 => buf[p] # <<>> /\ ~ringbuffer_isFull)

ConsumerBatch(c) ==
    /\ pc[c] \in {"dequeue", "empty?", "notEmpty"} => buf[c] = <<>>
    /\ pc[c] = "remove" => Len(buf[c]) = i /\ (i = 0 => ~ringbuffer_isEmpty)

Batches ==
    /\ \A p \in Producer : ProducerBatch(p)
    /\ \A c \in Consumer : ConsumerBatch(c)

Done == {p \in Producer : pc[p] = "done"}
TerminatedCount == nTerminated = Cardinality(Done)

Delivery == Contents \in Seq(Item) /\ FirstInFirstOut

Control == Roles /\ Mutex /\ Batches

IndInv == TypeOK /\ Delivery /\ Control /\ TerminatedCount

(* What the other threads see of a step of t that signals a condition.     *)
Woken(t, to) ==
    /\ pc'[t] = to
    /\ \A u \in Thread \ {t} :
           \/ pc'[u] = pc[u]
           \/ pc[u] \in Asleep /\ pc'[u] = (IF u \in Producer THEN "relock" ELSE "dequeue")

(* pthread_cond_signal and _broadcast move sleepers only. *)
LEMMA SignalWakes ==
    ASSUME NEW t \in Thread, NEW to, NEW cond \in Asleep,
           \/ \E woken \in Signalled(cond) : GoAndWake(t, to, woken)
           \/ \E woken \in {{}} : GoAndWake(t, to, woken)
           \/ GoAndWake(t, to, Waiting(cond))
           \/ GoAndWake(t, to, {})
    PROVE  Woken(t, to)
  <1>1. PICK woken : woken \subseteq Waiting(cond) /\ GoAndWake(t, to, woken)
    BY DEF Signalled
  <1>. QED
    BY <1>1 DEF GoAndWake, Woken, Waiting

(* A step without a signal moves nobody else. *)
LEMMA GoWakes ==
    ASSUME NEW t \in Thread, NEW to, pc = [u \in Thread |-> pc[u]], pc' = [pc EXCEPT ![t] = to]
    PROVE  Woken(t, to)
  BY DEF Woken

(* A step of t keeps the control invariant when t itself gets the mutex    *)
(* and its buffer right: nobody else is inside the critical section.       *)
LEMMA ControlStep ==
    ASSUME TypeOK, Control, NEW t \in Thread, NEW to, Woken(t, to),
           to \in IF t \in Producer THEN ProducerLabels ELSE ConsumerLabels,
           \/ (pc[t] \in Inside <=> to \in Inside) /\ UNCHANGED mutex
           \/ pc[t] \notin Inside /\ to \in Inside /\ mutex = NoThread /\ mutex' = t
           \/ pc[t] \in Inside /\ to \notin Inside /\ mutex' = NoThread,
           pc[t] \in Inside \/ UNCHANGED <<i, ring>>,
           \A u \in Thread \ {t} : buf'[u] = buf[u],
           t \in Producer => ProducerBatch(t)',
           t \in Consumer => ConsumerBatch(t)'
    PROVE  Control'
  <1>. USE ThreadAssumption DEF Control, Thread
  <1>1. \A u \in Thread \ {t} :
            \/ pc'[u] = pc[u]
            \/ pc[u] = "notFull" /\ u \in Producer /\ pc'[u] = "relock"
            \/ pc[u] = "notEmpty" /\ u \in Consumer /\ pc'[u] = "dequeue"
    BY DEF Woken, Roles, Asleep, ProducerLabels, ConsumerLabels
  <1>2. Roles'
    BY <1>1 DEF Roles, Woken, ProducerLabels, ConsumerLabels
  <1>3. Mutex'
    <2>1. \A u \in Thread \ {t} : pc'[u] \in Inside <=> pc[u] \in Inside
      BY <1>1 DEF Inside
    <2>. QED
      BY <2>1 DEF Mutex, Woken
  <1>4. \A u \in Thread \ {t} : pc[u] \in Inside => UNCHANGED <<i, ring>>
    BY DEF Mutex
  <1>5. UNCHANGED ring => UNCHANGED <<Count, ringbuffer_isFull, ringbuffer_isEmpty>>
    BY DEF ring, Count, ringbuffer_isFull, ringbuffer_isEmpty
  <1>6. ASSUME NEW p \in Producer, p # t PROVE ProducerBatch(p)'
    <2>1. CASE pc'[p] = pc[p] /\ pc[p] \in Inside
      BY <2>1, <1>4, <1>5, <1>6 DEF ProducerBatch, Batches
    <2>2. CASE pc'[p] = pc[p] /\ pc[p] \notin Inside
      BY <2>2, <1>6 DEF ProducerBatch, Batches, Inside
    <2>3. CASE pc[p] = "notFull" /\ pc'[p] = "relock"
      BY <2>3, <1>6 DEF ProducerBatch, Batches
    <2>. QED
      BY <1>1, <1>6, <2>1, <2>2, <2>3
  <1>7. ASSUME NEW c \in Consumer, c # t PROVE ConsumerBatch(c)'
    <2>1. CASE pc'[c] = pc[c] /\ pc[c] \in Inside
      BY <2>1, <1>4, <1>5, <1>7 DEF ConsumerBatch, Batches
    <2>2. CASE pc'[c] = pc[c] /\ pc[c] \notin Inside
      BY <2>2, <1>7 DEF ConsumerBatch, Batches, Inside
    <2>3. CASE pc[c] = "notEmpty" /\ pc'[c] = "dequeue"
      BY <2>3, <1>7 DEF ConsumerBatch, Batches
    <2>. QED
      BY <1>1, <1>7, <2>1, <2>2, <2>3
  <1>8. Batches'
    BY <1>6, <1>7 DEF Batches
  <1>. QED
    BY <1>2, <1>3, <1>8

-----------------------------------------------------------------------------
(* The two steps that move an element.                                     *)

(* queue_enqueue adds the head of the batch at the end. *)
LEMMA InsertKeepsOrder ==
    ASSUME IndInv, NEW p \in Producer, EnqueueOne(p)
    PROVE  Delivery' /\ TypeOK' /\ Count' = Count + 1 /\ Contents' = Append(Contents, Head(buf[p]))
  <1>. USE DEF Thread
  <1>1. buf[p] \in Seq(Item) /\ buf[p] # <<>>
    BY DEF IndInv, TypeOK, EnqueueOne, EnqueueMore
  <1>2. Head(buf[p]) \in Item /\ Tail(buf[p]) \in Seq(Item)
    BY <1>1, HeadTailProperties
  <1>3. RingType
    BY DEF IndInv, TypeOK, RingType
  <1>4. /\ RingType'
        /\ Count' = Count + 1
        /\ Contents' = Append(Contents, Head(buf[p]))
    BY <1>2, <1>3, InsertAppends DEF EnqueueOne, EnqueueMore
  <1>5. TypeOK'
    <2>1. put' \in Seq(Item)
      BY <1>2, AppendProperties DEF EnqueueOne, IndInv, TypeOK
    <2>2. i' \in 0..Limit
      BY SizeAssumption DEF EnqueueOne, EnqueueMore, IndInv, TypeOK
    <2>3. buf' \in [Thread -> Seq(Item)]
      BY <1>2 DEF EnqueueOne, IndInv, TypeOK
    <2>. QED
      BY <1>4, <2>1, <2>2, <2>3 DEF EnqueueOne, IndInv, TypeOK, RingType
  <1>6. Delivery'
    <2>1. Contents' \in Seq(Item)
      BY <1>2, <1>4, AppendProperties DEF IndInv, Delivery
    <2>2. /\ put' = Append(put, Head(buf[p])) /\ put = got \o Contents /\ got' = got
          /\ put \in Seq(Item) /\ got \in Seq(Item) /\ Contents \in Seq(Item)
      BY DEF EnqueueOne, IndInv, TypeOK, Delivery, FirstInFirstOut
    <2>3. <<Head(buf[p])>> \in Seq(Item)
      BY <1>2
    <2>4. put' = put \o <<Head(buf[p])>> /\ Contents' = Contents \o <<Head(buf[p])>>
      BY <1>2, <1>4, <2>2, AppendIsConcat
    <2>5. (got \o Contents) \o <<Head(buf[p])>> = got \o (Contents \o <<Head(buf[p])>>)
      BY <2>2, <2>3, ConcatAssociative
    <2>6. put' = got' \o Contents'
      BY <2>2, <2>4, <2>5
    <2>. QED
      BY <2>1, <2>6 DEF Delivery, FirstInFirstOut
  <1>. QED
    BY <1>4, <1>5, <1>6

(* queue_dequeue takes the oldest element. *)
LEMMA RemoveKeepsOrder ==
    ASSUME IndInv, NEW c \in Consumer, DequeueOne(c)
    PROVE  /\ Delivery' /\ TypeOK' /\ Count' = Count - 1
           /\ Contents \in Seq(Item) /\ Contents # <<>>
           /\ data[tail] = Head(Contents) /\ Contents' = Tail(Contents)
  <1>. USE DEF Thread
  <1>1. RingType /\ RingElements
    BY RingContents DEF IndInv, TypeOK, RingType
  <1>2. /\ RingType'
        /\ Count' = Count - 1
        /\ data[tail] = Contents[1]
        /\ Contents' = Tail(Contents)
    BY <1>1, RemoveTakesOldest DEF DequeueOne, DequeueMore
  <1>3. Contents \in Seq(Item) /\ Contents # <<>>
    <2>1. Len(Contents) # 0
      BY <1>1, RingCount DEF RingElements, DequeueOne, DequeueMore
    <2>. QED
      BY <2>1, EmptySeq DEF IndInv, Delivery
  <1>4. /\ Head(Contents) \in Item /\ Head(Contents) = Contents[1]
        /\ Tail(Contents) \in Seq(Item)
    BY <1>3, HeadTailProperties
  <1>5. TypeOK'
    <2>1. got' \in Seq(Item)
      BY <1>2, <1>4, AppendProperties DEF DequeueOne, IndInv, TypeOK
    <2>2. i' \in 0..Limit
      BY SizeAssumption DEF DequeueOne, DequeueMore, IndInv, TypeOK
    <2>3. Append(buf[c], data[tail]) \in Seq(Item)
      BY <1>2, <1>4, AppendProperties DEF IndInv, TypeOK
    <2>4. buf' \in [Thread -> Seq(Item)]
      BY <2>3 DEF DequeueOne, IndInv, TypeOK
    <2>. QED
      BY <1>2, <2>1, <2>2, <2>4 DEF DequeueOne, IndInv, TypeOK, RingType
  <1>6. Delivery'
    <2>1. /\ got' = Append(got, Head(Contents)) /\ put = got \o Contents /\ put' = put
          /\ got \in Seq(Item)
      BY <1>2, <1>4 DEF DequeueOne, IndInv, TypeOK, Delivery, FirstInFirstOut
    <2>2. <<Head(Contents)>> \in Seq(Item)
      BY <1>4
    <2>3. Contents = <<Head(Contents)>> \o Tail(Contents)
      BY <1>3
    <2>4. got' = got \o <<Head(Contents)>>
      BY <1>4, <2>1, AppendIsConcat
    <2>5. put' = got' \o Tail(Contents)
      BY <1>4, <2>1, <2>2, <2>3, <2>4, ConcatAssociative
    <2>. QED
      BY <1>2, <1>4, <2>5 DEF Delivery, FirstInFirstOut
  <1>. QED
    BY <1>2, <1>3, <1>4, <1>5, <1>6

(* All other steps leave the ring buffer alone.                            *)
LEMMA QuietDelivery ==
    ASSUME IndInv, UNCHANGED <<ring, put, got>>
    PROVE  Delivery' /\ UNCHANGED <<Contents, Count, ringbuffer_isFull, ringbuffer_isEmpty>>
  BY DEF IndInv, Delivery, FirstInFirstOut, ring, Contents, Count,
         ringbuffer_isFull, ringbuffer_isEmpty

-----------------------------------------------------------------------------
(* Counting the producers that have terminated.                            *)

(* Only the end of a producer changes who is done. *)
LEMMA SameDone ==
    ASSUME NEW t \in Thread, NEW to, Woken(t, to), pc[t] # "done",
           t \in Producer => to # "done"
    PROVE  Done' = Done
  BY DEF Done, Woken, Asleep, Thread

(* The producers that are done are finite and at most all of them. *)
LEMMA DoneFacts ==
    /\ NProducers \in Nat
    /\ Done \subseteq Producer /\ IsFiniteSet(Done)
    /\ Cardinality(Done) \in 0..NProducers
    /\ \A p \in Producer \ Done :
           /\ Cardinality(Done) < NProducers
           /\ Cardinality(Done \cup {p}) = Cardinality(Done) + 1
  <1>1. Done \subseteq Producer /\ IsFiniteSet(Done) /\ IsFiniteSet(Producer)
    BY ThreadAssumption, FS_Subset DEF Done
  <1>2. /\ Cardinality(Done) \in Nat /\ Cardinality(Producer) \in Nat
        /\ Cardinality(Done) =< Cardinality(Producer)
    BY <1>1, FS_CardinalityType, FS_Subset
  <1>3. ASSUME NEW p \in Producer \ Done
        PROVE  Cardinality(Done) < NProducers /\ Cardinality(Done \cup {p}) = Cardinality(Done) + 1
    <2>1. Cardinality(Done \cup {p}) = Cardinality(Done) + 1
      BY <1>1, <1>3, FS_AddElement
    <2>2. Cardinality(Done \cup {p}) =< Cardinality(Producer)
      BY <1>1, <1>3, FS_Subset
    <2>. QED
      BY <1>2, <2>1, <2>2 DEF NProducers
  <1>. QED
    BY <1>1, <1>2, <1>3 DEF NProducers

-----------------------------------------------------------------------------
(* The steps of a producer.                                                *)

Labels == ProducerLabels \cup ConsumerLabels

(* Control points stay control points. *)
LEMMA WokenType ==
    ASSUME IndInv, NEW t \in Thread, NEW to \in Labels, Woken(t, to),
           pc' = [u \in Thread |-> pc'[u]]
    PROVE  pc' \in [Thread -> Labels]
  BY DEF IndInv, Control, Roles, Woken, Asleep, Labels, ProducerLabels, ConsumerLabels

(* A step of a producer outside the ring buffer. *)
LEMMA ProducerQuiet ==
    ASSUME IndInv, NEW p \in Producer, NEW to \in ProducerLabels, Woken(p, to),
           to # "done", pc[p] # "done",
           pc' = [u \in Thread |-> pc'[u]],
           UNCHANGED <<ring, put, got, nTerminated, spurious>>,
           buf' \in [Thread -> Seq(Item)], \A u \in Thread \ {p} : buf'[u] = buf[u],
           made' \in [Producer -> 0..PerProducer],
           \/ (pc[p] \in Inside <=> to \in Inside) /\ UNCHANGED mutex
           \/ pc[p] \notin Inside /\ to \in Inside /\ mutex = NoThread /\ mutex' = p
           \/ pc[p] \in Inside /\ to \notin Inside /\ mutex' = NoThread,
           UNCHANGED i \/ (pc[p] \in Inside /\ i' = 0),
           ProducerBatch(p)'
    PROVE  IndInv'
  <1>. USE DEF Thread
  <1>1. Delivery'
    BY QuietDelivery
  <1>2. Control'
    BY ControlStep, ThreadAssumption DEF IndInv, ring
  <1>3. TerminatedCount'
    BY SameDone DEF IndInv, TerminatedCount
  <1>4. pc' \in [Thread -> Labels]
    BY WokenType DEF Labels
  <1>5. TypeOK'
    <2>1. pc' \in [Thread -> {"work", "enqueue", "relock", "full?", "notFull", "insert",
                              "terminate", "dequeue", "empty?", "notEmpty", "remove", "done"}]
      BY <1>4 DEF Labels, ProducerLabels, ConsumerLabels
    <2>2. i' \in 0..Limit
      <3>1. i \in 0..Limit /\ 0 \in 0..Limit
        BY SizeAssumption DEF IndInv, TypeOK
      <3>. QED
        BY <3>1
    <2>3. mutex' \in Thread \cup {NoThread}
      <3>1. mutex \in Thread \cup {NoThread}
        BY DEF IndInv, TypeOK
      <3>. QED
        BY <3>1
    <2>. QED
      BY <2>1, <2>2, <2>3 DEF IndInv, TypeOK, ring
  <1>. QED
    BY <1>1, <1>2, <1>3, <1>5 DEF IndInv

(* A step of a consumer outside the ring buffer. *)
LEMMA ConsumerQuiet ==
    ASSUME IndInv, NEW c \in Consumer, NEW to \in ConsumerLabels, Woken(c, to),
           pc[c] # "done",
           pc' = [u \in Thread |-> pc'[u]],
           UNCHANGED <<ring, put, got, nTerminated, spurious, made>>,
           buf' \in [Thread -> Seq(Item)], \A u \in Thread \ {c} : buf'[u] = buf[u],
           \/ (pc[c] \in Inside <=> to \in Inside) /\ UNCHANGED mutex
           \/ pc[c] \notin Inside /\ to \in Inside /\ mutex = NoThread /\ mutex' = c
           \/ pc[c] \in Inside /\ to \notin Inside /\ mutex' = NoThread,
           UNCHANGED i \/ (pc[c] \in Inside /\ i' = 0),
           ConsumerBatch(c)'
    PROVE  IndInv'
  <1>. USE DEF Thread
  <1>1. Delivery'
    BY QuietDelivery
  <1>0. c \notin Producer
    BY ThreadAssumption
  <1>2. Control'
    BY <1>0, ControlStep DEF IndInv, ring
  <1>3. TerminatedCount'
    BY <1>0, SameDone DEF IndInv, TerminatedCount
  <1>4. pc' \in [Thread -> Labels]
    BY WokenType DEF Labels
  <1>5. TypeOK'
    <2>1. pc' \in [Thread -> {"work", "enqueue", "relock", "full?", "notFull", "insert",
                              "terminate", "dequeue", "empty?", "notEmpty", "remove", "done"}]
      BY <1>4 DEF Labels, ProducerLabels, ConsumerLabels
    <2>2. i' \in 0..Limit
      <3>1. i \in 0..Limit /\ 0 \in 0..Limit
        BY SizeAssumption DEF IndInv, TypeOK
      <3>. QED
        BY <3>1
    <2>3. mutex' \in Thread \cup {NoThread}
      <3>1. mutex \in Thread \cup {NoThread}
        BY DEF IndInv, TypeOK
      <3>. QED
        BY <3>1
    <2>. QED
      BY <2>1, <2>2, <2>3 DEF IndInv, TypeOK, ring
  <1>. QED
    BY <1>1, <1>2, <1>3, <1>5 DEF IndInv

(* queue_enqueue and queue_terminate keep the invariant. *)
LEMMA ProducerInvariant ==
    ASSUME IndInv, NEW p \in Producer, ProducerStep(p)
    PROVE  IndInv'
  <1>. USE DEF Thread
  <1>0. /\ TypeOK /\ Control /\ pc = [u \in Thread |-> pc[u]] /\ ProducerBatch(p)
        /\ buf \in [Thread -> Seq(Item)] /\ made \in [Producer -> 0..PerProducer]
    <2>1. TypeOK /\ Control /\ ProducerBatch(p)
      BY DEF IndInv, Control, Batches
    <2>2. buf \in [Thread -> Seq(Item)] /\ made \in [Producer -> 0..PerProducer]
      BY <2>1 DEF TypeOK
    <2>3. pc = [u \in Thread |-> pc[u]]
      BY <2>1 DEF TypeOK
    <2>. QED
      BY <2>1, <2>2, <2>3
  <1>1. CASE Insert(p)
    <2>1. PICK to \in {"enqueue", "work"} : pc' = [pc EXCEPT ![p] = to]
      BY <1>1 DEF Insert
    <2>2. Woken(p, to)
      BY <1>0, <2>1, GoWakes
    <2>3. made[p] + 1 \in 1..PerProducer
      BY <1>0, <1>1, BoundAssumption DEF Insert
    <2>4. made' = [made EXCEPT ![p] = made[p] + 1]
      BY <1>1 DEF Insert
    <2>5. buf' = [buf EXCEPT ![p] = Append(buf[p], <<p, made[p] + 1>>)]
      BY <1>0, <1>1, <2>4 DEF Insert
    <2>6. Append(buf[p], <<p, made[p] + 1>>) \in Seq(Item) /\ Append(buf[p], <<p, made[p] + 1>>) # <<>>
      <3>1. <<p, made[p] + 1>> \in Item
        BY <2>3 DEF Item
      <3>2. buf[p] \in Seq(Item)
        BY <1>0
      <3>. QED
        BY <3>1, <3>2, AppendProperties
    <2>7. ProducerBatch(p)'
      BY <1>0, <2>1, <2>5, <2>6 DEF ProducerBatch
    <2>8. buf' \in [Thread -> Seq(Item)] /\ \A u \in Thread \ {p} : buf'[u] = buf[u]
      BY <1>0, <2>5, <2>6
    <2>9. made' \in [Producer -> 0..PerProducer]
      BY <1>0, <2>3, <2>4
    <2>10. /\ to \in ProducerLabels /\ to # "done" /\ to \notin Inside
           /\ pc[p] # "done" /\ pc[p] \notin Inside
           /\ UNCHANGED <<ring, put, got, nTerminated, spurious, mutex, i>>
      BY <1>1 DEF Insert, ProducerLabels, Inside
    <2>11. pc' = [u \in Thread |-> pc'[u]]
      BY <1>0, <2>1
    <2>. QED
      BY <2>2, <2>7, <2>8, <2>9, <2>10, <2>11, ProducerQuiet
  <1>2. CASE Drain(p)
    <2>1. PICK to \in {"enqueue", "terminate"} :
              pc' = [pc EXCEPT ![p] = to] /\ (to = "enqueue" => buf[p] # <<>>)
      BY <1>2 DEF Drain, Go
    <2>2. Woken(p, to)
      BY <1>0, <2>1, GoWakes
    <2>3. ProducerBatch(p)'
      BY <1>0, <1>2, <2>1 DEF ProducerBatch, Drain
    <2>. QED
      BY <1>0, <1>2, <2>1, <2>2, <2>3, ProducerQuiet DEF Drain, Go, ProducerLabels, Inside
  <1>3. CASE EnqueueLock(p)
    <2>1. pc' = [pc EXCEPT ![p] = "full?"] /\ pc[p] \in {"enqueue", "relock"}
      BY <1>3 DEF EnqueueLock, Go
    <2>2. Woken(p, "full?")
      BY <1>0, <2>1, GoWakes
    <2>3. ProducerBatch(p)'
      BY <1>0, <1>3, <2>1 DEF ProducerBatch, EnqueueLock
    <2>. QED
      BY <1>0, <1>3, <2>1, <2>2, <2>3, ProducerQuiet DEF EnqueueLock, Acquire, ProducerLabels, Inside
  <1>4. CASE EnqueueCheck(p)
    <2>1. PICK to \in {"notFull", "insert"} :
              /\ pc' = [pc EXCEPT ![p] = to] /\ pc[p] = "full?"
              /\ to = "notFull" => mutex' = NoThread /\ i' = i
              /\ to = "insert" => ~ringbuffer_isFull /\ i' = 0 /\ mutex' = mutex
      BY <1>4 DEF EnqueueCheck, Go, Release
    <2>2. Woken(p, to)
      BY <1>0, <2>1, GoWakes
    <2>3. UNCHANGED <<Count, ringbuffer_isFull>> /\ Count \in Nat
      BY <1>4, QuietDelivery, RingCount, SizeAssumption DEF EnqueueCheck, IndInv, TypeOK, RingType
    <2>4. ProducerBatch(p)'
      BY <1>0, <1>4, <2>1, <2>3 DEF ProducerBatch, EnqueueCheck
    <2>. QED
      BY <1>0, <1>4, <2>1, <2>2, <2>4, ProducerQuiet DEF EnqueueCheck, ProducerLabels, Inside
  <1>5. CASE EnqueueOne(p)
    <2>1. /\ Delivery' /\ TypeOK' /\ Count' = Count + 1
      BY <1>5, InsertKeepsOrder
    <2>2. pc[p] = "insert" /\ pc' = pc /\ i' = i + 1 /\ mutex' = mutex
      BY <1>5 DEF EnqueueOne
    <2>3. i \in Nat /\ Count \in Nat
      BY <1>0, RingCount, SizeAssumption DEF TypeOK, RingType
    <2>4. ProducerBatch(p)'
      BY <1>0, <2>1, <2>2, <2>3 DEF ProducerBatch
    <2>5. Woken(p, "insert")
      BY <2>2 DEF Woken
    <2>6. \A u \in Thread \ {p} : buf'[u] = buf[u]
      BY <1>0, <1>5 DEF EnqueueOne
    <2>7. Control'
      BY <1>0, <2>2, <2>4, <2>5, <2>6, ControlStep, ThreadAssumption DEF ProducerLabels, Inside
    <2>8. TerminatedCount'
      BY <1>5 DEF EnqueueOne, IndInv, TerminatedCount, Done
    <2>. QED
      BY <2>1, <2>7, <2>8 DEF IndInv
  <1>6. CASE EnqueueReturn(p)
    <2>1. Woken(p, "work")
      BY <1>6, SignalWakes DEF EnqueueReturn, Asleep
    <2>2. pc' = [u \in Thread |-> pc'[u]]
      BY <1>6 DEF EnqueueReturn, GoAndWake
    <2>3. ProducerBatch(p)'
      BY <2>1 DEF ProducerBatch, Woken
    <2>. QED
      BY <1>0, <1>6, <2>1, <2>2, <2>3, ProducerQuiet DEF EnqueueReturn, Release, ProducerLabels, Inside
  <1>7. CASE queue_terminate(p)
    <2>1. Woken(p, "done")
      BY <1>7, SignalWakes DEF queue_terminate, Asleep
    <2>2. pc' = [u \in Thread |-> pc'[u]]
      BY <1>7 DEF queue_terminate, GoAndWake
    <2>3. ProducerBatch(p)'
      BY <2>1 DEF ProducerBatch, Woken
    <2>4. Control'
      BY <1>0, <1>7, <2>1, <2>3, ControlStep, ThreadAssumption DEF queue_terminate, ProducerLabels, Inside
    <2>5. p \notin Done /\ Done' = Done \cup {p}
      BY <1>7, <2>1 DEF Done, Woken, Asleep, queue_terminate
    <2>6. nTerminated' = Cardinality(Done') /\ nTerminated' \in 0..NProducers
      BY <1>7, <2>5, DoneFacts DEF queue_terminate, IndInv, TerminatedCount
    <2>7. pc' \in [Thread -> Labels]
      BY <2>1, <2>2, WokenType DEF Labels, ProducerLabels
    <2>8. TypeOK'
      BY <1>0, <1>7, <2>6, <2>7 DEF TypeOK, queue_terminate, ring, Labels, ProducerLabels, ConsumerLabels
    <2>9. Delivery'
      BY <1>7, QuietDelivery DEF queue_terminate
    <2>. QED
      BY <2>4, <2>6, <2>8, <2>9 DEF IndInv, TerminatedCount
  <1>. QED
    BY <1>1, <1>2, <1>3, <1>4, <1>5, <1>6, <1>7 DEF ProducerStep

-----------------------------------------------------------------------------
(* The steps of a consumer.                                                *)

(* queue_dequeue keeps the invariant. *)
LEMMA ConsumerInvariant ==
    ASSUME IndInv, NEW c \in Consumer, ConsumerStep(c)
    PROVE  IndInv'
  <1>. USE DEF Thread
  <1>0. /\ TypeOK /\ Control /\ pc = [u \in Thread |-> pc[u]] /\ ConsumerBatch(c)
        /\ buf \in [Thread -> Seq(Item)] /\ c \notin Producer
    <2>1. TypeOK /\ Control /\ ConsumerBatch(c)
      BY DEF IndInv, Control, Batches
    <2>2. buf \in [Thread -> Seq(Item)] /\ pc = [u \in Thread |-> pc[u]]
      BY <2>1 DEF TypeOK
    <2>. QED
      BY <2>1, <2>2, ThreadAssumption
  <1>1. CASE Process(c)
    <2>1. Woken(c, "dequeue")
      BY <1>0, <1>1, GoWakes DEF Process, Go
    <2>2. /\ buf' \in [Thread -> Seq(Item)] /\ buf'[c] = <<>>
          /\ \A u \in Thread \ {c} : buf'[u] = buf[u]
      BY <1>0, <1>1, EmptySeq DEF Process
    <2>3. ConsumerBatch(c)'
      BY <2>1, <2>2 DEF ConsumerBatch, Woken
    <2>. QED
      BY <1>0, <1>1, <2>1, <2>2, <2>3, ConsumerQuiet DEF Process, Go, ConsumerLabels, Inside
  <1>2. CASE DequeueLock(c)
    <2>1. Woken(c, "empty?")
      BY <1>0, <1>2, GoWakes DEF DequeueLock, Go
    <2>2. ConsumerBatch(c)'
      BY <1>0, <1>2, <2>1 DEF ConsumerBatch, Woken, DequeueLock, Go
    <2>. QED
      BY <1>0, <1>2, <2>1, <2>2, ConsumerQuiet DEF DequeueLock, Go, Acquire, ConsumerLabels, Inside
  <1>3. CASE DequeueCheck(c)
    <2>1. PICK to \in {"notEmpty", "done", "remove"} :
              /\ pc' = [pc EXCEPT ![c] = to] /\ pc[c] = "empty?"
              /\ to # "remove" => mutex' = NoThread /\ i' = i
              /\ to = "remove" => ~ringbuffer_isEmpty /\ i' = 0 /\ mutex' = mutex
      BY <1>3 DEF DequeueCheck, Go, Release
    <2>2. Woken(c, to)
      BY <1>0, <2>1, GoWakes
    <2>3. UNCHANGED <<ringbuffer_isEmpty, buf>>
      BY <1>3, QuietDelivery DEF DequeueCheck
    <2>4. ConsumerBatch(c)'
      BY <1>0, <2>1, <2>2, <2>3, EmptySeq DEF ConsumerBatch, Woken
    <2>. QED
      BY <1>0, <1>3, <2>1, <2>2, <2>3, <2>4, ConsumerQuiet DEF DequeueCheck, ConsumerLabels, Inside
  <1>4. CASE DequeueOne(c)
    <2>1. Delivery' /\ TypeOK' /\ data[tail] \in Item
      BY <1>4, RemoveKeepsOrder, HeadTailProperties
    <2>2. /\ pc[c] = "remove" /\ pc' = pc /\ i' = i + 1 /\ mutex' = mutex
          /\ buf' = [buf EXCEPT ![c] = Append(buf[c], data[tail])]
      BY <1>4 DEF DequeueOne
    <2>3. i \in Nat /\ buf[c] \in Seq(Item)
      BY <1>0, SizeAssumption DEF TypeOK
    <2>4. Len(Append(buf[c], data[tail])) = Len(buf[c]) + 1
      BY <2>1, <2>3, AppendProperties
    <2>5. ConsumerBatch(c)'
      BY <1>0, <2>2, <2>3, <2>4 DEF ConsumerBatch
    <2>6. Woken(c, "remove")
      BY <2>2 DEF Woken
    <2>7. \A u \in Thread \ {c} : buf'[u] = buf[u]
      BY <1>0, <2>2
    <2>8. Control'
      BY <1>0, <2>2, <2>5, <2>6, <2>7, ControlStep DEF ConsumerLabels, Inside
    <2>9. TerminatedCount'
      BY <1>4 DEF DequeueOne, IndInv, TerminatedCount, Done
    <2>. QED
      BY <2>1, <2>8, <2>9 DEF IndInv
  <1>5. CASE DequeueReturn(c)
    <2>1. Woken(c, "work")
      BY <1>5, SignalWakes DEF DequeueReturn, Asleep
    <2>2. pc' = [u \in Thread |-> pc'[u]]
      BY <1>5 DEF DequeueReturn, GoAndWake
    <2>3. ConsumerBatch(c)'
      BY <2>1 DEF ConsumerBatch, Woken
    <2>. QED
      BY <1>0, <1>5, <2>1, <2>2, <2>3, ConsumerQuiet DEF DequeueReturn, Release, ConsumerLabels, Inside
  <1>. QED
    BY <1>1, <1>2, <1>3, <1>4, <1>5 DEF ConsumerStep

(* A wake-up without a signal keeps the invariant. *)
LEMMA SpuriousInvariant ==
    ASSUME IndInv, NEW t \in Thread, SpuriousWakeup(t)
    PROVE  IndInv'
  <1>. USE DEF Thread
  <1>0. TypeOK /\ Control /\ pc = [u \in Thread |-> pc[u]]
    BY DEF IndInv, TypeOK
  <1>1. PICK to \in {"relock", "dequeue"} :
            /\ pc' = [pc EXCEPT ![t] = to]
            /\ \/ to = "relock" /\ pc[t] = "notFull" /\ t \in Producer /\ t \notin Consumer
               \/ to = "dequeue" /\ pc[t] = "notEmpty" /\ t \in Consumer /\ t \notin Producer
    BY <1>0, ThreadAssumption DEF SpuriousWakeup, Go, Control, Roles, ProducerLabels, ConsumerLabels
  <1>2. Woken(t, to)
    BY <1>0, <1>1, GoWakes
  <1>3. /\ t \in Producer => ProducerBatch(t)'
        /\ t \in Consumer => ConsumerBatch(t)'
    BY <1>0, <1>1, <1>2 DEF Control, Batches, ProducerBatch, ConsumerBatch, Woken, SpuriousWakeup
  <1>4. Control'
    BY <1>0, <1>1, <1>2, <1>3, ControlStep DEF SpuriousWakeup, ProducerLabels, ConsumerLabels, Inside
  <1>5. TerminatedCount'
    BY <1>1, <1>2, SameDone DEF SpuriousWakeup, IndInv, TerminatedCount
  <1>6. Delivery'
    BY QuietDelivery DEF SpuriousWakeup
  <1>7. spurious' \in 0..MaxSpurious
    BY <1>0, BoundAssumption DEF SpuriousWakeup, TypeOK
  <1>8. TypeOK'
    BY <1>0, <1>1, <1>7 DEF SpuriousWakeup, TypeOK, ring
  <1>. QED
    BY <1>4, <1>5, <1>6, <1>8 DEF IndInv

(* queue_init establishes the invariant. *)
LEMMA InitIndInv == queue_init => IndInv
  <1>. SUFFICES ASSUME queue_init PROVE IndInv
    OBVIOUS
  <1>. USE DEF queue_init, Thread
  <1>1. TypeOK
    <2>1. NProducers \in Nat
      BY DoneFacts
    <2>. QED
      BY <2>1, SizeAssumption, BoundAssumption, EmptySeq DEF TypeOK
  <1>2. Contents = <<>>
    <2>1. RingElements /\ Count = 0
      BY <1>1, RingContents, RingCount DEF TypeOK, RingType, ringbuffer_isEmpty
    <2>. QED
      BY <2>1, EmptySeq DEF RingElements
  <1>3. Delivery
    BY <1>2, EmptySeq, ConcatEmptySeq DEF Delivery, FirstInFirstOut
  <1>4. Control
    BY ThreadAssumption DEF Control, Roles, Mutex, Batches, ProducerBatch, ConsumerBatch,
                            ProducerLabels, ConsumerLabels, Inside
  <1>5. TerminatedCount
    <2>1. Done = {}
      BY DEF Done
    <2>. QED
      BY <2>1, FS_EmptySet DEF TerminatedCount
  <1>. QED
    BY <1>1, <1>3, <1>4, <1>5 DEF IndInv

(* Every step keeps it. *)
LEMMA NextIndInv == IndInv /\ [Next]_vars => IndInv'
  <1>. SUFFICES ASSUME IndInv, [Next]_vars PROVE IndInv'
    OBVIOUS
  <1>1. CASE UNCHANGED vars
    <2>1. Delivery'
      BY <1>1, QuietDelivery DEF vars, ring
    <2>2. TypeOK' /\ TerminatedCount'
      BY <1>1 DEF vars, IndInv, TypeOK, TerminatedCount, Done
    <2>3. Control'
      BY <1>1 DEF vars, IndInv, Control, Roles, Mutex, Batches, ProducerBatch, ConsumerBatch,
                  Count, ringbuffer_isFull, ringbuffer_isEmpty
    <2>. QED
      BY <2>1, <2>2, <2>3 DEF IndInv
  <1>. QED
    BY <1>1, ProducerInvariant, ConsumerInvariant, SpuriousInvariant DEF Next

(***************************************************************************)
(* The inductive invariant: what queue_enqueue, queue_dequeue and          *)
(* queue_terminate keep at every step of every thread.                     *)
(***************************************************************************)
THEOREM Invariance == Spec => []IndInv
  BY InitIndInv, NextIndInv, PTL DEF Spec

(***************************************************************************)
(* Type correctness of the queue: head and tail stay inside the ring       *)
(* buffer and nTerminated never exceeds nProducers, as queue_isTerminated  *)
(* and queue_terminate assert.                                             *)
(***************************************************************************)
THEOREM TypeCorrect == Spec => []TypeOK
  <1>1. IndInv => TypeOK
    BY DEF IndInv
  <1>. QED
    BY <1>1, Invariance, PTL

(***************************************************************************)
(* For any number of threads and any size, the ring buffer of queue.h      *)
(* delivers what was inserted, in order: queue_dequeue returns nothing     *)
(* else and nothing twice.                                                 *)
(***************************************************************************)
THEOREM Fifo == Spec => []FirstInFirstOut
  <1>1. IndInv => FirstInFirstOut
    BY DEF IndInv, Delivery
  <1>. QED
    BY <1>1, Invariance, PTL

-----------------------------------------------------------------------------
(* The queue implements a channel of batches.                              *)

ended == \E c \in Consumer : pc[c] = "done"
AbstractVars == <<Committed, nTerminated, ended>>

(* Only the end of a consumer changes whether one has ended. *)
LEMMA SameEnded ==
    ASSUME NEW t \in Thread, NEW to, Woken(t, to), pc[t] # "done",
           t \in Consumer => to # "done"
    PROVE  ended' = ended
  BY DEF ended, Woken, Asleep, Thread

(* A step outside the critical section is not seen.                        *)
LEMMA OutsideStutters ==
    ASSUME IndInv, NEW t \in Thread, NEW to, Woken(t, to), pc[t] \notin Inside, pc[t] # "done",
           to # "done", UNCHANGED <<ring, put, got, i, mutex, nTerminated>>,
           \A u \in Thread \ {t} : buf'[u] = buf[u]
    PROVE  UNCHANGED AbstractVars
  <1>1. Contents' = Contents
    BY QuietDelivery
  <1>2. ended' = ended
    BY SameEnded
  <1>3. mutex \in Thread => mutex # t /\ pc'[mutex] = pc[mutex] /\ buf'[mutex] = buf[mutex]
    BY DEF IndInv, Control, Mutex, Woken, Inside, Asleep
  <1>4. Committed' = Committed
    BY <1>1, <1>3 DEF Committed
  <1>. QED
    BY <1>2, <1>4 DEF AbstractVars

(* queue_enqueue and queue_terminate as BatchChannel has them. *)
LEMMA ProducerSimulates ==
    ASSUME IndInv, NEW p \in Producer, ProducerStep(p)
    PROVE  Abstract!Next \/ UNCHANGED AbstractVars
  <1>. USE DEF Thread
  <1>0. /\ TypeOK /\ pc = [u \in Thread |-> pc[u]] /\ buf \in [Thread -> Seq(Item)]
        /\ i \in Nat /\ p \notin Consumer /\ NoThread \notin Thread
    BY ThreadAssumption, SizeAssumption DEF IndInv, TypeOK
  <1>01. /\ RingType /\ RingElements /\ Contents \in Seq(Item)
         /\ Count \in 0..Size /\ Len(Contents) = Count
    BY <1>0, RingContents, RingCount DEF IndInv, TypeOK, RingType, RingElements, Delivery
  <1>1. CASE Insert(p)
    <2>1. PICK to \in {"enqueue", "work"} : pc' = [pc EXCEPT ![p] = to]
      BY <1>1 DEF Insert
    <2>2. Woken(p, to)
      BY <1>0, <2>1, GoWakes
    <2>3. \A u \in Thread \ {p} : buf'[u] = buf[u]
      BY <1>0, <1>1 DEF Insert
    <2>. QED
      BY <1>1, <2>2, <2>3, OutsideStutters DEF Insert, Inside
  <1>2. CASE Drain(p)
    <2>1. PICK to \in {"enqueue", "terminate"} : pc' = [pc EXCEPT ![p] = to]
      BY <1>2 DEF Drain, Go
    <2>2. Woken(p, to)
      BY <1>0, <2>1, GoWakes
    <2>. QED
      BY <1>2, <2>2, OutsideStutters DEF Drain, Go, Inside
  <1>3. CASE EnqueueLock(p)
    <2>1. Contents' = Contents
      BY <1>3, QuietDelivery DEF EnqueueLock
    <2>2. pc' = [pc EXCEPT ![p] = "full?"] /\ pc[p] # "done"
      BY <1>3 DEF EnqueueLock, Go
    <2>3. Committed = Contents /\ Committed' = Contents'
      BY <1>0, <1>3, <2>2 DEF EnqueueLock, Acquire, Committed
    <2>4. ended' = ended
      BY <1>0, <2>2, SameEnded, GoWakes
    <2>. QED
      BY <1>3, <2>1, <2>3, <2>4 DEF AbstractVars, EnqueueLock
  <1>4. CASE EnqueueCheck(p)
    <2>1. Contents' = Contents
      BY <1>4, QuietDelivery DEF EnqueueCheck
    <2>2. PICK to \in {"notFull", "insert"} :
              /\ pc' = [pc EXCEPT ![p] = to] /\ pc[p] = "full?"
              /\ to = "notFull" => mutex' = NoThread /\ i' = i
              /\ to = "insert" => i' = 0 /\ mutex' = mutex
      BY <1>4 DEF EnqueueCheck, Go, Release
    <2>3. mutex = p
      BY <2>2 DEF IndInv, Control, Mutex, Inside
    <2>4. Committed = Contents
      BY <2>2, <2>3 DEF Committed
    <2>5. SubSeq(Contents, 1, Len(Contents) - 0) = Contents
      BY <1>01, SubSeqFull
    <2>6. Committed' = Contents
      BY <1>0, <2>1, <2>2, <2>3, <2>5 DEF Committed
    <2>7. ended' = ended
      BY <1>0, <2>2, SameEnded, GoWakes
    <2>. QED
      BY <1>4, <2>4, <2>6, <2>7 DEF AbstractVars, EnqueueCheck
  <1>5. CASE EnqueueOne(p)
    <2>1. pc[p] = "insert" /\ pc' = pc /\ i' = i + 1 /\ mutex' = mutex /\ nTerminated' = nTerminated
      BY <1>5 DEF EnqueueOne
    <2>2. mutex = p /\ i =< Count
      BY <2>1 DEF IndInv, Control, Mutex, Inside, Batches, ProducerBatch
    <2>3. Contents' = Append(Contents, Head(buf[p])) /\ Head(buf[p]) \in Item
      BY <1>0, <1>5, InsertKeepsOrder, HeadTailProperties DEF EnqueueOne, EnqueueMore
    <2>4. Contents' = Contents \o <<Head(buf[p])>> /\ Len(Contents') = Len(Contents) + 1
      BY <1>01, <2>3, AppendIsConcat, AppendProperties
    <2>5. SubSeq(Contents', 1, Len(Contents') - i') = SubSeq(Contents, 1, Len(Contents) - i)
      <3>1. Len(Contents') - i' = Len(Contents) - i /\ Len(Contents) - i \in 0..Len(Contents)
        BY <1>0, <1>01, <2>1, <2>2, <2>4
      <3>2. CASE Len(Contents) - i = 0
        BY <3>1, <3>2, SubSeqEmpty
      <3>3. CASE Len(Contents) - i # 0
        <4>1. <<Head(buf[p])>> \in Seq(Item) /\ 1 \in 1..Len(Contents)
              /\ Len(Contents) - i \in 1..Len(Contents)
          BY <1>01, <2>3, <3>1, <3>3
        <4>. QED
          BY <1>01, <2>4, <3>1, <4>1, SubSeqOfConcat1
      <3>. QED
        BY <3>2, <3>3
    <2>6. Committed' = Committed
      BY <2>1, <2>2, <2>5 DEF Committed
    <2>. QED
      BY <2>1, <2>6 DEF AbstractVars, ended
  <1>6. CASE EnqueueReturn(p)
    <2>1. /\ pc[p] = "insert" /\ mutex' = NoThread /\ ~EnqueueMore(p)
          /\ UNCHANGED <<ring, put, got, i, nTerminated>>
      BY <1>6 DEF EnqueueReturn, Release
    <2>2. mutex = p /\ i =< Count /\ (i = 0 => buf[p] # <<>> /\ ~ringbuffer_isFull)
      BY <2>1 DEF IndInv, Control, Mutex, Inside, Batches, ProducerBatch
    <2>3. i \in 1..Limit /\ i =< Len(Contents)
      BY <1>0, <1>01, <2>1, <2>2, SizeAssumption DEF EnqueueMore, TypeOK
    <2>4. Committed = SubSeq(Contents, 1, Len(Contents) - i)
      BY <2>1, <2>2 DEF Committed
    <2>5. Committed' = Contents
      BY <1>0, <2>1, QuietDelivery DEF Committed
    <2>6. ended' = ended
      BY <1>0, <1>6, <2>1, SignalWakes, SameEnded DEF EnqueueReturn, Asleep
    <2>7. nTerminated < NProducers
      BY <2>1, DoneFacts DEF IndInv, TerminatedCount, Done
    <2>. DEFINE batch == SubSeq(Contents, Len(Contents) - i + 1, Len(Contents))
    <2>8. Committed \o batch = Contents
      <3>1. /\ 1 \in 1..Len(Contents) + 1 /\ Len(Contents) - i \in 1 - 1..Len(Contents)
            /\ Len(Contents) \in (Len(Contents) - i)..Len(Contents)
        BY <1>01, <2>3, SizeAssumption
      <3>2. SubSeq(Contents, 1, Len(Contents) - i) \o SubSeq(Contents, Len(Contents) - i + 1, Len(Contents))
                = SubSeq(Contents, 1, Len(Contents))
        BY <1>01, <3>1, ConcatAdjacentSubSeq
      <3>. QED
        BY <1>01, <2>4, <3>2, SubSeqFull
    <2>9. batch \in [1..i -> Item] /\ Len(Committed) = Len(Contents) - i
      <3>1. \A k \in 1..Len(Contents) : Contents[k] \in Item
        BY <1>01, ElementOfSeq
      <3>2. /\ Len(Contents) - i + 1 \in Int /\ Len(Contents) \in Int /\ Len(Contents) - i \in Int
            /\ \A k \in (Len(Contents) - i + 1)..Len(Contents) : Contents[k] \in Item
            /\ \A k \in 1..Len(Contents) - i : Contents[k] \in Item
        BY <1>01, <2>3, <3>1, SizeAssumption
      <3>3. /\ batch \in Seq(Item)
            /\ Len(batch) = IF Len(Contents) - i + 1 =< Len(Contents)
                             THEN Len(Contents) - (Len(Contents) - i + 1) + 1 ELSE 0
        BY <3>2, SubSeqProperties
      <3>4. Len(Committed) = IF 1 =< Len(Contents) - i THEN (Len(Contents) - i) - 1 + 1 ELSE 0
        BY <2>4, <3>2, SubSeqProperties
      <3>5. Len(batch) = i /\ Len(Committed) = Len(Contents) - i
        BY <1>01, <2>3, <3>3, <3>4, SizeAssumption
      <3>6. batch \in [1..Len(batch) -> Item]
        BY <3>3, LenProperties
      <3>. HIDE DEF batch
      <3>. QED
        BY <3>5, <3>6
    <2>10. Len(Committed) + i =< Size
      BY <1>01, <2>3, <2>9, SizeAssumption
    <2>11. Abstract!Send
      BY <2>1, <2>3, <2>5, <2>6, <2>7, <2>8, <2>9, <2>10 DEF Abstract!Send, ended
    <2>. QED
      BY <2>11 DEF Abstract!Next
  <1>7. CASE queue_terminate(p)
    <2>1. Committed = Contents /\ Committed' = Contents
      BY <1>0, <1>7, QuietDelivery DEF queue_terminate, Committed
    <2>2. ended' = ended
      BY <1>0, <1>7, SignalWakes, SameEnded DEF queue_terminate, Asleep
    <2>3. nTerminated < NProducers
      BY <1>7, DoneFacts DEF IndInv, TerminatedCount, Done, queue_terminate
    <2>4. Abstract!Terminate
      BY <1>7, <2>1, <2>2, <2>3 DEF Abstract!Terminate, queue_terminate, ended
    <2>. QED
      BY <2>4 DEF Abstract!Next
  <1>. QED
    BY <1>1, <1>2, <1>3, <1>4, <1>5, <1>6, <1>7 DEF ProducerStep

(* queue_dequeue as BatchChannel has it. *)
LEMMA ConsumerSimulates ==
    ASSUME IndInv, NEW c \in Consumer, ConsumerStep(c)
    PROVE  Abstract!Next \/ UNCHANGED AbstractVars
  <1>. USE DEF Thread
  <1>0. /\ TypeOK /\ pc = [u \in Thread |-> pc[u]] /\ buf \in [Thread -> Seq(Item)]
        /\ i \in Nat /\ c \notin Producer /\ NoThread \notin Thread
    BY ThreadAssumption, SizeAssumption DEF IndInv, TypeOK
  <1>01. /\ RingType /\ RingElements /\ Contents \in Seq(Item)
         /\ Count \in 0..Size /\ Len(Contents) = Count
         /\ ringbuffer_isEmpty <=> Contents = <<>>
    <2>1. /\ RingType /\ RingElements /\ Contents \in Seq(Item) /\ Count \in 0..Size
          /\ ringbuffer_isEmpty <=> Count = 0
      BY <1>0, RingContents, RingCount DEF IndInv, TypeOK, RingType, Delivery
    <2>2. Len(Contents) = Count
      BY <2>1 DEF RingElements
    <2>. QED
      BY <2>1, <2>2, EmptySeq
  <1>1. CASE Process(c)
    <2>1. Woken(c, "dequeue")
      BY <1>0, <1>1, GoWakes DEF Process, Go
    <2>2. \A u \in Thread \ {c} : buf'[u] = buf[u]
      BY <1>0, <1>1 DEF Process
    <2>. QED
      BY <1>1, <2>1, <2>2, OutsideStutters DEF Process, Go, Inside
  <1>2. CASE DequeueLock(c)
    <2>1. Contents' = Contents
      BY <1>2, QuietDelivery DEF DequeueLock
    <2>2. Committed = Contents /\ Committed' = Contents'
      BY <1>0, <1>2 DEF DequeueLock, Acquire, Go, Committed
    <2>3. ended' = ended
      BY <1>0, <1>2, SameEnded, GoWakes DEF DequeueLock, Go
    <2>. QED
      BY <1>2, <2>1, <2>2, <2>3 DEF AbstractVars, DequeueLock
  <1>3. CASE DequeueCheck(c)
    <2>1. Contents' = Contents
      BY <1>3, QuietDelivery DEF DequeueCheck
    <2>2. PICK to \in {"notEmpty", "done", "remove"} :
              /\ pc' = [pc EXCEPT ![c] = to] /\ pc[c] = "empty?"
              /\ to # "remove" => mutex' = NoThread
              /\ to = "remove" => mutex' = mutex
              /\ to = "done" => ringbuffer_isEmpty /\ queue_isTerminated
      BY <1>3 DEF DequeueCheck, Go, Release
    <2>3. mutex = c /\ buf[c] = <<>> /\ buf' = buf /\ nTerminated' = nTerminated
      BY <1>3, <2>2 DEF IndInv, Control, Mutex, Inside, Batches, ConsumerBatch, DequeueCheck
    <2>4. Committed = Contents
      BY <2>2, <2>3 DEF Committed
    <2>5. <<>> \o Contents = Contents
      BY <1>01, ConcatEmptySeq
    <2>6. Committed' = Contents
      BY <1>0, <2>1, <2>2, <2>3, <2>5 DEF Committed
    <2>7. CASE to = "done"
      <3>1. ended'
        BY <1>0, <2>2, <2>7 DEF ended
      <3>2. Abstract!End
        BY <1>01, <2>2, <2>3, <2>4, <2>6, <2>7, <3>1 DEF Abstract!End, ended, queue_isTerminated
      <3>. QED
        BY <3>2 DEF Abstract!Next
    <2>8. CASE to # "done"
      <3>1. ended' = ended
        BY <1>0, <2>2, <2>8, SameEnded, GoWakes
      <3>. QED
        BY <2>3, <2>4, <2>6, <3>1 DEF AbstractVars
    <2>. QED
      BY <2>7, <2>8
  <1>4. CASE DequeueOne(c)
    <2>1. /\ pc[c] = "remove" /\ pc' = pc /\ mutex' = mutex /\ nTerminated' = nTerminated
          /\ buf' = [buf EXCEPT ![c] = Append(buf[c], data[tail])]
      BY <1>4 DEF DequeueOne
    <2>2. mutex = c /\ buf[c] \in Seq(Item)
      BY <1>0, <2>1 DEF IndInv, Control, Mutex, Inside
    <2>3. Contents # <<>> /\ data[tail] = Head(Contents) /\ Contents' = Tail(Contents)
      BY <1>4, RemoveKeepsOrder
    <2>4. Head(Contents) \in Item /\ Tail(Contents) \in Seq(Item) /\ <<Head(Contents)>> \in Seq(Item)
      BY <1>01, <2>3, HeadTailProperties
    <2>5. Contents = <<Head(Contents)>> \o Tail(Contents)
      BY <1>01, <2>3
    <2>6. buf'[c] = buf[c] \o <<Head(Contents)>>
      BY <1>0, <2>1, <2>2, <2>3, <2>4, AppendIsConcat
    <2>7. buf'[c] \o Contents' = buf[c] \o Contents
      <3>1. (buf[c] \o <<Head(Contents)>>) \o Tail(Contents) = buf[c] \o (<<Head(Contents)>> \o Tail(Contents))
        BY <2>2, <2>4, ConcatAssociative
      <3>. QED
        BY <2>3, <2>5, <2>6, <3>1
    <2>8. Committed' = Committed
      BY <2>1, <2>2, <2>7 DEF Committed
    <2>. QED
      BY <2>1, <2>8 DEF AbstractVars, ended
  <1>5. CASE DequeueReturn(c)
    <2>1. /\ pc[c] = "remove" /\ mutex' = NoThread /\ ~DequeueMore(c)
          /\ UNCHANGED <<ring, put, got, i, nTerminated>>
      BY <1>5 DEF DequeueReturn, Release
    <2>2. /\ mutex = c /\ Len(buf[c]) = i /\ (i = 0 => Contents # <<>>)
          /\ buf[c] \in Seq(Item)
      BY <1>0, <1>01, <2>1 DEF IndInv, Control, Mutex, Inside, Batches, ConsumerBatch
    <2>3. Committed = buf[c] \o Contents
      BY <2>1, <2>2 DEF Committed
    <2>4. Committed' = Contents
      BY <1>0, <2>1, QuietDelivery DEF Committed
    <2>5. ended' = ended
      BY <1>0, <1>5, <2>1, SignalWakes, SameEnded DEF DequeueReturn, Asleep
    <2>6. /\ Committed \in Seq(Item) /\ Len(Committed) = i + Count
          /\ \A k \in 1..i + Count : Committed[k] = IF k =< i THEN buf[c][k] ELSE Contents[k - i]
      BY <1>01, <2>2, <2>3, ConcatProperties
    <2>7. i >= Limit \/ Count = 0
      BY <1>0, <1>01, <2>1, <2>2, EmptySeq, SizeAssumption DEF DequeueMore
    <2>8. i =< Limit /\ i + Count > 0
      BY <1>0, <1>01, <2>2, EmptySeq, SizeAssumption DEF TypeOK
    <2>9. (IF Len(Committed) < Limit THEN Len(Committed) ELSE Limit) = i
      BY <1>0, <1>01, <2>6, <2>7, <2>8, SizeAssumption
    <2>10. Contents = SubSeq(Committed, i + 1, Len(Committed))
      <3>1. /\ i + 1 \in Int /\ Len(Committed) \in Int
            /\ \A k \in i + 1..Len(Committed) : Committed[k] \in Item
        BY <1>0, <1>01, <2>6, ElementOfSeq, SizeAssumption
      <3>. DEFINE rest == SubSeq(Committed, i + 1, Len(Committed))
      <3>2. /\ rest \in Seq(Item)
            /\ Len(rest) = IF i + 1 =< Len(Committed) THEN Len(Committed) - (i + 1) + 1 ELSE 0
            /\ \A k \in 1..Len(Committed) - (i + 1) + 1 : rest[k] = Committed[i + 1 + k - 1]
        BY <3>1, SubSeqProperties
      <3>. HIDE DEF rest
      <3>3. Len(rest) = Len(Contents)
        BY <1>0, <1>01, <2>6, <3>2, SizeAssumption
      <3>4. \A k \in 1..Len(rest) : rest[k] = Contents[k]
        <4>. TAKE k \in 1..Len(rest)
        <4>1. k \in 1..Count /\ i + 1 + k - 1 = i + k /\ i + k \in 1..i + Count /\ ~(i + k =< i) /\ (i + k) - i = k
          BY <1>0, <1>01, <3>3, SizeAssumption
        <4>2. rest[k] = Committed[i + 1 + k - 1]
          BY <1>0, <1>01, <2>6, <3>2, <4>1, SizeAssumption
        <4>3. Committed[i + k] = Contents[(i + k) - i]
          BY <2>6, <4>1
        <4>. QED
          BY <4>1, <4>2, <4>3
      <3>5. rest = Contents
        BY <1>01, <3>2, <3>3, <3>4, SeqEqual
      <3>. QED
        BY <3>5 DEF rest
    <2>11. Committed # <<>>
      BY <2>6, <2>8, EmptySeq
    <2>12. Abstract!Receive
      BY <2>1, <2>4, <2>5, <2>9, <2>10, <2>11 DEF Abstract!Receive, ended
    <2>. QED
      BY <2>12 DEF Abstract!Next
  <1>. QED
    BY <1>1, <1>2, <1>3, <1>4, <1>5 DEF ConsumerStep

(* A wake-up without a signal does not show in BatchChannel. *)
LEMMA SpuriousSimulates ==
    ASSUME IndInv, NEW t \in Thread, SpuriousWakeup(t)
    PROVE  UNCHANGED AbstractVars
  <1>1. PICK to \in {"relock", "dequeue"} : pc' = [pc EXCEPT ![t] = to] /\ pc[t] \in Asleep
    BY DEF SpuriousWakeup, Go, Asleep
  <1>2. Woken(t, to)
    BY <1>1, GoWakes DEF IndInv, TypeOK
  <1>. QED
    BY <1>1, <1>2, OutsideStutters DEF SpuriousWakeup, Inside, Asleep

(***************************************************************************)
(* For any number of threads and any size, queue_enqueue, queue_dequeue    *)
(* and queue_terminate implement a bounded FIFO of batches: the step at    *)
(* which a call releases the mutex is the step at which the others see its *)
(* whole batch, and no consumer is told of the end before every producer   *)
(* has terminated and the queue is empty.                                  *)
(***************************************************************************)
THEOREM Refinement == Spec => ImplementsBatchChannel
  <1>1. queue_init => Abstract!Init
    <2>. SUFFICES ASSUME queue_init PROVE Abstract!Init
      OBVIOUS
    <2>1. RingType
      BY SizeAssumption DEF queue_init, RingType
    <2>2. Count = 0 /\ RingElements
      BY <2>1, RingCount, RingContents DEF queue_init, ringbuffer_isEmpty
    <2>3. Contents = <<>>
      BY <2>2, EmptySeq DEF RingElements
    <2>4. Committed = <<>>
      BY <2>3, ThreadAssumption DEF queue_init, Committed, Thread
    <2>5. ~ended
      BY ThreadAssumption DEF queue_init, ended, Thread
    <2>. QED
      BY <2>4, <2>5 DEF queue_init, Abstract!Init, ended
  <1>2. IndInv /\ [Next]_vars => [Abstract!Next]_AbstractVars
    <2>. SUFFICES ASSUME IndInv, [Next]_vars PROVE [Abstract!Next]_AbstractVars
      OBVIOUS
    <2>1. CASE UNCHANGED vars
      BY <2>1 DEF vars, AbstractVars, Committed, Contents, Count, ended
    <2>. QED
      BY <2>1, ProducerSimulates, ConsumerSimulates, SpuriousSimulates DEF Next
  <1>3. [Abstract!Next]_AbstractVars =>
            [Abstract!Next]_<<Committed, nTerminated, \E c \in Consumer : pc[c] = "done">>
    BY DEF AbstractVars, ended
  <1>. QED
    BY <1>1, <1>2, <1>3, Invariance, PTL DEF Spec, ImplementsBatchChannel, Abstract!Spec

=============================================================================
