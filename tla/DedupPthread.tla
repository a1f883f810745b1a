---------------------------- MODULE DedupPthread ----------------------------
(***************************************************************************)
(* The parallel pipeline of the pthread build of dedup                     *)
(* (src/apps/dedup/src/pthread/encoder.c):                                 *)
(* Fragment -> FragmentRefine -> Deduplicate -> Compress -> Reorder, with  *)
(* the duplicates going from Deduplicate directly to Reorder.  Fragment    *)
(* and Reorder are one thread each, the other stages NThreads threads.     *)
(* Every MAX_THREADS_PER_QUEUE threads of a stage share a queue.           *)
(*                                                                         *)
(* A call of queue_enqueue, queue_dequeue or queue_terminate is one step,  *)
(* blocking where the call waits: DedupQueue shows that the calls          *)
(* implement such a queue.                                                 *)
(***************************************************************************)
EXTENDS DedupStages

CONSTANTS
    NThreads,               \* conf->nthreads
    MAX_THREADS_PER_QUEUE,
    QUEUE_SIZE,
    MAX_PER_FETCH,          \* coarse chunks per fetch
    ITEM_PER_FETCH,         \* fine chunks per fetch, in all stages
    ITEM_PER_INSERT         \* fine chunks per insert, in all stages

ASSUME SizesAssumption ==
    {NThreads, MAX_THREADS_PER_QUEUE, QUEUE_SIZE, MAX_PER_FETCH, ITEM_PER_FETCH, ITEM_PER_INSERT}
        \subseteq Nat \ {0}

VARIABLES
    que,      \* the contents of each queue
    nTerminated,
    recv,     \* recv_buf of each thread
    send,     \* send_buf of each thread; send_buf_compress of Deduplicate
    sendDup,  \* send_buf_reorder of each Deduplicate thread
    chcount,  \* fine chunks already split off the coarse chunk at hand
    anchor,   \* Fragment's anchorcount
    qid,      \* the queue that Fragment and Reorder turn to next
    pc

pipeVars == <<que, nTerminated, recv, send, sendDup, chcount, anchor, qid, pc>>
vars == <<stageVars, pipeVars>>

NQueues == (NThreads \div MAX_THREADS_PER_QUEUE)
           + (IF NThreads % MAX_THREADS_PER_QUEUE # 0 THEN 1 ELSE 0)
QueueIds == 0..NQueues - 1
Stages == {"refine", "deduplicate", "compress"}
Workers == Stages \X (0..NThreads - 1)
Threads == Workers \cup {<<"fragment", 0>>, <<"reorder", 0>>}
Fragment == <<"fragment", 0>>
Reorder == <<"reorder", 0>>

\* Every queue is named after the stage that reads it.
Queue(stage, t) == <<stage, t[2] \div MAX_THREADS_PER_QUEUE>>
Queues == (Stages \cup {"reorder"}) \X QueueIds

\* Mutant: the last queue, too, has MAX_THREADS_PER_QUEUE producers.
AllQueuesFull(k) == MAX_THREADS_PER_QUEUE

threads_per_queue(k) ==
    IF k < NQueues - 1 \/ NThreads % MAX_THREADS_PER_QUEUE = 0
    THEN MAX_THREADS_PER_QUEUE
    ELSE NThreads % MAX_THREADS_PER_QUEUE

nProducers(q) == IF q[1] = "refine" THEN 1 ELSE threads_per_queue(q[2])

Terminated(q) == nTerminated[q] = nProducers(q)

NextStage == [refine |-> "deduplicate", deduplicate |-> "compress", compress |-> "reorder"]

Init ==
    /\ StagesInit
    /\ que = [q \in Queues |-> <<>>]
    /\ nTerminated = [q \in Queues |-> 0]
    /\ recv = [t \in Threads |-> <<>>]
    /\ send = [t \in Threads |-> <<>>]
    /\ sendDup = [t \in Threads |-> <<>>]
    /\ chcount = [t \in Threads |-> 0]
    /\ anchor = 0
    /\ qid = [t \in {Fragment, Reorder} |-> 0]
    /\ pc = [t \in Threads |-> "loop"]

Goto(t, label) == pc' = [pc EXCEPT ![t] = label]

Least(m, n) == IF m < n THEN m ELSE n
Drop(s, n) == SubSeq(s, n + 1, Len(s))

\* queue_dequeue of t: blocks while the queue is empty and not terminated.
\* The first alternative returns a positive number, the second -1.
Dequeued(t, q, limit) ==
    /\ que[q] # <<>>
    /\ LET n == Least(limit, Len(que[q])) IN
           /\ recv' = [recv EXCEPT ![t] = SubSeq(que[q], 1, n)]
           /\ que' = [que EXCEPT ![q] = Drop(@, n)]
Ended(q) == que[q] = <<>> /\ Terminated(q)

\* Mutant: the room left in the queue is not looked at.
MovesAll(q, buf) == Least(ITEM_PER_INSERT, Len(buf))

\* queue_enqueue from buf, which keeps what did not fit: blocks while the
\* queue is full.
Moved(q, buf) == Least(ITEM_PER_INSERT, Least(Len(buf), QUEUE_SIZE - Len(que[q])))
Enqueued(q, buf) ==
    /\ Len(que[q]) < QUEUE_SIZE
    /\ que' = [que EXCEPT ![q] = @ \o SubSeq(buf, 1, Moved(q, buf))]

-----------------------------------------------------------------------------
(* Fragment: coarse chunks go round-robin to the queues, one at a time     *)
(* (ANCHOR_DATA_PER_INSERT is 1), then every queue is terminated.          *)

FragmentSend ==
    /\ pc[Fragment] = "loop"
    /\ anchor < Len(input)
    /\ Len(que[<<"refine", qid[Fragment]>>]) < QUEUE_SIZE
    /\ que' = [que EXCEPT ![<<"refine", qid[Fragment]>>] = Append(@, anchor)]
    /\ anchor' = anchor + 1
    /\ qid' = [qid EXCEPT ![Fragment] = (@ + 1) % NQueues]
    /\ Fragmented(anchor)
    /\ UNCHANGED <<input, entry, state, out, reorderVars, nTerminated, recv, send, sendDup, chcount, pc>>

\* queue_terminate for one queue after the other; anchor counts them.
FragmentTerminate ==
    /\ pc[Fragment] = "loop"
    /\ anchor >= Len(input)
    /\ LET k == anchor - Len(input) IN
           /\ nTerminated' = [nTerminated EXCEPT ![<<"refine", k>>] = @ + 1]
           /\ Goto(Fragment, IF k + 1 = NQueues THEN "done" ELSE "loop")
    /\ anchor' = anchor + 1
    /\ UNCHANGED <<stageVars, que, recv, send, sendDup, chcount, qid>>

-----------------------------------------------------------------------------
(* The loop that the three parallel stages have in common.                 *)

Fetch(t) ==
    /\ pc[t] = "loop"
    /\ recv[t] = <<>>
    /\ LET q == Queue(t[1], t) IN
           \/ /\ Dequeued(t, q, IF t[1] = "refine" THEN MAX_PER_FETCH ELSE ITEM_PER_FETCH)
              /\ UNCHANGED pc
           \/ /\ Ended(q)
              /\ Goto(t, "drain")
              /\ UNCHANGED <<que, recv>>
    /\ UNCHANGED <<stageVars, nTerminated, send, sendDup, chcount, anchor, qid>>

\* Insert a chunk into the send buffer, which is emptied when it is full.
InsertSend(t, c) ==
    /\ send' = [send EXCEPT ![t] = Append(@, c)]
    /\ Goto(t, IF Len(send'[t]) = ITEM_PER_INSERT THEN "flush" ELSE "loop")

\* Split the next fine chunk off the coarse chunk at hand.
RefineOne(t) ==
    /\ t[1] = "refine" /\ pc[t] = "loop" /\ recv[t] # <<>>
    /\ LET c == <<Head(recv[t]), chcount[t]>> IN
           /\ InsertSend(t, c)
           /\ Refined(c)
           /\ chcount' = [chcount EXCEPT ![t] = IF isLastL2Chunk(c) THEN 0 ELSE @ + 1]
           /\ recv' = [recv EXCEPT ![t] = IF isLastL2Chunk(c) THEN Tail(@) ELSE @]
    /\ UNCHANGED <<input, entry, state, out, reorderVars, que, nTerminated, sendDup, anchor, qid>>

DeduplicateOne(t) ==
    /\ t[1] = "deduplicate" /\ pc[t] = "loop" /\ recv[t] # <<>>
    /\ LET c == Head(recv[t]) IN
           /\ sub_Deduplicate(c)
           /\ \/ entry'[Content(c)] = c /\ InsertSend(t, c) /\ UNCHANGED sendDup
              \/ /\ entry'[Content(c)] # c
                 /\ sendDup' = [sendDup EXCEPT ![t] = Append(@, c)]
                 /\ Goto(t, IF Len(sendDup'[t]) = ITEM_PER_INSERT THEN "flushDup" ELSE "loop")
                 /\ UNCHANGED send
    /\ recv' = [recv EXCEPT ![t] = Tail(@)]
    /\ UNCHANGED <<input, state, out, reorderVars, que, nTerminated, chcount, anchor, qid>>

CompressOne(t) ==
    /\ t[1] = "compress" /\ pc[t] = "loop" /\ recv[t] # <<>>
    /\ sub_Compress(Head(recv[t]))
    /\ InsertSend(t, Head(recv[t]))
    /\ recv' = [recv EXCEPT ![t] = Tail(@)]
    /\ UNCHANGED <<input, entry, out, reorderVars, que, nTerminated, sendDup, chcount, anchor, qid>>

\* Into the queue of the next stage, when the buffer is full or at the end.
Flush(t) ==
    /\ pc[t] = "flush" \/ (pc[t] = "drain" /\ send[t] # <<>>)
    /\ LET q == Queue(NextStage[t[1]], t) IN
           /\ Enqueued(q, send[t])
           /\ send' = [send EXCEPT ![t] = Drop(@, Moved(q, @))]
    /\ Goto(t, IF pc[t] = "flush" THEN "loop" ELSE "drain")
    /\ UNCHANGED <<stageVars, nTerminated, recv, sendDup, chcount, anchor, qid>>

\* Mutant: the buffer is emptied although only a part of it fitted.
FlushDupClears(t) ==
    /\ pc[t] = "flushDup" \/ (pc[t] = "drain" /\ send[t] = <<>> /\ sendDup[t] # <<>>)
    /\ Enqueued(Queue("reorder", t), sendDup[t])
    /\ sendDup' = [sendDup EXCEPT ![t] = <<>>]
    /\ Goto(t, IF pc[t] = "flushDup" THEN "loop" ELSE "drain")
    /\ UNCHANGED <<stageVars, nTerminated, recv, send, chcount, anchor, qid>>

FlushDup(t) ==
    /\ pc[t] = "flushDup" \/ (pc[t] = "drain" /\ send[t] = <<>> /\ sendDup[t] # <<>>)
    /\ LET q == Queue("reorder", t) IN
           /\ Enqueued(q, sendDup[t])
           /\ sendDup' = [sendDup EXCEPT ![t] = Drop(@, Moved(q, @))]
    /\ Goto(t, IF pc[t] = "flushDup" THEN "loop" ELSE "drain")
    /\ UNCHANGED <<stageVars, nTerminated, recv, send, chcount, anchor, qid>>

\* Mutant: the next stage is told of the end before the duplicates are sent.
TerminateBeforeDup(t) ==
    /\ pc[t] = "drain" /\ send[t] = <<>>
    /\ LET q == Queue(NextStage[t[1]], t)
       IN nTerminated' = [nTerminated EXCEPT ![q] = @ + 1]
    /\ Goto(t, "done")
    /\ UNCHANGED <<stageVars, que, recv, send, sendDup, chcount, anchor, qid>>

\* queue_terminate for the queue of the next stage.
Terminate(t) ==
    /\ pc[t] = "drain" /\ send[t] = <<>> /\ sendDup[t] = <<>>
    /\ LET q == Queue(NextStage[t[1]], t)
       IN nTerminated' = [nTerminated EXCEPT ![q] = @ + 1]
    /\ Goto(t, "done")
    /\ UNCHANGED <<stageVars, que, recv, send, sendDup, chcount, anchor, qid>>

-----------------------------------------------------------------------------
(* Reorder turns to the queues round-robin; chcount counts the queues that *)
(* it found terminated in this turn.                                       *)

\* Mutant: the first queue that has ended ends the stage.
ReorderFetchStops ==
    /\ pc[Reorder] = "loop"
    /\ recv[Reorder] = <<>>
    /\ LET q == <<"reorder", qid[Reorder]>> IN
           \/ Dequeued(Reorder, q, ITEM_PER_FETCH) /\ UNCHANGED pc
           \/ Ended(q) /\ Goto(Reorder, "cleanup") /\ UNCHANGED <<que, recv>>
    /\ qid' = [qid EXCEPT ![Reorder] = (@ + 1) % NQueues]
    /\ UNCHANGED <<stageVars, nTerminated, send, sendDup, chcount, anchor>>

ReorderFetch ==
    /\ pc[Reorder] = "loop"
    /\ recv[Reorder] = <<>>
    /\ LET q == <<"reorder", qid[Reorder]>> IN
           \/ /\ Dequeued(Reorder, q, ITEM_PER_FETCH)
              /\ chcount' = [chcount EXCEPT ![Reorder] = 0]
              /\ UNCHANGED pc
           \/ /\ Ended(q)
              /\ chcount' = [chcount EXCEPT ![Reorder] = @ + 1]
              /\ Goto(Reorder, IF chcount'[Reorder] = NQueues THEN "cleanup" ELSE "loop")
              /\ UNCHANGED <<que, recv>>
    /\ qid' = [qid EXCEPT ![Reorder] = (@ + 1) % NQueues]
    /\ UNCHANGED <<stageVars, nTerminated, send, sendDup, anchor>>

ReorderAccept ==
    /\ pc[Reorder] = "loop"
    /\ recv[Reorder] # <<>>
    /\ Accept(Head(recv[Reorder]))
    /\ recv' = [recv EXCEPT ![Reorder] = Tail(@)]
    /\ Goto(Reorder, IF chunk' = next THEN "write" ELSE "loop")
    /\ UNCHANGED <<input, entry, state, refs, out, next, que, nTerminated, send, sendDup, chcount, anchor, qid>>

ReorderWrite ==
    /\ pc[Reorder] = "write"
    /\ \E more \in BOOLEAN :
           WriteNext(more) /\ Goto(Reorder, IF more THEN "write" ELSE "loop")
    /\ UNCHANGED <<input, entry, refs, que, nTerminated, recv, send, sendDup, chcount, anchor, qid>>

\* The chunks left in the cache: any other than the next one ends the program
\* with a "sequence number mismatch".
ReorderCleanup ==
    /\ pc[Reorder] = "cleanup"
    /\ IF cached # {} /\ FindMin(cached) = next
       THEN /\ write_chunk_to_file(next)
            /\ chunk' = IF isDuplicate(next) THEN None ELSE next
            /\ cached' = cached \ {next}
            /\ next' = AfterWrite
            /\ UNCHANGED pc
       ELSE /\ Goto(Reorder, IF cached = {} THEN "done" ELSE "mismatch")
            /\ UNCHANGED <<state, out, next, cached, chunk>>
    /\ UNCHANGED <<input, entry, refs, chunks_per_anchor, chunks_per_anchor_max,
                   que, nTerminated, recv, send, sendDup, chcount, anchor, qid>>

Worker(t) ==
    \/ Fetch(t) \/ Flush(t) \/ FlushDup(t) \/ Terminate(t)
    \/ RefineOne(t) \/ DeduplicateOne(t) \/ CompressOne(t)

FragmentStep == FragmentSend \/ FragmentTerminate
ReorderStep == ReorderFetch \/ ReorderAccept \/ ReorderWrite \/ ReorderCleanup

Next == FragmentStep \/ ReorderStep \/ \E t \in Workers : Worker(t)

Spec == Init /\ [][Next]_vars

\* Every thread is a pthread of its own; a blocking call goes on when it can.
FairSpec ==
    /\ Spec
    /\ WF_vars(FragmentStep) /\ WF_vars(ReorderStep)
    /\ \A t \in Workers : WF_vars(Worker(t))

-----------------------------------------------------------------------------
\* What the queues or the threads of some stages hold.
In(f, S) == UNION {Range(f[k]) : k \in S}
Of(stages) == stages \X (0..NThreads - 1)

\* The chunks by how far they have come.
Coarse == In(que, {"refine"} \X QueueIds) \cup In(recv, Of({"refine"}))
Plain == In(send, Of({"refine"})) \cup In(que, {"deduplicate"} \X QueueIds)
         \cup In(recv, Of({"deduplicate"}))
Original == In(send, Of({"deduplicate"})) \cup In(que, {"compress"} \X QueueIds)
            \cup In(recv, Of({"compress"}))
Ready == In(sendDup, Of({"deduplicate"})) \cup In(send, Of({"compress"}))
         \cup In(que, {"reorder"} \X QueueIds) \cup In(recv, {Reorder})
Accepted == cached \cup ({chunk} \ {None}) \cup {out[k].chunk : k \in DOMAIN out}

Flow == INSTANCE DedupFlow WITH
    sent <- Least(anchor, Len(input)), coarse <- Coarse, plain <- Plain,
    original <- Original, ready <- Ready, accepted <- Accepted

(***************************************************************************)
(* With its queues, batches and threads, the pipeline does with a chunk    *)
(* what DedupFlow says: every chunk goes through the stages once, whatever *)
(* buffers it passes on its way, and a call that moves a batch changes     *)
(* nothing but the place.                                                  *)
(***************************************************************************)
ImplementsFlow == Flow!Spec

-----------------------------------------------------------------------------
TypeOK ==
    /\ StagesTypeOK
    /\ \A q \in Queues : que[q] \in Seq(IF q[1] = "refine" THEN Anchors ELSE Chunks)
    /\ \A q \in Queues : Len(que[q]) =< QUEUE_SIZE /\ nTerminated[q] \in 0..nProducers(q)
    /\ \A t \in Workers : Len(send[t]) =< ITEM_PER_INSERT /\ Len(sendDup[t]) =< ITEM_PER_INSERT
    /\ pc \in [Threads -> {"loop", "flush", "flushDup", "drain", "write", "cleanup", "mismatch", "done"}]

(***************************************************************************)
(* The output file has the chunks of the input, in order, none left out or *)
(* repeated, whatever the order in which NThreads threads of each stage    *)
(* deliver them: the promise of Reorder, "Write chunks in-order to file".  *)
(* The k-th record is the chunk with k - 1 chunks before it.               *)
(***************************************************************************)
WrittenInOrder == \A k \in DOMAIN out : Cardinality(Before(out[k].chunk)) = k - 1

(***************************************************************************)
(* queue_enqueue asserts that its queue is not terminated.  The reorder    *)
(* queue counts only the Compress threads as producers, so the Deduplicate *)
(* threads that also write to it rely on the order of their shutdown.      *)
(***************************************************************************)
EnqueueToOpenQueue ==
    \A t \in Workers :
        /\ send[t] # <<>> => ~Terminated(Queue(NextStage[t[1]], t))
        /\ sendDup[t] # <<>> => ~Terminated(Queue("reorder", t))

(***************************************************************************)
(* When Reorder ends, everything has been written: no thread ends with     *)
(* chunks in its buffers, no queue is left with any, and no chunk waits in *)
(* the cache for one that never came ("sequence number mismatch").         *)
(***************************************************************************)
NothingIsLeftBehind ==
    /\ pc[Reorder] # "mismatch"
    /\ pc[Reorder] = "done" => Len(out) = Cardinality(Chunks)

(***************************************************************************)
(* "free() cannot be called until all resulting buffers are no longer      *)
(* used" (mbuffer.h): wherever the parts of a memory buffer are, split     *)
(* again, dropped as duplicates and compressed by different threads, its   *)
(* reference counter is their number, so that the last one frees it.       *)
(***************************************************************************)
ReferencesCounted == Counted(anchor, Coarse, Plain \cup Original)

\* Reorder waits for a chunk to be compressed, and its queue is full.
Jammed ==
    /\ pc[Reorder] = "write" /\ state[entry[Content(chunk)]] = "uncompressed"
    /\ \E k \in QueueIds : Len(que[<<"reorder", k>>]) = QUEUE_SIZE

\* Reorder waits at one queue for chunks that Fragment does not send, because
\* Fragment waits for room in another one whose stages are full up to Reorder.
Starved ==
    LET r == qid[Reorder]
        f == qid[Fragment]
    IN  /\ pc[Reorder] = "loop" /\ recv[Reorder] = <<>>
        /\ que[<<"reorder", r>>] = <<>> /\ ~Terminated(<<"reorder", r>>)
        /\ r # f /\ anchor < Len(input)
        /\ Len(que[<<"refine", f>>]) = QUEUE_SIZE /\ Len(que[<<"reorder", f>>]) = QUEUE_SIZE

(***************************************************************************)
(* Encode returns: every thread ends, also the one that waits for the      *)
(* compression of the original of a duplicate.  There are two ways for the *)
(* pipeline to hang.  Reorder waits for an original that is still in the   *)
(* buffer of a Deduplicate or Compress thread, and takes nothing out of a  *)
(* full queue that this thread, or one it depends on, waits for.  Or       *)
(* Reorder, which turns to the queues in a fixed order, waits at an empty  *)
(* one for what Fragment cannot send before Reorder turns to another.      *)
(***************************************************************************)
EncodeReturns == <>(\A t \in Threads : pc[t] = "done") \/ <>[]Jammed \/ <>[]Starved
=============================================================================
