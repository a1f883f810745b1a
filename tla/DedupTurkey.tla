----------------------------- MODULE DedupTurkey ----------------------------
(***************************************************************************)
(* The pipeline of the Turkey build of dedup                               *)
(* (src/apps/dedup/src/turkey/encoder.cpp): the stages are those of the    *)
(* pthread build, but they are tasks in the client's pools and talk        *)
(* through folly::MPMCQueue (mpmc.h), whose read and write never block.    *)
(* The end of a stage is a null pointer in the queue.                      *)
(*                                                                         *)
(* One step is one read or write of a queue, with the private work that    *)
(* follows it.  A task that finds nothing to read tries again, which       *)
(* changes nothing and is no step.                                         *)
(***************************************************************************)
EXTENDS DedupStages

CONSTANTS
    Refiners, Deduplicators, Compressors,  \* conf->nthreads tasks each
    Fragment, Reorder,                     \* the two other threads
    QUEUE_SIZE,
    MAX_PER_FETCH,    \* coarse chunks per fetch
    ITEM_PER_FETCH,   \* fine chunks per fetch, in all stages
    ITEM_PER_INSERT,  \* fine chunks per insert, in all stages
    MaxRecords        \* bound: records in the output file

VARIABLES
    que,      \* the queue that each stage reads
    recv,     \* recv_buf of each thread
    send,     \* send_buf of each thread; send_buf_compress of Deduplicate
    sendDup,  \* send_buf_reorder of each Deduplicate task
    r,        \* items written by the enqueue_from_ringbuffer under way
    chcount,  \* fine chunks already split off the coarse chunk at hand
    anchor,   \* Fragment's anchorcount
    dropped,  \* history: the stages whose last sentinel found its queue full
    pc

pipeVars == <<que, recv, send, sendDup, r, chcount, anchor, dropped, pc>>
vars == <<stageVars, pipeVars>>

Stages == {"refine", "deduplicate", "compress", "reorder"}
Workers == Refiners \cup Deduplicators \cup Compressors
Threads == Workers \cup {Fragment, Reorder}
Stage(t) ==
    CASE t = Fragment -> "fragment" [] t \in Refiners -> "refine"
      [] t \in Deduplicators -> "deduplicate" [] t \in Compressors -> "compress"
      [] OTHER -> "reorder"
NextStage == [fragment |-> "refine", refine |-> "deduplicate",
              deduplicate |-> "compress", compress |-> "reorder"]

Init ==
    /\ StagesInit
    /\ que = [s \in Stages |-> <<>>]
    /\ recv = [t \in Threads |-> <<>>]
    /\ send = [t \in Threads |-> <<>>]
    /\ sendDup = [t \in Threads |-> <<>>]
    /\ r = [t \in Threads |-> 0]
    /\ chcount = [t \in Threads |-> 0]
    /\ anchor = 0
    /\ dropped = {}
    /\ pc = [t \in Threads |-> IF t = Fragment THEN "work" ELSE "fetch"]

Goto(t, label) == pc' = [pc EXCEPT ![t] = label]

\* An assertion fails and ends the process.
abort == pc' = [t \in Threads |-> "aborted"]

\* MPMCQueue::write of a null pointer, without a look at its result: a full
\* queue stays as it is.
write(s) ==
    \/ /\ Len(que[s]) < QUEUE_SIZE
       /\ que' = [que EXCEPT ![s] = Append(@, None)]
       /\ dropped' = dropped \ {s}
    \/ /\ Len(que[s]) = QUEUE_SIZE
       /\ dropped' = dropped \cup {s}
       /\ UNCHANGED que

-----------------------------------------------------------------------------
(* dequeue_to_ringbuffer, one read per step.                               *)

Limit(t) == IF t \in Refiners THEN MAX_PER_FETCH ELSE ITEM_PER_FETCH

\* A chunk is read: go on until the limit is reached.
ReadChunk(t) ==
    /\ pc[t] = "fetch"
    /\ que[Stage(t)] # <<>> /\ Head(que[Stage(t)]) # None
    /\ que' = [que EXCEPT ![Stage(t)] = Tail(@)]
    /\ recv' = [recv EXCEPT ![t] = Append(@, Head(que[Stage(t)]))]
    /\ Goto(t, IF Len(recv'[t]) = Limit(t) THEN "work" ELSE "fetch")
    /\ UNCHANGED <<stageVars, send, sendDup, r, chcount, anchor, dropped>>

\* Nothing more to read for now.  Without a chunk, the parallel stages try
\* again, but Reorder leaves its loop.
ReadNothing(t) ==
    /\ pc[t] = "fetch"
    /\ que[Stage(t)] = <<>>
    /\ recv[t] # <<>> \/ t = Reorder
    /\ Goto(t, IF recv[t] # <<>> THEN "work" ELSE "cleanup")
    /\ chunk' = IF recv[t] # <<>> THEN chunk ELSE None
    /\ UNCHANGED <<input, entry, state, refs, out, next, chunks_per_anchor, chunks_per_anchor_max, cached,
                   que, recv, send, sendDup, r, chcount, anchor, dropped>>

\* A null pointer: the chunks read before it stay in recv_buf, which the
\* caller does not look at any more.
ReadSentinel(t) ==
    /\ pc[t] = "fetch"
    /\ que[Stage(t)] # <<>> /\ Head(que[Stage(t)]) = None
    /\ que' = [que EXCEPT ![Stage(t)] = Tail(@)]
    /\ Goto(t, "sentinel")
    /\ UNCHANGED <<stageVars, recv, send, sendDup, r, chcount, anchor, dropped>>


\* "Enqueue two more sentinel nullptrs"; then the caller gets -1.
WriteSentinel(t) ==
    /\ pc[t] \in {"sentinel", "sentinel2"}
    /\ write(Stage(t))
    /\ Goto(t, IF pc[t] = "sentinel" THEN "sentinel2" ELSE IF t = Reorder THEN "cleanup" ELSE "drain")
    /\ UNCHANGED <<stageVars, recv, send, sendDup, r, chcount, anchor>>

Fetch(t) == ReadChunk(t) \/ ReadNothing(t) \/ ReadSentinel(t) \/ WriteSentinel(t)

-----------------------------------------------------------------------------
(* The kernels of the stages, as in the pthread build.                     *)

Working(t) == IF recv'[t] = <<>> THEN "fetch" ELSE "work"

InsertSend(t, c) ==
    /\ send' = [send EXCEPT ![t] = Append(@, c)]
    /\ Goto(t, IF Len(send'[t]) = ITEM_PER_INSERT THEN "flush" ELSE Working(t))

\* ANCHOR_DATA_PER_INSERT is 1: the send buffer of Fragment is full at once,
\* except for the last chunk, which the final drain sends.
FragmentOne ==
    /\ pc[Fragment] = "work"
    /\ \/ /\ anchor < Len(input)
          /\ send' = [send EXCEPT ![Fragment] = <<anchor>>]
          /\ Fragmented(anchor)
          /\ anchor' = anchor + 1
          /\ Goto(Fragment, IF anchor + 1 < Len(input) THEN "flush" ELSE "drain")
       \/ /\ Len(input) = 0
          /\ Goto(Fragment, "drain")
          /\ UNCHANGED <<send, anchor, refs>>
    /\ UNCHANGED <<input, entry, state, out, reorderVars, que, recv, sendDup, r, chcount, dropped>>

RefineOne(t) ==
    /\ t \in Refiners /\ pc[t] = "work"
    /\ LET c == <<Head(recv[t]), chcount[t]>> IN
           /\ chcount' = [chcount EXCEPT ![t] = IF isLastL2Chunk(c) THEN 0 ELSE @ + 1]
           /\ recv' = [recv EXCEPT ![t] = IF isLastL2Chunk(c) THEN Tail(@) ELSE @]
           /\ InsertSend(t, c)
           /\ Refined(c)
    /\ UNCHANGED <<input, entry, state, out, reorderVars, que, sendDup, r, anchor, dropped>>

DeduplicateOne(t) ==
    /\ t \in Deduplicators /\ pc[t] = "work"
    /\ recv' = [recv EXCEPT ![t] = Tail(@)]
    /\ LET c == Head(recv[t]) IN
           /\ sub_Deduplicate(c)
           /\ \/ entry'[Content(c)] = c /\ InsertSend(t, c) /\ UNCHANGED sendDup
              \/ /\ entry'[Content(c)] # c
                 /\ sendDup' = [sendDup EXCEPT ![t] = Append(@, c)]
                 /\ Goto(t, IF Len(sendDup'[t]) = ITEM_PER_INSERT THEN "flushDup" ELSE Working(t))
                 /\ UNCHANGED send
    /\ UNCHANGED <<input, state, out, reorderVars, que, r, chcount, anchor, dropped>>

\* Mutant: the chunk is sent on before it is marked as compressed.
CompressOneForgetsState(t) ==
    /\ t \in Compressors /\ pc[t] = "work"
    /\ recv' = [recv EXCEPT ![t] = Tail(@)]
    /\ refs' = mbuffer_free(refs, Buffer(Head(recv[t])[1]))
    /\ InsertSend(t, Head(recv[t]))
    /\ UNCHANGED <<input, entry, state, out, reorderVars, que, sendDup, r, chcount, anchor, dropped>>

CompressOne(t) ==
    /\ t \in Compressors /\ pc[t] = "work"
    /\ recv' = [recv EXCEPT ![t] = Tail(@)]
    /\ sub_Compress(Head(recv[t]))
    /\ InsertSend(t, Head(recv[t]))
    /\ UNCHANGED <<input, entry, out, reorderVars, que, sendDup, r, chcount, anchor, dropped>>

-----------------------------------------------------------------------------
(* enqueue_from_ringbuffer, one write per step, and assert(r >= 1).        *)

\* Where t goes on after a call that began at pc[t].
AfterFlush(t) ==
    IF pc[t] = "drain" THEN "drain"
    ELSE IF t = Fragment THEN "work"
    ELSE IF recv[t] = <<>> THEN "fetch" ELSE "work"

\* Mutant: a chunk that was written stays in the buffer.
EnqueueKeeps(t, s, buf, rest) ==
    /\ Len(que[s]) < QUEUE_SIZE
    /\ que' = [que EXCEPT ![s] = Append(@, Head(buf))]
    /\ rest = buf
    /\ Goto(t, AfterFlush(t))
    /\ UNCHANGED r

\* Mutant: the room left in the queue is not looked at.
EnqueueUnchecked(t, s, buf, rest) ==
    /\ que' = [que EXCEPT ![s] = Append(@, Head(buf))]
    /\ rest = Tail(buf)
    /\ r' = [r EXCEPT ![t] = IF rest = <<>> THEN 0 ELSE @ + 1]
    /\ Goto(t, IF rest = <<>> THEN AfterFlush(t) ELSE pc[t])

\* Write the first chunk of buf to the queue of stage s; rest is what the
\* buffer holds then.  A full queue ends the call; if nothing was written in
\* it, the assertion fails.
EnqueueOne(t, s, buf, rest) ==
    \/ /\ Len(que[s]) < QUEUE_SIZE
       /\ que' = [que EXCEPT ![s] = Append(@, Head(buf))]
       /\ rest = Tail(buf)
       /\ r' = [r EXCEPT ![t] = IF rest = <<>> THEN 0 ELSE @ + 1]
       /\ Goto(t, IF rest = <<>> THEN AfterFlush(t) ELSE pc[t])
    \/ /\ Len(que[s]) = QUEUE_SIZE
       /\ rest = buf
       /\ IF r[t] = 0 THEN abort ELSE Goto(t, AfterFlush(t))
       /\ r' = [r EXCEPT ![t] = 0]
       /\ UNCHANGED que

Flush(t) ==
    /\ pc[t] = "flush" \/ (pc[t] = "drain" /\ send[t] # <<>>)
    /\ \E rest \in {send[t], Tail(send[t])} :
           /\ EnqueueOne(t, NextStage[Stage(t)], send[t], rest)
           /\ send' = [send EXCEPT ![t] = rest]
    /\ UNCHANGED <<stageVars, recv, sendDup, chcount, anchor, dropped>>

FlushDup(t) ==
    /\ pc[t] = "flushDup" \/ (pc[t] = "drain" /\ send[t] = <<>> /\ sendDup[t] # <<>>)
    /\ \E rest \in {sendDup[t], Tail(sendDup[t])} :
           /\ EnqueueOne(t, "reorder", sendDup[t], rest)
           /\ sendDup' = [sendDup EXCEPT ![t] = rest]
    /\ UNCHANGED <<stageVars, recv, send, chcount, anchor, dropped>>

terminate_queue(t) ==
    /\ pc[t] = "drain" /\ send[t] = <<>> /\ sendDup[t] = <<>>
    /\ write(NextStage[Stage(t)])
    /\ Goto(t, "done")
    /\ UNCHANGED <<stageVars, recv, send, sendDup, r, chcount, anchor>>

-----------------------------------------------------------------------------
ReorderAccept ==
    /\ pc[Reorder] = "work"
    /\ Accept(Head(recv[Reorder]))
    /\ recv' = [recv EXCEPT ![Reorder] = Tail(@)]
    /\ Goto(Reorder, IF chunk' = next THEN "write" ELSE Working(Reorder))
    /\ UNCHANGED <<input, entry, state, refs, out, next, que, send, sendDup, r, chcount, anchor, dropped>>

ReorderWrite ==
    /\ pc[Reorder] = "write"
    /\ \E more \in BOOLEAN :
           /\ WriteNext(more)
           /\ Goto(Reorder, IF more THEN "write" ELSE IF recv[Reorder] = <<>> THEN "fetch" ELSE "work")
    /\ UNCHANGED <<input, entry, refs, que, recv, send, sendDup, r, chcount, anchor, dropped>>

\* The chunks left in the cache.  A sequence number that does not match is not
\* an error any more: the least chunk of the same anchor is written all the
\* same and stays in the cache; for another anchor, the chunk at hand is
\* written, and write_chunk_to_file asserts that there is one.
ReorderCleanup ==
    /\ pc[Reorder] = "cleanup" /\ cached # {}
    /\ Len(out) < MaxRecords
    /\ LET m == FindMin(cached)
           c == IF m[1] = next[1] THEN m ELSE chunk
       IN \/ /\ c # None
             /\ write_chunk_to_file(c)
             /\ cached' = IF m = next THEN cached \ {m} ELSE cached
             /\ chunk' = IF isDuplicate(c) THEN None ELSE c
             /\ next' = AfterWrite
             /\ UNCHANGED pc
          \/ /\ c = None
             /\ abort
             /\ UNCHANGED <<state, out, next, cached, chunk>>
    /\ UNCHANGED <<input, entry, refs, chunks_per_anchor, chunks_per_anchor_max,
                   que, recv, send, sendDup, r, chcount, anchor, dropped>>

ReorderReturn ==
    /\ pc[Reorder] = "cleanup" /\ cached = {}
    /\ Goto(Reorder, "done")
    /\ UNCHANGED <<stageVars, que, recv, send, sendDup, r, chcount, anchor, dropped>>

FragmentStep == FragmentOne \/ Flush(Fragment) \/ terminate_queue(Fragment)

Worker(t) ==
    \/ Fetch(t) \/ Flush(t) \/ FlushDup(t) \/ terminate_queue(t)
    \/ RefineOne(t) \/ DeduplicateOne(t) \/ CompressOne(t)

ReorderStep ==
    Fetch(Reorder) \/ ReorderAccept \/ ReorderWrite \/ ReorderCleanup \/ ReorderReturn

Next == FragmentStep \/ ReorderStep \/ \E t \in Workers : Worker(t)

Spec == Init /\ [][Next]_vars

\* Fragment is a pthread, and the client's pools have a thread for each task.
FairSpec ==
    /\ Spec
    /\ WF_vars(FragmentStep)
    /\ \A t \in Workers : WF_vars(Worker(t))

-----------------------------------------------------------------------------
\* What the queues or the threads of some stages hold.
In(f, S) == (UNION {Range(f[k]) : k \in S}) \ {None}

\* The chunks by how far they have come.
Coarse == In(send, {Fragment}) \cup In(que, {"refine"}) \cup In(recv, Refiners)
Plain == In(send, Refiners) \cup In(que, {"deduplicate"}) \cup In(recv, Deduplicators)
Original == In(send, Deduplicators) \cup In(que, {"compress"}) \cup In(recv, Compressors)
Ready == In(sendDup, Deduplicators) \cup In(send, Compressors) \cup In(que, {"reorder"})
         \cup In(recv, {Reorder})
Accepted == cached \cup ({chunk} \ {None}) \cup {out[k].chunk : k \in DOMAIN out}

Flow == INSTANCE DedupFlow WITH
    sent <- anchor, coarse <- Coarse, plain <- Plain,
    original <- Original, ready <- Ready, accepted <- Accepted

(***************************************************************************)
(* Reads and writes that fail, sentinels and partial batches change        *)
(* nothing but the place of a chunk: what the tasks do with it is what     *)
(* DedupFlow says, until they lose it or an assertion ends them.           *)
(***************************************************************************)
ImplementsFlow == Flow!Spec

-----------------------------------------------------------------------------
TypeOK ==
    /\ StagesTypeOK
    /\ \A s \in Stages :
           /\ Len(que[s]) =< QUEUE_SIZE
           /\ \A k \in DOMAIN que[s] :
                  que[s][k] = None \/ que[s][k] \in (IF s = "refine" THEN Anchors ELSE Chunks)
    /\ \A t \in Workers :
           /\ Len(recv[t]) =< Limit(t)
           /\ Len(send[t]) =< ITEM_PER_INSERT /\ Len(sendDup[t]) =< ITEM_PER_INSERT
           /\ r[t] \in 0..ITEM_PER_INSERT
    /\ pc \in [Threads -> {"fetch", "sentinel", "sentinel2", "work", "flush", "flushDup", "drain",
                           "write", "cleanup", "done", "aborted"}]

\* How often x is in the sequences f[k] of some stages.
Occurrences(x, f, S) == Cardinality(UNION {{k} \X {i \in DOMAIN f[k] : f[k][i] = x} : k \in S})

\* How often chunk c is in the hands of a stage or a queue, alone or in the
\* coarse chunk it has not been split off yet; Reorder may write a chunk and
\* keep it.
Owners(c) ==
    (IF c[1] >= anchor THEN 1 ELSE 0)
    + Occurrences(c[1], que, {"refine"}) + Occurrences(c[1], send, {Fragment})
    + Cardinality({<<t, i>> \in Refiners \X (1..MAX_PER_FETCH) :
                       i \in DOMAIN recv[t] /\ recv[t][i] = c[1] /\ (i = 1 => c[2] >= chcount[t])})
    + Occurrences(c, que, Stages \ {"refine"})
    + Occurrences(c, recv, Threads \ Refiners)
    + Occurrences(c, send, Workers) + Occurrences(c, sendDup, Workers)
    + (IF c \in cached \/ chunk = c \/ \E k \in DOMAIN out : out[k].chunk = c THEN 1 ELSE 0)

(***************************************************************************)
(* Every chunk is in one place at all times: reads and writes that fail,   *)
(* partial batches, sentinels and the shutdown neither duplicate one nor   *)
(* make it vanish; and sub_Compress finds every chunk uncompressed.  The   *)
(* recv_buf of a task that met a sentinel is such a place, although its    *)
(* chunks are lost with the task: what is missing in the output is there,  *)
(* or in a queue that nobody reads any more (OutputIsComplete).            *)
(***************************************************************************)
OneOwner ==
    /\ \A c \in Chunks : Owners(c) = 1
    /\ \A t \in Compressors :
           pc[t] = "work" => state[Head(recv[t])] = "uncompressed"

(***************************************************************************)
(* The reference counter of a memory buffer is the number of its parts     *)
(* that are in use ("free() cannot be called until all resulting buffers   *)
(* are no longer used", mbuffer.h), those in the hands of ended tasks      *)
(* included: what is lost is not freed, and nothing is freed twice.        *)
(***************************************************************************)
ReferencesCounted == Counted(anchor, Coarse, Plain \cup Original)

\* The stages whose sentinels the end of t depends on: its own and those before.
Upstream(t) ==
    {"refine"} \cup (IF t \in Refiners THEN {} ELSE {"deduplicate"})
    \cup (IF t \in Compressors THEN {"compress"} ELSE {})


(***************************************************************************)
(* Reorder is to "receive chunks from compression and deduplication stage" *)
(* and to "write chunks in-order to file": when all tasks have ended and   *)
(* no assertion failed, the output has every chunk of the input.           *)
(***************************************************************************)
OutputIsComplete ==
    (\A t \in Threads : pc[t] = "done") =>
        \A c \in Chunks : \E k \in DOMAIN out : out[k].chunk = c
=============================================================================
