----------------------------- MODULE DedupStages ----------------------------
(***************************************************************************)
(* What Reorder does with a chunk, in the pthread and in the Turkey build  *)
(* alike: it restores the input order by two-level sequence numbers, with  *)
(* a search tree of the chunks that came too early.                        *)
(***************************************************************************)
EXTENDS DedupChunks

CONSTANT InitialAnchors  \* first size of the array chunks_per_anchor (1024)

ASSUME InitialAnchorsAssumption == InitialAnchors \in Nat \ {0}

\* Reorder's local variables.
VARIABLES
    next,                   \* the sequence number to write
    chunks_per_anchor,      \* the number of fine chunks of a coarse chunk, 0 if unknown
    chunks_per_anchor_max,  \* the size of that array
    cached,                 \* the chunks in the search tree T
    chunk                   \* the chunk at hand

reorderVars == <<next, chunks_per_anchor, chunks_per_anchor_max, cached, chunk>>
stageVars == <<chunkVars, reorderVars>>

sequence_lt(s, t) == s[1] < t[1] \/ (s[1] = t[1] /\ s[2] < t[2])

StagesInit ==
    /\ ChunksInit
    /\ next = <<0, 0>>
    /\ chunks_per_anchor = [a \in Anchors |-> 0]
    /\ chunks_per_anchor_max = InitialAnchors
    /\ cached = {}
    /\ chunk = None

-----------------------------------------------------------------------------
\* The minimum of the search tree is the coarse chunk with the least l1num,
\* that of its priority queue the fine chunk with the least l2num.
FindMin(S) == CHOOSE c \in S : \A d \in S \ {c} : sequence_lt(c, d)

\* sequence_inc_l2, and sequence_inc_l1 behind the last chunk of an anchor.
AfterWrite ==
    LET l2num == next[2] + 1 IN
    IF next[1] \in Anchors /\ chunks_per_anchor[next[1]] = l2num
    THEN <<next[1] + 1, 0>>
    ELSE <<next[1], l2num>>

\* Mutant: the number of chunks of an anchor is taken for its last l2num.
AcceptMiscounts(c) ==
    /\ chunks_per_anchor_max' =
           (IF c[1] >= chunks_per_anchor_max THEN 2 ELSE 1) * chunks_per_anchor_max
    /\ chunks_per_anchor' =
           IF isLastL2Chunk(c) THEN [chunks_per_anchor EXCEPT ![c[1]] = c[2]]
                               ELSE chunks_per_anchor
    /\ cached' = IF c = next THEN cached ELSE cached \cup {c}
    /\ chunk' = c

\* One chunk is taken from the queue: double the array if necessary, note the
\* size of the anchor, and put the chunk into the local cache if it is not
\* next in the sequence.
Accept(c) ==
    /\ chunks_per_anchor_max' =
           (IF c[1] >= chunks_per_anchor_max THEN 2 ELSE 1) * chunks_per_anchor_max
    /\ chunks_per_anchor' =
           IF isLastL2Chunk(c) THEN [chunks_per_anchor EXCEPT ![c[1]] = c[2] + 1]
                               ELSE chunks_per_anchor
    /\ cached' = IF c = next THEN cached ELSE cached \cup {c}
    /\ chunk' = c

\* One round of the loop that writes as many chunks as possible: more says
\* whether the cache holds the next one.
WriteNext(more) ==
    /\ write_chunk_to_file(chunk)
    /\ next' = AfterWrite
    /\ more = (cached # {} /\ FindMin(cached) = next')
    /\ chunk' = IF more THEN next' ELSE None
    /\ cached' = IF more THEN cached \ {next'} ELSE cached
    /\ UNCHANGED <<chunks_per_anchor, chunks_per_anchor_max>>

-----------------------------------------------------------------------------
\* The chunks that come before c in the input.
Before(c) == {d \in Chunks : sequence_lt(d, c)}

StagesTypeOK ==
    /\ ChunksTypeOK
    /\ next \in (Anchors \cup {Len(input)}) \X Nat
    /\ chunks_per_anchor \in [Anchors -> Nat]
    /\ chunks_per_anchor_max \in Nat
    /\ cached \subseteq Chunks
    /\ chunk \in Chunks \cup {None}
=============================================================================
