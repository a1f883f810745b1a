----------------------------- MODULE DedupChunks ----------------------------
(***************************************************************************)
(* What the stages of the dedup encoder do with a chunk, in the pthread    *)
(* and in the Turkey build alike: the hash table of contents seen so far,  *)
(* the state of a chunk, the memory buffers and the records of the output  *)
(* file.                                                                   *)
(*                                                                         *)
(* A coarse chunk is its number l1num, a fine chunk the pair of its l1num  *)
(* and l2num.  Contents are compared by their SHA1 sum only, so a content  *)
(* is a model value.  The data lie in reference-counted memory buffers     *)
(* (mbuffer.c): Fragment reads the file into one, gives every coarse chunk *)
(* a part of it and copies what is left at the end into a second one.      *)
(***************************************************************************)
EXTENDS Integers, Sequences, FiniteSets, Functions

CONSTANTS
    Inputs,  \* input files: for each coarse chunk the contents of its fine chunks
    None     \* NULL

\* FragmentRefine makes at least one fine chunk of a coarse one.
ASSUME InputsAssumption ==
    \A f \in Inputs : Len(f) \in Nat /\ \A a \in 1..Len(f) : Len(f[a]) \in Nat \ {0}

ASSUME NoneAssumption == None \notin Nat /\ None \notin Nat \X Nat

VARIABLES
    input,  \* the input file
    entry,  \* cache: the original chunk of each content, or None
    state,  \* chunk->header.state
    refs,   \* mcb->i of the two buffers, 0 when there is none
    out     \* the records of the output file

chunkVars == <<input, entry, state, refs, out>>

Anchors == 0..Len(input) - 1
Chunks == UNION {{<<a, b>> : b \in 0..Len(input[a + 1]) - 1} : a \in Anchors}
Content(c) == input[c[1] + 1][c[2] + 1]
isLastL2Chunk(c) == c[2] + 1 = Len(input[c[1] + 1])

ChunksInit ==
    /\ input \in Inputs
    /\ entry = [x \in {Content(c) : c \in Chunks} |-> None]
    /\ state = [c \in Chunks |-> "uncompressed"]
    /\ refs = [b \in 1..2 |-> 0]
    /\ out = <<>>

-----------------------------------------------------------------------------
\* The memory buffer that coarse chunk a is a part of.
Buffer(a) == IF a + 1 = Len(input) THEN 2 ELSE 1

\* Mutant: the new part has no reference of its own.
SplitUncounted(f, b) == f

\* The counters f after a call; each is changed under its lock.
mbuffer_create(f, b) == [f EXCEPT ![b] = 1]
mbuffer_split(f, b) == [f EXCEPT ![b] = @ + 1]
mbuffer_free(f, b) == [f EXCEPT ![b] = @ - 1]

\* Fragment has coarse chunk a: either it is split off the rest, or it is the
\* rest, which is moved to a new buffer in the attempt to read more.
Fragmented(a) ==
    LET f == IF a = 0 THEN mbuffer_create(refs, 1) ELSE refs
    IN refs' = IF a + 1 < Len(input) THEN mbuffer_split(f, 1)
                                     ELSE mbuffer_free(mbuffer_create(f, 2), 1)

\* FragmentRefine has fine chunk c: the last one is the rest of the coarse one.
Refined(c) == refs' = IF isLastL2Chunk(c) THEN refs ELSE mbuffer_split(refs, Buffer(c[1]))

\* Lookup and insertion are one step under the lock of the hash bucket; the
\* data of a duplicate are given up.
sub_Deduplicate(c) ==
    /\ entry' = IF entry[Content(c)] = None THEN [entry EXCEPT ![Content(c)] = c] ELSE entry
    /\ refs' = IF entry'[Content(c)] = c THEN refs ELSE mbuffer_free(refs, Buffer(c[1]))

isDuplicate(c) == entry[Content(c)] # c

sub_Compress(c) ==
    /\ state' = [state EXCEPT ![c] = "compressed"]
    /\ refs' = mbuffer_free(refs, Buffer(c[1]))

\* Mutant: the state of the chunk itself is used, not that of the original.
WriteOwnState(c) ==
    /\ state[entry[Content(c)]] # "uncompressed"
    /\ out' = Append(out, [chunk |-> c, data |-> state[c] = "compressed"])
    /\ state' = [state EXCEPT ![c] = "flushed"]

\* Wait until the original is compressed; then its data are written, once,
\* and after that only its SHA1 sum.
write_chunk_to_file(c) ==
    LET o == entry[Content(c)] IN
    /\ state[o] # "uncompressed"
    /\ out' = Append(out, [chunk |-> c, data |-> state[o] = "compressed"])
    /\ state' = [state EXCEPT ![o] = "flushed"]

-----------------------------------------------------------------------------
ChunksTypeOK ==
    /\ input \in Inputs
    /\ entry \in [{Content(c) : c \in Chunks} -> Chunks \cup {None}]
    /\ state \in [Chunks -> {"uncompressed", "compressed", "flushed"}]
    /\ refs \in [1..2 -> Nat]
    /\ out \in Seq([chunk : Chunks, data : BOOLEAN])

(***************************************************************************)
(* The decoder can resolve every record: the data of a content are in the  *)
(* output file exactly once, before any record that has only its SHA1 sum, *)
(* even when a duplicate comes before the original in the input and the    *)
(* two were deduplicated by different threads.                             *)
(***************************************************************************)
DataBeforeFingerprint ==
    \A k \in DOMAIN out :
        out[k].data = (\A j \in 1..k - 1 : Content(out[j].chunk) # Content(out[k].chunk))

\* The counters are right when Fragment has sent the first n coarse chunks and
\* those in coarse and the fine chunks in fine still have their data.
Counted(n, coarse, fine) ==
    \A b \in 1..2 :
        refs[b] = Cardinality({a \in coarse : Buffer(a) = b})
                  + Cardinality({c \in fine : Buffer(c[1]) = b})
                  + (IF b = 1 /\ n \in 1..Len(input) - 1 THEN 1 ELSE 0)
=============================================================================
