------------------------------ MODULE DedupFlow -----------------------------
(***************************************************************************)
(* The flow of the chunks through the dedup encoder, without its threads,  *)
(* queues, buffers and batches: which chunks have come how far.  A coarse  *)
(* chunk is sent and split into fine chunks; a fine chunk is looked up in  *)
(* the hash table, compressed if it is an original, taken by Reorder and   *)
(* written.  Both builds implement it: what their threads and queues hold  *)
(* are the sets below.                                                     *)
(***************************************************************************)
EXTENDS DedupChunks

VARIABLES
    sent,      \* the number of coarse chunks that Fragment has sent
    coarse,    \* coarse chunks that are not yet split completely
    plain,     \* fine chunks on the way to Deduplicate
    original,  \* originals on the way to Compress
    ready,     \* fine chunks on the way to Reorder
    accepted   \* fine chunks that Reorder has taken

flowVars == <<sent, coarse, plain, original, ready, accepted>>
vars == <<chunkVars, flowVars>>

\* The chunks that have been split off their coarse chunks.
Split == plain \cup original \cup ready \cup accepted

Init ==
    /\ ChunksInit
    /\ sent = 0
    /\ coarse = {} /\ plain = {} /\ original = {} /\ ready = {} /\ accepted = {}

Send ==
    /\ sent < Len(input)
    /\ Fragmented(sent)
    /\ sent' = sent + 1
    /\ coarse' = coarse \cup {sent}
    /\ UNCHANGED <<input, entry, state, out, plain, original, ready, accepted>>

\* The fine chunks of a coarse one are split off in their order.
Refine(c) ==
    /\ c[1] \in coarse
    /\ \A d \in Chunks : d[1] = c[1] => (d \in Split <=> d[2] < c[2])
    /\ Refined(c)
    /\ coarse' = IF isLastL2Chunk(c) THEN coarse \ {c[1]} ELSE coarse
    /\ plain' = plain \cup {c}
    /\ UNCHANGED <<input, entry, state, out, sent, original, ready, accepted>>

Deduplicate(c) ==
    /\ c \in plain
    /\ sub_Deduplicate(c)
    /\ plain' = plain \ {c}
    /\ original' = IF entry'[Content(c)] = c THEN original \cup {c} ELSE original
    /\ ready' = IF entry'[Content(c)] = c THEN ready ELSE ready \cup {c}
    /\ UNCHANGED <<input, state, out, sent, coarse, accepted>>

Compress(c) ==
    /\ c \in original
    /\ sub_Compress(c)
    /\ original' = original \ {c}
    /\ ready' = ready \cup {c}
    /\ UNCHANGED <<input, entry, out, sent, coarse, plain, accepted>>

Accept(c) ==
    /\ c \in ready
    /\ ready' = ready \ {c}
    /\ accepted' = accepted \cup {c}
    /\ UNCHANGED <<chunkVars, sent, coarse, plain, original>>

\* Nothing is said about the order, nor that a chunk is written only once.
Write(c) ==
    /\ c \in accepted
    /\ write_chunk_to_file(c)
    /\ UNCHANGED <<input, entry, refs, flowVars>>

Next ==
    \/ Send
    \/ \E c \in Chunks : Refine(c) \/ Deduplicate(c) \/ Compress(c) \/ Accept(c) \/ Write(c)

Spec == Init /\ [][Next]_vars

-----------------------------------------------------------------------------
TypeOK ==
    /\ ChunksTypeOK
    /\ sent \in 0..Len(input)
    /\ coarse \subseteq 0..sent - 1
    /\ Split \subseteq Chunks

(***************************************************************************)
(* A fine chunk is in one place at most, and nothing is lost: a chunk that *)
(* is not in a place of its own is in a coarse chunk or not sent yet.      *)
(***************************************************************************)
OnePlace ==
    /\ plain \cap (original \cup ready \cup accepted) = {}
    /\ original \cap (ready \cup accepted) = {}
    /\ ready \cap accepted = {}
    /\ \A c \in Chunks : c \in Split \/ c[1] \in coarse \/ c[1] >= sent
    /\ \A c \in Split : c[1] < sent

(***************************************************************************)
(* What Deduplicate and Compress leave for those that come later: an       *)
(* original is entered in the hash table and compressed on its way, and    *)
(* of a duplicate only the entry is looked at.                             *)
(***************************************************************************)
Known ==
    /\ \A c \in Chunks : entry[Content(c)] = c => c \in Split \ plain
    /\ \A x \in DOMAIN entry : entry[x] # None => Content(entry[x]) = x
    /\ \A c \in original \cup ready \cup accepted : entry[Content(c)] # None
    /\ \A c \in original : entry[Content(c)] = c
    /\ \A c \in Chunks : entry[Content(c)] # c \/ c \in original => state[c] = "uncompressed"
    /\ \A c \in ready \cup accepted : entry[Content(c)] = c => state[c] # "uncompressed"

\* The data of a content have been written when its original says so.
Flushed ==
    /\ \A k \in DOMAIN out : out[k].chunk \in accepted
    /\ \A c \in Chunks :
           entry[Content(c)] # None =>
               (state[entry[Content(c)]] = "flushed" <=>
                    \E k \in DOMAIN out : Content(out[k].chunk) = Content(c))

ReferencesCounted == Counted(sent, coarse, plain \cup original)

\* The inductive invariant.
Inv == TypeOK /\ OnePlace /\ Known /\ Flushed /\ DataBeforeFingerprint /\ ReferencesCounted
=============================================================================
