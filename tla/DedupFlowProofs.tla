-------------------------- MODULE DedupFlowProofs ---------------------------
(***************************************************************************)
(* Proofs about DedupFlow for any input file.  That the two pipelines      *)
(* implement it is checked by TLC (ImplementsFlow of DedupPthread and of   *)
(* DedupTurkey), and not proved.                                           *)
(***************************************************************************)
EXTENDS DedupFlow, FiniteSetTheorems, TLAPS

-----------------------------------------------------------------------------
(* Chunks.                                                                 *)

InputOK == Len(input) \in Nat /\ \A a \in Anchors : Len(input[a + 1]) \in Nat \ {0}

(* What the assumption on the input files says of the one at hand.         *)
LEMMA InputShape == input \in Inputs => InputOK
  BY InputsAssumption DEF InputOK, Anchors

(* A fine chunk is a pair of numbers in the range of the input.            *)
LEMMA ChunkShape ==
    ASSUME InputOK, NEW c \in Chunks
    PROVE  /\ c = <<c[1], c[2]>>
           /\ c[1] \in Anchors /\ c[2] \in Nat /\ c[2] < Len(input[c[1] + 1])
           /\ c \in Nat \X Nat
  BY DEF Chunks, InputOK, Anchors

(* NULL is no chunk.                                                       *)
LEMMA NoneIsNoChunk == InputOK => None \notin Chunks
  BY ChunkShape, NoneAssumption

(* The chunks of a file are finite in number.                              *)
LEMMA ChunksFinite == InputOK => IsFiniteSet(Chunks)
  <1>. SUFFICES ASSUME InputOK PROVE IsFiniteSet(Chunks)
    OBVIOUS
  <1>. DEFINE f == [a \in Anchors |-> {<<a, b>> : b \in 0..Len(input[a + 1]) - 1}]
              T == {f[a] : a \in Anchors}
  <1>1. IsFiniteSet(Anchors)
    BY FS_Interval DEF Anchors, InputOK
  <1>2. f \in Surjection(Anchors, T)
    BY Zenon DEF Surjection
  <1>3. IsFiniteSet(T)
    BY <1>1, <1>2, FS_Surjection
  <1>4. ASSUME NEW a \in Anchors PROVE IsFiniteSet(f[a])
    <2>1. IsFiniteSet(0..Len(input[a + 1]) - 1)
      BY FS_Interval DEF InputOK
    <2>2. IsFiniteSet({a} \X (0..Len(input[a + 1]) - 1))
      BY <2>1, FS_Product, FS_Singleton, Zenon
    <2>3. f[a] \in SUBSET ({a} \X (0..Len(input[a + 1]) - 1))
      OBVIOUS
    <2>. QED  BY <2>2, <2>3, FS_Subset
  <1>5. IsFiniteSet(UNION T)
    BY <1>3, <1>4, FS_UNION, Zenon
  <1>6. UNION T = Chunks
    BY DEF Chunks
  <1>. QED  BY <1>5, <1>6

(* No step changes the input, nor what depends on nothing else.            *)
LEMMA SameInput ==
    ASSUME UNCHANGED input
    PROVE  /\ Anchors' = Anchors /\ Chunks' = Chunks /\ InputOK' = InputOK
           /\ \A c : Content(c)' = Content(c) /\ isLastL2Chunk(c)' = isLastL2Chunk(c)
           /\ \A a : Buffer(a)' = Buffer(a)
  BY DEF Anchors, Chunks, Content, isLastL2Chunk, Buffer, InputOK

-----------------------------------------------------------------------------
(* Counting the parts of a memory buffer.                                  *)

CoarseIn(b) == {a \in coarse : Buffer(a) = b}
FineIn(b) == {c \in plain \cup original : Buffer(c[1]) = b}
Rest(b) == IF b = 1 /\ sent \in 1..Len(input) - 1 THEN 1 ELSE 0

Places ==
    /\ InputOK
    /\ sent \in 0..Len(input)
    /\ coarse \subseteq 0..sent - 1
    /\ Split \subseteq Chunks

(* One element more or less.                                               *)
LEMMA OneMore ==
    ASSUME NEW S, IsFiniteSet(S), NEW x, x \notin S
    PROVE  Cardinality(S \cup {x}) = Cardinality(S) + 1
  BY FS_AddElement

LEMMA OneLess ==
    ASSUME NEW S, IsFiniteSet(S), NEW x \in S
    PROVE  Cardinality(S \ {x}) = Cardinality(S) - 1
  BY FS_RemoveElement

(* The parts of a buffer are finite in number.                             *)
LEMMA PartsFinite ==
    ASSUME Places, NEW b
    PROVE  /\ IsFiniteSet(CoarseIn(b)) /\ Cardinality(CoarseIn(b)) \in Nat
           /\ IsFiniteSet(FineIn(b)) /\ Cardinality(FineIn(b)) \in Nat
  <1>1. IsFiniteSet(0..sent - 1) /\ CoarseIn(b) \in SUBSET (0..sent - 1)
    <2>1. sent - 1 \in Int
      BY DEF Places, InputOK
    <2>2. CoarseIn(b) \subseteq coarse
      BY DEF CoarseIn
    <2>3. coarse \subseteq 0..sent - 1
      BY DEF Places
    <2>4. IsFiniteSet(0..sent - 1)
      BY <2>1, FS_Interval
    <2>5. CoarseIn(b) \in SUBSET (0..sent - 1)
      BY <2>2, <2>3, Zenon
    <2>. QED  BY <2>4, <2>5
  <1>2. IsFiniteSet(Chunks) /\ FineIn(b) \in SUBSET Chunks
    BY ChunksFinite DEF Places, FineIn, Split
  <1>. QED
    BY <1>1, <1>2, FS_Subset, FS_CardinalityType, Zenon

(* The counters are right when they are sums of these numbers.             *)
LEMMA CountedParts ==
    ReferencesCounted <=>
        \A b \in 1..2 : refs[b] = Cardinality(CoarseIn(b)) + Cardinality(FineIn(b)) + Rest(b)
  BY DEF ReferencesCounted, Counted, CoarseIn, FineIn, Rest

(* Then they are natural numbers.                                          *)
LEMMA CountersNatural ==
    Places /\ ReferencesCounted /\ refs \in [1..2 -> Int] => refs \in [1..2 -> Nat]
  <1>. SUFFICES ASSUME Places, ReferencesCounted, refs \in [1..2 -> Int]
                PROVE  refs \in [1..2 -> Nat]
    OBVIOUS
  <1>1. ASSUME NEW b \in 1..2 PROVE refs[b] \in Nat
    BY PartsFinite, CountedParts DEF Rest
  <1>. QED  BY <1>1

(* Fragment splits a coarse chunk off the rest, or moves the rest.         *)
LEMMA SendCounts ==
    ASSUME Inv, Send, Places, Places'
    PROVE  ReferencesCounted' /\ (refs \in [1..2 -> Int])'
  <1>1. /\ refs \in [1..2 -> Nat]
        /\ \A b \in 1..2 : refs[b] = Cardinality(CoarseIn(b)) + Cardinality(FineIn(b)) + Rest(b)
    BY CountedParts DEF Inv, TypeOK, ChunksTypeOK
  <1>2. sent \in Nat /\ Len(input) \in Nat /\ sent < Len(input)
    BY DEF Send, InputOK, Places
  <1>3. /\ refs'[1] = (IF sent = 0 THEN 1 ELSE refs[1]) + (IF sent + 1 < Len(input) THEN 1 ELSE -1)
        /\ refs'[2] = IF sent + 1 < Len(input) THEN refs[2] ELSE 1
        /\ refs' \in [1..2 -> Int]
    BY <1>1, <1>2 DEF Send, Fragmented, mbuffer_create, mbuffer_split, mbuffer_free
  <1>4. \A b : FineIn(b)' = FineIn(b)
    BY SameInput DEF Send, FineIn
  <1>5. \A b : CoarseIn(b)' = IF Buffer(sent) = b THEN CoarseIn(b) \cup {sent} ELSE CoarseIn(b)
    BY SameInput DEF Send, CoarseIn
  <1>6. \A b : sent \notin CoarseIn(b)
    BY <1>2 DEF CoarseIn, Places
  <1>7. \A b : Cardinality(CoarseIn(b)') = Cardinality(CoarseIn(b)) + (IF Buffer(sent) = b THEN 1 ELSE 0)
    BY <1>5, <1>6, PartsFinite, OneMore
  <1>8. Cardinality({}) = 0
    BY FS_EmptySet
  <1>9. sent = 0 => \A b : Cardinality(CoarseIn(b)) = 0 /\ Cardinality(FineIn(b)) = 0
    <2>. SUFFICES ASSUME sent = 0, NEW b PROVE CoarseIn(b) = {} /\ FineIn(b) = {}
      BY <1>8, Zenon
    <2>1. coarse = {}
      BY DEF Places
    <2>2. \A c \in Split : c[1] \in Nat /\ c[1] < sent
      BY ChunkShape DEF Inv, OnePlace, Anchors, Places
    <2>3. Split = {}
      BY <2>2
    <2>. QED  BY <2>1, <2>3 DEF CoarseIn, FineIn, Split
  <1>10. sent + 1 = Len(input) => Cardinality(CoarseIn(2)) = 0 /\ Cardinality(FineIn(2)) = 0
    <2>. SUFFICES ASSUME sent + 1 = Len(input) PROVE CoarseIn(2) = {} /\ FineIn(2) = {}
      BY <1>8, Zenon
    <2>1. \A a \in coarse : Buffer(a) = 1
      BY <1>2 DEF Buffer, Places
    <2>2. \A c \in Split : c[1] \in Nat /\ c[1] < sent
      BY ChunkShape DEF Inv, OnePlace, Anchors, Places
    <2>3. \A c \in Split : Buffer(c[1]) = 1
      BY <1>2, <2>2 DEF Buffer
    <2>4. ASSUME NEW a \in CoarseIn(2) PROVE FALSE
      BY <2>1 DEF CoarseIn
    <2>5. ASSUME NEW c \in FineIn(2) PROVE FALSE
      BY <2>3 DEF FineIn, Split
    <2>. QED  BY <2>4, <2>5
  <1>11. /\ Rest(1) = IF sent = 0 THEN 0 ELSE 1
         /\ Rest(1)' = IF sent + 1 < Len(input) THEN 1 ELSE 0
         /\ Rest(2) = 0 /\ Rest(2)' = 0
    BY <1>2 DEF Rest, Send
  <1>12. Buffer(sent) = IF sent + 1 = Len(input) THEN 2 ELSE 1
    BY DEF Buffer
  <1>13. \A b : Cardinality(CoarseIn(b)) \in Nat /\ Cardinality(FineIn(b)) \in Nat
    BY PartsFinite
  <1>. DEFINE c1 == Cardinality(CoarseIn(1))
              c2 == Cardinality(CoarseIn(2))
              f1 == Cardinality(FineIn(1))
              f2 == Cardinality(FineIn(2))
  <1>14. refs'[1] = Cardinality(CoarseIn(1)') + Cardinality(FineIn(1)') + Rest(1)'
    <2>1. Cardinality(CoarseIn(1)') = c1 + (IF sent + 1 = Len(input) THEN 0 ELSE 1)
      BY <1>7, <1>12, <1>13
    <2>2. Cardinality(FineIn(1)') = f1
      BY <1>4
    <2>3. c1 \in Nat /\ f1 \in Nat /\ (sent = 0 => c1 = 0 /\ f1 = 0)
      BY <1>9, <1>13
    <2>4. refs[1] = c1 + f1 + Rest(1)
      BY <1>1
    <2>. HIDE DEF c1, f1
    <2>. QED  BY <1>2, <1>3, <1>11, <2>1, <2>2, <2>3, <2>4
  <1>15. refs'[2] = Cardinality(CoarseIn(2)') + Cardinality(FineIn(2)') + Rest(2)'
    <2>1. Cardinality(CoarseIn(2)') = c2 + (IF sent + 1 = Len(input) THEN 1 ELSE 0)
      BY <1>7, <1>12, <1>13
    <2>2. Cardinality(FineIn(2)') = f2
      BY <1>4
    <2>3. c2 \in Nat /\ f2 \in Nat /\ (sent + 1 = Len(input) => c2 = 0 /\ f2 = 0)
      BY <1>10, <1>13
    <2>4. refs[2] = c2 + f2 + Rest(2)
      BY <1>1
    <2>. HIDE DEF c2, f2
    <2>. QED  BY <1>2, <1>3, <1>11, <2>1, <2>2, <2>3, <2>4
  <1>16. \A b \in 1..2 : b = 1 \/ b = 2
    OBVIOUS
  <1>17. (\A b \in 1..2 : refs[b] = Cardinality(CoarseIn(b)) + Cardinality(FineIn(b)) + Rest(b))'
    BY <1>14, <1>15, <1>16
  <1>18. ReferencesCounted'
    BY <1>17, CountedParts, PTL
  <1>. QED  BY <1>3, <1>18

One(b, a) == IF Buffer(a) = b THEN 1 ELSE 0

(* A fine chunk more.                                                      *)
LEMMA FineGains ==
    ASSUME Places, UNCHANGED input, NEW c, c \notin plain \cup original,
           plain' \cup original' = (plain \cup original) \cup {c}, NEW b
    PROVE  Cardinality(FineIn(b)') = Cardinality(FineIn(b)) + One(b, c[1])
  <1>1. FineIn(b)' = IF Buffer(c[1]) = b THEN FineIn(b) \cup {c} ELSE FineIn(b)
    BY SameInput DEF FineIn
  <1>2. c \notin FineIn(b)
    BY DEF FineIn
  <1>. QED
    BY <1>1, <1>2, PartsFinite, OneMore DEF One

(* A fine chunk less.                                                      *)
LEMMA FineLoses ==
    ASSUME Places, UNCHANGED input, NEW c \in plain \cup original,
           plain' \cup original' = (plain \cup original) \ {c}, NEW b
    PROVE  Cardinality(FineIn(b)') = Cardinality(FineIn(b)) - One(b, c[1])
  <1>1. FineIn(b)' = IF Buffer(c[1]) = b THEN FineIn(b) \ {c} ELSE FineIn(b)
    BY SameInput DEF FineIn
  <1>2. Buffer(c[1]) = b => c \in FineIn(b)
    BY DEF FineIn
  <1>. QED
    BY <1>1, <1>2, PartsFinite, OneLess DEF One

(* A coarse chunk less.                                                    *)
LEMMA CoarseLoses ==
    ASSUME Places, UNCHANGED input, NEW a \in coarse, coarse' = coarse \ {a}, NEW b
    PROVE  Cardinality(CoarseIn(b)') = Cardinality(CoarseIn(b)) - One(b, a)
  <1>1. CoarseIn(b)' = IF Buffer(a) = b THEN CoarseIn(b) \ {a} ELSE CoarseIn(b)
    BY SameInput DEF CoarseIn
  <1>2. Buffer(a) = b => a \in CoarseIn(b)
    BY DEF CoarseIn
  <1>. QED
    BY <1>1, <1>2, PartsFinite, OneLess DEF One

(* What a step that sends nothing does to the counters is what it does to  *)
(* the numbers of parts.                                                   *)
LEMMA Recounted ==
    ASSUME Inv, Places, UNCHANGED <<input, sent>>, NEW d \in [1..2 -> Int],
           refs' \in [1..2 -> Int], \A b \in 1..2 : refs'[b] = refs[b] + d[b],
           \A b \in 1..2 : Cardinality(CoarseIn(b)') + Cardinality(FineIn(b)')
                            = Cardinality(CoarseIn(b)) + Cardinality(FineIn(b)) + d[b]
    PROVE  ReferencesCounted' /\ (refs \in [1..2 -> Int])'
  <1>1. /\ refs \in [1..2 -> Nat]
        /\ \A b \in 1..2 : refs[b] = Cardinality(CoarseIn(b)) + Cardinality(FineIn(b)) + Rest(b)
    BY CountedParts DEF Inv, TypeOK, ChunksTypeOK
  <1>2. ASSUME NEW b \in 1..2
        PROVE  refs'[b] = Cardinality(CoarseIn(b)') + Cardinality(FineIn(b)') + Rest(b)'
    <2>1. Rest(b)' = Rest(b) /\ Rest(b) \in Nat
      BY DEF Rest
    <2>2. Cardinality(CoarseIn(b)) \in Nat /\ Cardinality(FineIn(b)) \in Nat
      BY PartsFinite
    <2>. QED  BY <1>1, <2>1, <2>2
  <1>3. (\A b \in 1..2 : refs[b] = Cardinality(CoarseIn(b)) + Cardinality(FineIn(b)) + Rest(b))'
    BY <1>2
  <1>4. ReferencesCounted'
    BY <1>3, CountedParts, PTL
  <1>. QED  BY <1>4

-----------------------------------------------------------------------------
(* The invariant.                                                          *)

(* The invariant says where chunks can be.                                 *)
LEMMA InvPlaces == Inv => Places
  BY InputShape DEF Inv, TypeOK, ChunksTypeOK, Places

(* It holds at the start.                                                  *)
LEMMA InitInv == Init => Inv
  <1>. SUFFICES ASSUME Init PROVE Inv
    OBVIOUS
  <1>. USE DEF Init, ChunksInit
  <1>1. InputOK /\ Split = {}
    BY InputShape DEF Split
  <1>2. Places
    BY <1>1 DEF Places, InputOK
  <1>3. TypeOK
    BY <1>1, <1>2 DEF TypeOK, ChunksTypeOK, Places
  <1>4. OnePlace
    <2>1. \A c \in Chunks : c[1] >= 0
      BY <1>1, ChunkShape DEF Anchors
    <2>. QED  BY <1>1, <2>1 DEF OnePlace
  <1>5. Known
    BY <1>1, NoneIsNoChunk DEF Known
  <1>6. Flushed /\ DataBeforeFingerprint
    BY DEF Flushed, DataBeforeFingerprint
  <1>7. ReferencesCounted
    <2>1. \A b \in 1..2 : CoarseIn(b) = {} /\ FineIn(b) = {} /\ Rest(b) = 0
      BY DEF CoarseIn, FineIn, Rest
    <2>2. Cardinality({}) = 0
      BY FS_EmptySet
    <2>3. \A b \in 1..2 : refs[b] = 0
      OBVIOUS
    <2>4. \A b \in 1..2 : refs[b] = Cardinality(CoarseIn(b)) + Cardinality(FineIn(b)) + Rest(b)
      <3>. SUFFICES ASSUME NEW b \in 1..2
                    PROVE  refs[b] = Cardinality(CoarseIn(b)) + Cardinality(FineIn(b)) + Rest(b)
        OBVIOUS
      <3>1. Cardinality(CoarseIn(b)) = 0 /\ Cardinality(FineIn(b)) = 0
        BY <2>1, <2>2, Zenon
      <3>. QED  BY <2>1, <2>3, <3>1
    <2>. QED  BY <2>4, CountedParts
  <1>. QED  BY <1>3, <1>4, <1>5, <1>6, <1>7 DEF Inv

(* A step by which one fine chunk gives up its data.                       *)
LEMMA FreeCounts ==
    ASSUME Inv, UNCHANGED <<input, sent, coarse>>, NEW c \in plain \cup original,
           plain' \cup original' = (plain \cup original) \ {c},
           refs' = mbuffer_free(refs, Buffer(c[1]))
    PROVE  ReferencesCounted' /\ (refs \in [1..2 -> Int])'
  <1>. DEFINE d == [b \in 1..2 |-> -One(b, c[1])]
  <1>1. Places
    BY InvPlaces
  <1>2. d \in [1..2 -> Int]
    BY DEF One
  <1>3. refs' \in [1..2 -> Int] /\ \A b \in 1..2 : refs'[b] = refs[b] + d[b]
    <2>1. refs \in [1..2 -> Int]
      BY DEF Inv, TypeOK, ChunksTypeOK
    <2>2. refs' = [refs EXCEPT ![Buffer(c[1])] = refs[Buffer(c[1])] - 1]
      BY DEF mbuffer_free
    <2>3. Buffer(c[1]) \in 1..2
      BY DEF Buffer
    <2>4. refs' \in [1..2 -> Int] /\ \A b \in 1..2 : refs'[b] = refs[b] - One(b, c[1])
      BY <2>1, <2>2, <2>3 DEF One
    <2>5. \A b \in 1..2 : d[b] = -One(b, c[1]) /\ One(b, c[1]) \in 0..1
      BY DEF One
    <2>. HIDE DEF d
    <2>. QED  BY <2>1, <2>4, <2>5
  <1>4. ASSUME NEW b \in 1..2
        PROVE  Cardinality(CoarseIn(b)') + Cardinality(FineIn(b)')
               = Cardinality(CoarseIn(b)) + Cardinality(FineIn(b)) + d[b]
    <2>1. Cardinality(FineIn(b)') = Cardinality(FineIn(b)) - One(b, c[1])
      BY <1>1, FineLoses
    <2>2. CoarseIn(b)' = CoarseIn(b)
      BY SameInput DEF CoarseIn
    <2>3. Cardinality(CoarseIn(b)) \in Nat /\ Cardinality(FineIn(b)) \in Nat /\ One(b, c[1]) \in 0..1
      BY <1>1, PartsFinite DEF One
    <2>4. d[b] = -One(b, c[1])
      BY <2>3
    <2>. HIDE DEF d
    <2>. QED  BY <2>1, <2>2, <2>3, <2>4
  <1>. HIDE DEF d
  <1>. QED  BY <1>1, <1>2, <1>3, <1>4, Recounted

(* A step by which no chunk gains or loses its data.                       *)
LEMMA KeepCounts ==
    ASSUME Inv, UNCHANGED <<input, sent, coarse, refs>>,
           plain' \cup original' = plain \cup original
    PROVE  ReferencesCounted' /\ (refs \in [1..2 -> Int])'
  <1>1. \A b \in 1..2 : CoarseIn(b)' = CoarseIn(b) /\ FineIn(b)' = FineIn(b) /\ Rest(b)' = Rest(b)
    BY SameInput DEF CoarseIn, FineIn, Rest
  <1>2. \A b \in 1..2 : refs[b] = Cardinality(CoarseIn(b)) + Cardinality(FineIn(b)) + Rest(b)
    BY CountedParts DEF Inv
  <1>3. (\A b \in 1..2 : refs[b] = Cardinality(CoarseIn(b)) + Cardinality(FineIn(b)) + Rest(b))'
    BY <1>1, <1>2
  <1>4. ReferencesCounted'
    BY <1>3, CountedParts, PTL
  <1>. QED  BY <1>4 DEF Inv, TypeOK, ChunksTypeOK

(* DataBeforeFingerprint is about the input and the records and nothing    *)
(* else.                                                                   *)
Resolved(f, r) ==
    \A k \in DOMAIN r :
        r[k].data = (\A j \in 1..k - 1 : f[r[j].chunk[1] + 1][r[j].chunk[2] + 1]
                                             # f[r[k].chunk[1] + 1][r[k].chunk[2] + 1])

(* It is the same thing.                                                   *)
LEMMA ResolvedIs == DataBeforeFingerprint <=> Resolved(input, out)
  BY Zenon DEF DataBeforeFingerprint, Resolved, Content

(* It stays as it is when they do.                                         *)
LEMMA SameRecords ==
    ASSUME DataBeforeFingerprint, UNCHANGED <<input, out>>
    PROVE  DataBeforeFingerprint'
  <1>1. Resolved(input', out')
    BY ResolvedIs
  <1>2. (DataBeforeFingerprint <=> Resolved(input, out))'
    BY ResolvedIs, PTL
  <1>. QED  BY <1>1, <1>2

(* The parts of the invariant about the output stay as they are with what  *)
(* they are about.                                                         *)
LEMMA SameOutput ==
    ASSUME Inv, UNCHANGED <<input, entry, state, out, accepted>>
    PROVE  Flushed' /\ DataBeforeFingerprint'
  <1>. USE SameInput DEF Inv, Content
  <1>1. Flushed'
    BY DEF Flushed
  <1>2. DataBeforeFingerprint'
    BY SameRecords
  <1>. QED  BY <1>1, <1>2

(* A step that changes nothing keeps it.                                   *)
LEMMA StutterStep == Inv /\ UNCHANGED vars => Inv'
  <1>. SUFFICES ASSUME Inv, UNCHANGED vars PROVE Inv'
    OBVIOUS
  <1>1. UNCHANGED <<input, entry, state, refs, out, sent, coarse, plain, original, ready, accepted>>
    BY DEF vars, chunkVars, flowVars
  <1>2. Split' = Split
    BY <1>1 DEF Split
  <1>3. TypeOK' /\ OnePlace'
    BY <1>1, <1>2, SameInput DEF Inv, TypeOK, ChunksTypeOK, OnePlace
  <1>4. Known'
    <2>1. Known
      BY Zenon DEF Inv
    <2>2. \A x \in DOMAIN entry' : entry'[x] # None => Content(entry[x])' = x
      BY <1>1, <2>1 DEF Known, Content
    <2>. QED  BY <1>1, <1>2, <2>1, <2>2, SameInput DEF Known
  <1>5. Flushed' /\ DataBeforeFingerprint'
    BY <1>1, SameOutput
  <1>6. ReferencesCounted'
    BY <1>1, KeepCounts
  <1>. QED  BY <1>3, <1>4, <1>5, <1>6 DEF Inv

(* Fragment sends a coarse chunk.                                          *)
LEMMA SendStep == Inv /\ Send => Inv'
  <1>. SUFFICES ASSUME Inv, Send PROVE Inv'
    OBVIOUS
  <1>1. Places
    BY InvPlaces
  <1>2. Split' = Split
    BY DEF Send, Split
  <1>3. Places'
    BY <1>1, <1>2, SameInput DEF Places, Send, InputOK
  <1>4. ReferencesCounted' /\ (refs \in [1..2 -> Int])'
    BY <1>1, <1>3, SendCounts
  <1>5. (refs \in [1..2 -> Nat])'
    BY <1>3, <1>4, CountersNatural, PTL
  <1>6. TypeOK'
    BY <1>3, <1>5, SameInput DEF Places, TypeOK, ChunksTypeOK, Inv, Send
  <1>7. OnePlace'
    <2>1. \A c \in Chunks : c[1] \in Nat
      BY <1>1, ChunkShape DEF Anchors, Places
    <2>2. sent \in Nat /\ sent' = sent + 1 /\ coarse' = coarse \cup {sent}
      BY <1>1 DEF Places, InputOK, Send
    <2>3. Split \subseteq Chunks
      BY <1>1 DEF Places
    <2>4. \A c \in Chunks : c \in Split \/ c[1] \in coarse \/ c[1] >= sent
      BY DEF Inv, OnePlace
    <2>5. \A c \in Chunks : c \in Split' \/ c[1] \in coarse' \/ c[1] >= sent'
      BY <1>2, <2>1, <2>2, <2>4
    <2>6. \A c \in Split : c[1] < sent'
      BY <2>1, <2>2, <2>3 DEF Inv, OnePlace
    <2>. QED
      BY <1>2, <2>5, <2>6, SameInput DEF Inv, OnePlace, Send
  <1>8. Known'
    BY <1>2, SameInput DEF Inv, Known, Send
  <1>9. Flushed' /\ DataBeforeFingerprint'
    BY SameOutput DEF Send
  <1>. QED  BY <1>4, <1>6, <1>7, <1>8, <1>9 DEF Inv

(* FragmentRefine splits a fine chunk off.                                 *)
LEMMA RefineStep == ASSUME Inv, NEW c \in Chunks, Refine(c) PROVE Inv'
  <1>1. Places /\ InputOK
    BY InvPlaces DEF Places
  <1>2. /\ c = <<c[1], c[2]>> /\ c[1] \in Nat /\ c[2] \in Nat
        /\ c[1] \in Anchors /\ c[2] < Len(input[c[1] + 1])
    BY <1>1, ChunkShape DEF Anchors
  <1>3. c \notin Split /\ Split' = Split \cup {c}
    BY <1>2 DEF Refine, Split
  <1>4. Places'
    BY <1>1, <1>3, SameInput, Zenon DEF Places, Refine
  <1>5. ReferencesCounted' /\ (refs \in [1..2 -> Int])'
    <2>. DEFINE d == [b \in 1..2 |-> IF isLastL2Chunk(c) THEN 0 ELSE One(b, c[1])]
    <2>1. d \in [1..2 -> Int]
      BY DEF One
    <2>2. refs' \in [1..2 -> Int] /\ \A b \in 1..2 : refs'[b] = refs[b] + d[b]
      <3>1. refs \in [1..2 -> Int]
        BY DEF Inv, TypeOK, ChunksTypeOK
      <3>2. CASE isLastL2Chunk(c)
        BY <3>1, <3>2 DEF Refine, Refined
      <3>3. CASE ~isLastL2Chunk(c)
        <4>1. refs' = [refs EXCEPT ![Buffer(c[1])] = refs[Buffer(c[1])] + 1]
          BY <3>3 DEF Refine, Refined, mbuffer_split
        <4>2. refs' \in [1..2 -> Int] /\ \A b \in 1..2 : refs'[b] = refs[b] + One(b, c[1])
          <5>1. Buffer(c[1]) \in 1..2
            BY DEF Buffer
          <5>. QED  BY <3>1, <4>1, <5>1 DEF One
        <4>3. \A b \in 1..2 : One(b, c[1]) = d[b]
          BY <3>3 DEF One
        <4>. HIDE DEF d
        <4>. QED  BY <4>2, <4>3
      <3>. QED  BY <3>2, <3>3
    <2>3. ASSUME NEW b \in 1..2
          PROVE  Cardinality(CoarseIn(b)') + Cardinality(FineIn(b)')
                 = Cardinality(CoarseIn(b)) + Cardinality(FineIn(b)) + d[b]
      <3>1. Cardinality(FineIn(b)') = Cardinality(FineIn(b)) + One(b, c[1])
        BY <1>1, <1>3, FineGains DEF Refine, Split
      <3>2. Cardinality(CoarseIn(b)') =
                Cardinality(CoarseIn(b)) - (IF isLastL2Chunk(c) THEN One(b, c[1]) ELSE 0)
        <4>1. CASE isLastL2Chunk(c)
          BY <1>1, <4>1, CoarseLoses DEF Refine
        <4>2. CASE ~isLastL2Chunk(c)
          <5>1. CoarseIn(b)' = CoarseIn(b)
            BY <4>2, SameInput DEF Refine, CoarseIn
          <5>2. Cardinality(CoarseIn(b)) \in Nat
            BY <1>1, PartsFinite
          <5>. QED  BY <4>2, <5>1, <5>2
        <4>. QED  BY <4>1, <4>2
      <3>3. Cardinality(CoarseIn(b)) \in Nat /\ Cardinality(FineIn(b)) \in Nat /\ One(b, c[1]) \in Nat
        BY <1>1, PartsFinite DEF One
      <3>4. d[b] = IF isLastL2Chunk(c) THEN 0 ELSE One(b, c[1])
        OBVIOUS
      <3>. HIDE DEF d
      <3>. QED  BY <3>1, <3>2, <3>3, <3>4
    <2>. HIDE DEF d
    <2>. QED  BY <1>1, <2>1, <2>2, <2>3, Recounted DEF Refine
  <1>6. (refs \in [1..2 -> Nat])'
    BY <1>4, <1>5, CountersNatural, PTL
  <1>7. TypeOK'
    BY <1>4, <1>6, SameInput DEF Places, TypeOK, ChunksTypeOK, Inv, Refine
  <1>8. OnePlace'
    <2>1. plain' \cap (original' \cup ready' \cup accepted') = {}
      BY <1>3 DEF Refine, Inv, OnePlace, Split
    <2>2. c[1] < sent
      BY <1>1, <1>2 DEF Refine, Places, InputOK
    <2>3. ASSUME NEW e \in Chunks PROVE e \in Split' \/ e[1] \in coarse' \/ e[1] >= sent'
      <3>1. e \in Split \/ e[1] \in coarse \/ e[1] >= sent
        BY DEF Inv, OnePlace
      <3>2. CASE e[1] = c[1] /\ isLastL2Chunk(c)
        <4>1. e = <<e[1], e[2]>> /\ e[2] \in Nat /\ e[2] < c[2] + 1
          BY <1>1, <3>2, ChunkShape DEF isLastL2Chunk
        <4>2. CASE e[2] < c[2]
          BY <1>3, <3>2, <4>2 DEF Refine
        <4>3. CASE e[2] = c[2]
          BY <1>2, <1>3, <3>2, <4>1, <4>3
        <4>. QED  BY <1>2, <4>1, <4>2, <4>3
      <3>3. CASE ~(e[1] = c[1] /\ isLastL2Chunk(c))
        BY <1>3, <3>1, <3>3 DEF Refine
      <3>. QED  BY <3>2, <3>3
    <2>4. \A e \in Split' : e[1] < sent'
      BY <1>3, <2>2 DEF Refine, Inv, OnePlace
    <2>. QED
      BY <2>1, <2>3, <2>4, SameInput DEF Refine, Inv, OnePlace
  <1>9. Known'
    <2>1. entry[Content(c)] # c
      BY <1>3 DEF Inv, Known
    <2>2. Known
      BY Zenon DEF Inv
    <2>3. \A x \in DOMAIN entry' : entry'[x] # None => Content(entry[x])' = x
      BY <2>2 DEF Known, Refine, Content
    <2>4. UNCHANGED <<input, entry, state, original, ready, accepted>> /\ plain' = plain \cup {c}
      BY DEF Refine
    <2>5. \A e \in Chunks : entry[Content(e)] = e => e \in Split' \ plain'
      BY <1>3, <2>1, <2>2, <2>4 DEF Known
    <2>. QED
      BY <2>2, <2>3, <2>4, <2>5, SameInput DEF Known
  <1>10. Flushed' /\ DataBeforeFingerprint'
    BY SameOutput DEF Refine
  <1>. QED  BY <1>5, <1>7, <1>8, <1>9, <1>10 DEF Inv

(* Deduplicate looks a chunk up.                                           *)
LEMMA DeduplicateStep == ASSUME Inv, NEW c \in Chunks, Deduplicate(c) PROVE Inv'
  <1>1. Places /\ InputOK /\ c # None
    BY InvPlaces, NoneIsNoChunk DEF Places
  <1>2. UNCHANGED <<input, state, out, sent, coarse, accepted>>
    BY DEF Deduplicate
  <1>3. /\ entry \in [{Content(e) : e \in Chunks} -> Chunks \cup {None}]
        /\ entry' \in [{Content(e) : e \in Chunks} -> Chunks \cup {None}]
        /\ \A e \in Chunks : entry'[Content(e)] =
               IF Content(e) = Content(c) /\ entry[Content(e)] = None THEN c ELSE entry[Content(e)]
    BY DEF Deduplicate, sub_Deduplicate, Inv, TypeOK, ChunksTypeOK
  <1>4. c \in plain /\ entry[Content(c)] # c /\ c \notin original \cup ready \cup accepted
    BY DEF Deduplicate, Inv, Known, OnePlace
  <1>5. /\ plain' = plain \ {c}
        /\ original' = IF entry[Content(c)] = None THEN original \cup {c} ELSE original
        /\ ready' = IF entry[Content(c)] = None THEN ready ELSE ready \cup {c}
    BY <1>1, <1>3, <1>4 DEF Deduplicate
  <1>6. Split' = Split
    BY <1>2, <1>4, <1>5 DEF Split
  <1>7. Places'
    BY <1>1, <1>2, <1>6, SameInput DEF Places
  <1>8. ReferencesCounted' /\ (refs \in [1..2 -> Int])'
    <2>1. CASE entry[Content(c)] = None
      <3>1. refs' = refs
        BY <1>3, <2>1 DEF Deduplicate, sub_Deduplicate
      <3>2. plain' \cup original' = plain \cup original
        BY <1>4, <1>5, <2>1
      <3>. QED  BY <1>2, <3>1, <3>2, KeepCounts
    <2>2. CASE entry[Content(c)] # None
      <3>1. refs' = mbuffer_free(refs, Buffer(c[1]))
        BY <1>3, <1>4, <2>2 DEF Deduplicate, sub_Deduplicate
      <3>2. plain' \cup original' = (plain \cup original) \ {c}
        BY <1>4, <1>5, <2>2
      <3>. QED  BY <1>2, <1>4, <3>1, <3>2, FreeCounts
    <2>. QED  BY <2>1, <2>2
  <1>9. (refs \in [1..2 -> Nat])'
    BY <1>7, <1>8, CountersNatural, PTL
  <1>10. TypeOK'
    <2>1. (entry \in [{Content(e) : e \in Chunks} -> Chunks \cup {None}])'
      BY <1>2, <1>3, SameInput
    <2>. QED
      BY <1>2, <1>7, <1>9, <2>1, SameInput DEF Places, TypeOK, ChunksTypeOK, Inv
  <1>11. OnePlace'
    BY <1>2, <1>4, <1>5, <1>6, SameInput DEF Inv, OnePlace
  <1>12. Known'
    <2>1. Known
      BY Zenon DEF Inv
    <2>2. \A e \in Chunks : entry'[Content(e)] = e => e \in Split' \ plain'
      BY <1>1, <1>3, <1>4, <1>5, <1>6, <2>1 DEF Known, Split
    <2>3. ASSUME NEW x \in DOMAIN entry', entry'[x] # None PROVE Content(entry'[x]) = x
      <3>1. PICK e \in Chunks : x = Content(e)
        BY <1>3
      <3>. QED  BY <1>3, <2>1, <2>3, <3>1 DEF Known
    <2>4. \A e \in original' \cup ready' \cup accepted' : e \in Chunks
      BY <1>1, <1>6 DEF Places, Split
    <2>5. \A e \in original' \cup ready' \cup accepted' : entry'[Content(e)] # None
      BY <1>1, <1>2, <1>3, <1>5, <2>1, <2>4 DEF Known
    <2>6. \A e \in original' : entry'[Content(e)] = e
      BY <1>1, <1>2, <1>3, <1>5, <2>1, <2>4 DEF Known
    <2>7. \A e \in Chunks : entry'[Content(e)] # e \/ e \in original' => state'[e] = "uncompressed"
      BY <1>1, <1>2, <1>3, <1>4, <1>5, <2>1, NoneIsNoChunk DEF Known
    <2>8. \A e \in ready' \cup accepted' : entry'[Content(e)] = e => state'[e] # "uncompressed"
      BY <1>1, <1>2, <1>3, <1>4, <1>5, <2>1, <2>4 DEF Known
    <2>9. \A x \in DOMAIN entry' : entry'[x] # None => Content(entry[x])' = x
      BY <1>2, <2>3 DEF Content
    <2>. QED
      BY <1>2, <2>2, <2>5, <2>6, <2>7, <2>8, <2>9, SameInput DEF Known
  <1>13. Flushed' /\ DataBeforeFingerprint'
    <2>1. \A k \in DOMAIN out : out[k].chunk \in accepted /\ out[k].chunk \in Chunks
      BY <1>1 DEF Inv, Flushed, Places, Split
    <2>2. \A k \in DOMAIN out : entry[Content(out[k].chunk)] # None
      BY <2>1 DEF Inv, Known
    <2>3. state[c] = "uncompressed"
      BY <1>4 DEF Inv, Known
    <2>4. ASSUME NEW e \in Chunks, entry'[Content(e)] # None
          PROVE  state[entry'[Content(e)]] = "flushed" <=>
                     \E k \in DOMAIN out : Content(out[k].chunk) = Content(e)
      <3>1. CASE Content(e) = Content(c) /\ entry[Content(e)] = None
        BY <1>3, <2>2, <2>3, <3>1
      <3>2. CASE ~(Content(e) = Content(c) /\ entry[Content(e)] = None)
        BY <1>3, <2>4, <3>2 DEF Inv, Flushed
      <3>. QED  BY <3>1, <3>2
    <2>5. Flushed'
      BY <1>2, <2>1, <2>4, SameInput DEF Flushed, Content
    <2>6. DataBeforeFingerprint'
      BY <1>2, SameRecords DEF Inv
    <2>. QED  BY <2>5, <2>6
  <1>. QED  BY <1>8, <1>10, <1>11, <1>12, <1>13 DEF Inv

(* A step that leaves the table alone leaves each entry with its content.  *)
LEMMA SameEntries ==
    ASSUME UNCHANGED <<input, entry>>, Known
    PROVE  \A x \in DOMAIN entry' : entry'[x] # None => Content(entry[x])' = x
  BY Zenon DEF Known, Content

(* Compress compresses an original.                                        *)
LEMMA CompressStep == ASSUME Inv, NEW c \in Chunks, Compress(c) PROVE Inv'
  <1>1. Places /\ InputOK
    BY InvPlaces DEF Places
  <1>2. /\ UNCHANGED <<input, entry, out, sent, coarse, plain, accepted>>
        /\ original' = original \ {c} /\ ready' = ready \cup {c}
        /\ c \in original /\ state' = [state EXCEPT ![c] = "compressed"]
    BY DEF Compress, sub_Compress
  <1>3. /\ entry[Content(c)] = c /\ state[c] = "uncompressed"
        /\ c \notin plain \cup ready \cup accepted
    BY <1>2 DEF Inv, Known, OnePlace
  <1>4. state \in [Chunks -> {"uncompressed", "compressed", "flushed"}]
    BY DEF Inv, TypeOK, ChunksTypeOK
  <1>5. Split' = Split
    BY <1>2 DEF Split
  <1>6. Places'
    BY <1>1, <1>2, <1>5, SameInput DEF Places
  <1>7. ReferencesCounted' /\ (refs \in [1..2 -> Int])'
    <2>1. plain' \cup original' = (plain \cup original) \ {c}
      BY <1>2, <1>3
    <2>2. refs' = mbuffer_free(refs, Buffer(c[1]))
      BY DEF Compress, sub_Compress
    <2>. QED  BY <1>2, <2>1, <2>2, FreeCounts
  <1>8. (refs \in [1..2 -> Nat])'
    BY <1>6, <1>7, CountersNatural, PTL
  <1>9. TypeOK'
    <2>1. state' \in [Chunks -> {"uncompressed", "compressed", "flushed"}]
      <3>1. state' = [state EXCEPT ![c] = "compressed"]
        BY <1>2, Zenon
      <3>. QED  BY <1>4, <3>1
    <2>. QED
      BY <1>2, <1>6, <1>8, <2>1, SameInput DEF Places, TypeOK, ChunksTypeOK, Inv
  <1>10. OnePlace'
    BY <1>2, <1>3, <1>5, SameInput DEF Inv, OnePlace
  <1>11. Known'
    <2>1. Known
      BY Zenon DEF Inv
    <2>2. \A e \in Chunks : state'[e] = IF e = c THEN "compressed" ELSE state[e]
      BY <1>2, <1>4
    <2>3. \A e \in Split : e \in Chunks
      BY <1>1 DEF Places
    <2>4. \A x \in DOMAIN entry' : entry'[x] # None => Content(entry[x])' = x
      BY <1>2, <2>1, SameEntries
    <2>5. \A e \in Chunks : entry[Content(e)] # e \/ e \in original' => state'[e] = "uncompressed"
      BY <1>2, <1>3, <2>1, <2>2 DEF Known
    <2>6. \A e \in ready' \cup accepted' : entry[Content(e)] = e => state'[e] # "uncompressed"
      BY <1>2, <1>3, <2>1, <2>2, <2>3 DEF Known, Split
    <2>. QED
      BY <1>2, <1>3, <1>5, <2>1, <2>4, <2>5, <2>6, SameInput DEF Known
  <1>12. Flushed' /\ DataBeforeFingerprint'
    <2>1. ASSUME NEW e \in Chunks, entry[Content(e)] # None
          PROVE  state'[entry[Content(e)]] = "flushed" <=> state[entry[Content(e)]] = "flushed"
      <3>1. DOMAIN state = Chunks
        BY <1>4
      <3>2. state' = [state EXCEPT ![c] = "compressed"]
        BY <1>2, Zenon
      <3>. QED  BY <1>3, <3>1, <3>2
    <2>2. Flushed'
      BY <1>2, <2>1, SameInput, Zenon DEF Inv, Flushed, Content
    <2>3. DataBeforeFingerprint'
      BY <1>2, SameRecords DEF Inv
    <2>. QED  BY <2>2, <2>3
  <1>. QED  BY <1>7, <1>9, <1>10, <1>11, <1>12 DEF Inv

(* Reorder takes a chunk.                                                  *)
LEMMA AcceptStep == ASSUME Inv, NEW c \in Chunks, Accept(c) PROVE Inv'
  <1>1. Places
    BY InvPlaces
  <1>2. /\ UNCHANGED <<input, entry, state, refs, out, sent, coarse, plain, original>>
        /\ ready' = ready \ {c} /\ accepted' = accepted \cup {c} /\ c \in ready
    BY DEF Accept, chunkVars
  <1>3. Split' = Split
    BY <1>2 DEF Split
  <1>4. Places'
    BY <1>1, <1>2, <1>3, SameInput DEF Places
  <1>5. ReferencesCounted'
    BY <1>2, KeepCounts
  <1>6. TypeOK'
    BY <1>2, <1>4, SameInput DEF Places, TypeOK, ChunksTypeOK, Inv
  <1>7. OnePlace'
    BY <1>2, <1>3, SameInput DEF Inv, OnePlace
  <1>8. Known'
    <2>1. Known
      BY Zenon DEF Inv
    <2>2. \A x \in DOMAIN entry' : entry'[x] # None => Content(entry[x])' = x
      BY <1>2, <2>1, SameEntries
    <2>. QED  BY <1>2, <1>3, <2>1, <2>2, SameInput DEF Known
  <1>9. Flushed' /\ DataBeforeFingerprint'
    <2>1. Flushed'
      BY <1>2, SameInput DEF Inv, Flushed, Content
    <2>2. DataBeforeFingerprint'
      BY <1>2, SameRecords DEF Inv
    <2>. QED  BY <2>1, <2>2
  <1>. QED  BY <1>5, <1>6, <1>7, <1>8, <1>9 DEF Inv

(* Reorder writes a chunk.                                                 *)
LEMMA WriteStep == ASSUME Inv, NEW c \in Chunks, Write(c) PROVE Inv'
  <1>. DEFINE o == entry[Content(c)]
              rec == [chunk |-> c, data |-> state[o] = "compressed"]
  <1>1. Places /\ InputOK
    BY InvPlaces DEF Places
  <1>2. /\ UNCHANGED <<input, entry, refs, sent, coarse, plain, original, ready, accepted>>
        /\ c \in accepted /\ state[o] # "uncompressed"
    BY DEF Write, write_chunk_to_file, flowVars
  <1>2a. out' = Append(out, rec)
    BY DEF Write, write_chunk_to_file
  <1>2b. state' = [state EXCEPT ![o] = "flushed"]
    BY DEF Write, write_chunk_to_file
  <1>3. entry \in [{Content(e) : e \in Chunks} -> Chunks \cup {None}]
    BY DEF Inv, TypeOK, ChunksTypeOK
  <1>3a. out \in Seq([chunk : Chunks, data : BOOLEAN])
    BY DEF Inv, TypeOK, ChunksTypeOK
  <1>3b. state \in [Chunks -> {"uncompressed", "compressed", "flushed"}]
    BY DEF Inv, TypeOK, ChunksTypeOK
  <1>4. o \in Chunks /\ Content(o) = Content(c) /\ o # None
    BY <1>2, <1>3 DEF Inv, Known
  <1>5. o \notin original
    BY <1>2, <1>4 DEF Inv, Known
  <1>6. Split' = Split
    BY <1>2 DEF Split
  <1>7. Places'
    BY <1>1, <1>2, <1>6, SameInput DEF Places
  <1>8. ReferencesCounted'
    BY <1>2, KeepCounts
  <1>9. TypeOK'
    <2>1. rec \in [chunk : Chunks, data : BOOLEAN]
      OBVIOUS
    <2>2. out' \in Seq([chunk : Chunks, data : BOOLEAN])
      <3>. HIDE DEF rec
      <3>. QED  BY <1>2a, <1>3a, <2>1
    <2>3. state' \in [Chunks -> {"uncompressed", "compressed", "flushed"}]
      <3>. HIDE DEF o
      <3>. QED  BY <1>2b, <1>3b, <1>4
    <2>. QED
      BY <1>2, <1>7, <2>2, <2>3, SameInput DEF Places, TypeOK, ChunksTypeOK, Inv
  <1>10. OnePlace'
    BY <1>2, <1>6, SameInput DEF Inv, OnePlace
  <1>11. Known'
    <2>1. Known
      BY Zenon DEF Inv
    <2>2. \A e \in Chunks : state'[e] = IF e = o THEN "flushed" ELSE state[e]
      <3>1. state' = [state EXCEPT ![o] = "flushed"] /\ DOMAIN state = Chunks
        BY <1>2b, <1>3b
      <3>. HIDE DEF o
      <3>. QED  BY <3>1
    <2>3. \A e \in Split : e \in Chunks
      BY <1>1 DEF Places
    <2>4. \A x \in DOMAIN entry' : entry'[x] # None => Content(entry[x])' = x
      BY <1>2, <2>1, SameEntries
    <2>5. \A e \in Chunks : entry[Content(e)] # e \/ e \in original => state'[e] = "uncompressed"
      BY <1>4, <1>5, <2>1, <2>2 DEF Known
    <2>6. \A e \in ready \cup accepted : entry[Content(e)] = e => state'[e] # "uncompressed"
      BY <2>1, <2>2, <2>3 DEF Known, Split
    <2>. QED
      BY <1>2, <1>6, <2>1, <2>4, <2>5, <2>6, SameInput DEF Known
  <1>. DEFINE n == Len(out)
  <1>12. /\ n \in Nat /\ DOMAIN out = 1..n /\ DOMAIN out' = 1..n + 1
         /\ out'[n + 1] = rec /\ \A k \in 1..n : out'[k] = out[k]
    <2>. HIDE DEF rec
    <2>. QED  BY <1>2a, <1>3a
  <1>13. rec.chunk = c /\ rec.data = (state[o] = "compressed")
    OBVIOUS
  <1>14. state[o] = "flushed" <=> \E k \in 1..n : Content(out[k].chunk) = Content(c)
    <2>1. entry[Content(c)] # None => (state[entry[Content(c)]] = "flushed" <=>
              \E k \in DOMAIN out : Content(out[k].chunk) = Content(c))
      <3>1. Flushed
        BY DEF Inv
      <3>. QED  BY <3>1 DEF Flushed
    <2>. QED  BY <1>4, <1>12, <2>1
  <1>. HIDE DEF rec, n
  <1>15. Flushed'
    <2>1. \A k \in DOMAIN out' : out'[k].chunk \in accepted
      BY <1>2, <1>12, <1>13 DEF Inv, Flushed
    <2>2. ASSUME NEW e \in Chunks, entry[Content(e)] # None
          PROVE  state'[entry[Content(e)]] = "flushed" <=>
                     \E k \in DOMAIN out' : Content(out'[k].chunk) = Content(e)
      <3>1. /\ state[entry[Content(e)]] = "flushed" <=>
                    \E k \in 1..n : Content(out[k].chunk) = Content(e)
            /\ entry[Content(e)] \in Chunks /\ Content(entry[Content(e)]) = Content(e)
        BY <1>3, <1>12, <2>2 DEF Inv, Flushed, Known
      <3>2. CASE Content(e) = Content(c)
        <4>1. state'[entry[Content(e)]] = "flushed"
          BY <1>2b, <1>3b, <1>4, <3>2
        <4>2. n + 1 \in DOMAIN out' /\ Content(out'[n + 1].chunk) = Content(e)
          BY <1>12, <1>13, <3>2
        <4>. QED  BY <4>1, <4>2
      <3>3. CASE Content(e) # Content(c)
        <4>1. state'[entry[Content(e)]] = state[entry[Content(e)]]
          BY <1>2b, <1>3b, <1>4, <3>1, <3>3
        <4>2. \A k \in DOMAIN out' : Content(out'[k].chunk) = Content(e) =>
                  k \in 1..n /\ out'[k] = out[k]
          BY <1>12, <1>13, <3>3
        <4>3. \A k \in 1..n : k \in DOMAIN out' /\ out'[k] = out[k]
          <5>1. \A k \in 1..n : k \in 1..n + 1
            BY <1>12
          <5>. QED  BY <1>12, <5>1, Zenon
        <4>. QED  BY <3>1, <4>1, <4>2, <4>3
      <3>. QED  BY <3>2, <3>3
    <2>. QED  BY <1>2, <2>1, <2>2, SameInput, Zenon DEF Flushed, Content
  <1>16. DataBeforeFingerprint'
    <2>. DEFINE First(k) == \A j \in 1..k - 1 : Content(out'[j].chunk) # Content(out'[k].chunk)
    <2>1. ASSUME NEW k \in 1..n PROVE out'[k].data = First(k)
      <3>1. out[k].data = (\A j \in 1..k - 1 : Content(out[j].chunk) # Content(out[k].chunk))
        BY <1>12, Zenon DEF Inv, DataBeforeFingerprint
      <3>2. \A j \in 1..k - 1 : j \in 1..n
        BY <1>12
      <3>. QED  BY <1>12, <3>1, <3>2, Zenon
    <2>2. out'[n + 1].data = First(n + 1)
      <3>1. rec.data = (state[o] # "flushed")
        BY <1>2, <1>3b, <1>4, <1>13
      <3>2. First(n + 1) = (state[o] # "flushed")
        <4>1. \A j : j \in 1..(n + 1) - 1 <=> j \in 1..n
          BY <1>12
        <4>2. Content(out'[n + 1].chunk) = Content(c)
          BY <1>12, <1>13
        <4>3. \A j \in 1..n : out'[j] = out[j]
          BY <1>12
        <4>4. First(n + 1) <=> \A j \in 1..n : Content(out[j].chunk) # Content(c)
          BY <4>1, <4>2, <4>3, Zenon
        <4>5. First(n + 1) \in BOOLEAN
          OBVIOUS
        <4>. HIDE DEF First
        <4>. QED  BY <1>14, <4>4, <4>5
      <3>. HIDE DEF First
      <3>. QED  BY <1>12, <3>1, <3>2
    <2>3. \A k \in 1..n + 1 : k \in 1..n \/ k = n + 1
      BY <1>12
    <2>4. \A k \in DOMAIN out' : out'[k].data = First(k)
      <3>. HIDE DEF First
      <3>. QED  BY <1>12, <2>1, <2>2, <2>3
    <2>5. Resolved(input, out')
      BY <2>4, Zenon DEF Resolved, Content
    <2>6. (DataBeforeFingerprint <=> Resolved(input, out))'
      BY ResolvedIs, PTL
    <2>. QED  BY <1>2, <2>5, <2>6
  <1>. QED  BY <1>8, <1>9, <1>10, <1>11, <1>15, <1>16 DEF Inv

(* Every step keeps the invariant.                                         *)
LEMMA NextInv == Inv /\ [Next]_vars => Inv'
  <1>. SUFFICES ASSUME Inv, [Next]_vars PROVE Inv'
    OBVIOUS
  <1>1. CASE Send
    BY <1>1, SendStep
  <1>2. ASSUME NEW c \in Chunks, Refine(c) \/ Deduplicate(c) \/ Compress(c) \/ Accept(c) \/ Write(c)
        PROVE  Inv'
    BY <1>2, RefineStep, DeduplicateStep, CompressStep, AcceptStep, WriteStep
  <1>3. CASE UNCHANGED vars
    BY <1>3, StutterStep
  <1>. QED  BY <1>1, <1>2, <1>3 DEF Next

(* However the chunks flow, the data of a content are written once, before *)
(* any fingerprint, and the reference counters are right.                  *)
THEOREM FlowSafe == Spec => [](DataBeforeFingerprint /\ OnePlace /\ ReferencesCounted)
  <1>1. Inv => DataBeforeFingerprint /\ OnePlace /\ ReferencesCounted
    BY DEF Inv
  <1>. QED  BY <1>1, InitInv, NextInv, PTL DEF Spec
=============================================================================
