---------------------------- MODULE BatchChannel ----------------------------
(***************************************************************************)
(* What the queue between two dedup stages promises: a bounded FIFO that   *)
(* takes and gives batches of at most Limit items in one step, fills up as *)
(* far as a batch fits, hands out as much as there is, and can be seen     *)
(* empty for good only when every producer has terminated.                 *)
(***************************************************************************)
EXTENDS Integers, Sequences

CONSTANTS Item, NProducers, Size, Limit

VARIABLES
    chan,        \* the items in the queue, oldest first
    terminated,  \* producers that have terminated the queue
    ended        \* some consumer was told that nothing will come any more

Init == chan = <<>> /\ terminated = 0 /\ ended = FALSE

Send ==
    /\ terminated < NProducers
    /\ \E k \in 1..Limit : \E batch \in [1..k -> Item] :
           /\ Len(chan) + k =< Size
           /\ chan' = chan \o batch
    /\ UNCHANGED <<terminated, ended>>

Receive ==
    /\ chan # <<>>
    /\ chan' = SubSeq(chan, (IF Len(chan) < Limit THEN Len(chan) ELSE Limit) + 1, Len(chan))
    /\ UNCHANGED <<terminated, ended>>

Terminate ==
    /\ terminated < NProducers
    /\ terminated' = terminated + 1
    /\ UNCHANGED <<chan, ended>>

End ==
    /\ chan = <<>>
    /\ terminated = NProducers
    /\ ended' = TRUE
    /\ UNCHANGED <<chan, terminated>>

Next == Send \/ Receive \/ Terminate \/ End

Spec == Init /\ [][Next]_<<chan, terminated, ended>>
=============================================================================
