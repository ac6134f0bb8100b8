------------------------------- MODULE ByteFifo -------------------------------
(***************************************************************************)
(* What ring_buffer.h promises: a byte FIFO of fixed capacity.  The bytes  *)
(* are numbered in the order they are accepted.  Accepting a run of bytes, *)
(* handing the oldest ones to the caller and removing the oldest ones each *)
(* happen at one instant, whatever the two sides were doing at the time.   *)
(***************************************************************************)
EXTENDS Naturals, Sequences

CONSTANT Capacity

VARIABLES queue,      \* the bytes held, oldest first
          accepted,   \* how many bytes were ever accepted
          delivered   \* what the last completed peek, pop or read returned

Init == queue = <<>> /\ accepted = 0 /\ delivered = <<>>

Accept(n) == /\ n <= Capacity - Len(queue)
             /\ queue' = queue \o [i \in 1..n |-> accepted + i]
             /\ accepted' = accepted + n
             /\ UNCHANGED delivered

Deliver(n) == /\ n <= Len(queue)
              /\ delivered' = SubSeq(queue, 1, n)
              /\ UNCHANGED <<queue, accepted>>

Remove(n) == /\ n <= Len(queue)
             /\ queue' = SubSeq(queue, n + 1, Len(queue))
             /\ UNCHANGED <<accepted, delivered>>

Next == \E n \in 1..Capacity : Accept(n) \/ Deliver(n) \/ Remove(n)

Spec == Init /\ [][Next]_<<queue, accepted, delivered>>
=============================================================================
