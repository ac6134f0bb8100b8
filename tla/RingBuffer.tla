------------------------------ MODULE RingBuffer ------------------------------
(***************************************************************************)
(* components/ring_buffer: the lock-free byte FIFO between one producer    *)
(* and one consumer, one of which may be an interrupt handler.             *)
(*                                                                         *)
(* A step is one access to memory the other side can see: a read of the    *)
(* other side's index, one byte of a memcpy, the store that publishes an   *)
(* index.  The two sides interleave freely, which includes an interrupt    *)
(* preempting the main loop anywhere, either way round.                    *)
(*                                                                         *)
(* The bytes are numbered in the order the producer offers them: the k-th  *)
(* byte accepted has the value k, so storage says which byte sits where.   *)
(* `sent' and `taken' are history variables: how many bytes have been      *)
(* published, and how many have left the buffer.                           *)
(*                                                                         *)
(* Some definitions are preceded by a faulty variant of theirs that no     *)
(* specification here uses: the slip a property below would catch.         *)
(***************************************************************************)
EXTENDS Naturals, Sequences

CONSTANTS Size,         \* bytes of storage given to ring_buffer_init
          MaxBytes      \* bound on the bytes a behaviour publishes

ASSUME SizeAssumption == Size \in Nat /\ Size >= 2
ASSUME MaxBytesAssumption == MaxBytes \in Nat

VARIABLES head, tail, storage,      \* the ring_buffer_t
          ppc, pLen, pCopied,       \* the producer's call in progress
          cpc, cLen, cCopied, cHead, cBuf,  \* the consumer's call, and its buffer
          sent, taken, delivered    \* history

pvars == <<ppc, pLen, pCopied>>
cvars == <<cpc, cLen, cCopied, cHead, cBuf, delivered>>
ringVars == <<head, tail, storage, pvars, cvars, sent, taken>>

Capacity == Size - 1

Least(a, b) == IF a < b THEN a ELSE b

\* Every caller passes an index below Size and a distance below Size, so the
\* loop of the code subtracts at most once.
Advance(index, by) == IF index + by >= Size THEN index + by - Size ELSE index + by

Count == IF head >= tail THEN head - tail ELSE Size - tail + head

Free == Capacity - Count

-----------------------------------------------------------------------------
RingInit ==
    /\ head = 0 /\ tail = 0
    /\ storage = [i \in 0..Size-1 |-> 0]
    /\ ppc = "idle" /\ pLen = 0 /\ pCopied = 0
    /\ cpc = "idle" /\ cLen = 0 /\ cCopied = 0 /\ cHead = 0
    /\ cBuf = [i \in 1..Size-1 |-> 0]
    /\ sent = 0 /\ taken = 0 /\ delivered = <<>>

(***************************************************************************)
(* The producer: ring_buffer_push and ring_buffer_write.                   *)
(***************************************************************************)
StartCopyIn(n) == /\ sent + n <= MaxBytes
                  /\ ppc' = "copy" /\ pLen' = n /\ pCopied' = 0
                  /\ UNCHANGED <<head, tail, storage, cvars, sent, taken>>

\* push without its test for room.
PushBeginUnguarded == ppc = "idle" /\ StartCopyIn(1)

\* push reads the consumer's tail once; equality means full.
PushBegin == /\ ppc = "idle"
             /\ Advance(head, 1) # tail
             /\ StartCopyIn(1)

\* write with an off-by-one in the room it finds.
WriteBeginOneTooMany(len) == /\ ppc = "idle"
                             /\ StartCopyIn(Least(len, Free + 1))

\* write asks how much fits, then copies that much of what it was given.
WriteBegin(len) == /\ ppc = "idle"
                   /\ Least(len, Free) # 0
                   /\ StartCopyIn(Least(len, Free))

\* One byte of the memcpy, the second run starting again at slot 0.
CopyIn == /\ ppc = "copy" /\ pCopied < pLen
          /\ storage' = [storage EXCEPT ![Advance(head, pCopied)] = sent + pCopied + 1]
          /\ pCopied' = pCopied + 1
          /\ UNCHANGED <<head, tail, ppc, pLen, cvars, sent, taken>>

\* Without the barrier the compiler may publish before the last byte lands.
PublishHeadEarly == /\ ppc = "copy" /\ pCopied + 1 >= pLen
                    /\ head' = Advance(head, pLen)
                    /\ sent' = sent + pLen
                    /\ ppc' = "idle" /\ pLen' = 0 /\ pCopied' = 0
                    /\ UNCHANGED <<tail, storage, cvars, taken>>

\* The barrier, then the store that makes the bytes visible.
PublishHead == /\ ppc = "copy" /\ pCopied = pLen
               /\ head' = Advance(head, pLen)
               /\ sent' = sent + pLen
               /\ ppc' = "idle" /\ pLen' = 0 /\ pCopied' = 0
               /\ UNCHANGED <<tail, storage, cvars, taken>>

(***************************************************************************)
(* The consumer: peek, pop, peek_bytes, discard, read and clear.  cpc      *)
(* names what the call does after its copy: a peek keeps the bytes, a pop  *)
(* publishes the tail, a read goes through ring_buffer_discard, which      *)
(* counts again.                                                           *)
(***************************************************************************)
StartCopyOut(op, n) == /\ cpc' = op /\ cLen' = n /\ cCopied' = 0
                       /\ UNCHANGED <<head, tail, storage, pvars, cHead, cBuf,
                                      delivered, sent, taken>>

PopBegin == cpc = "idle" /\ Count # 0 /\ StartCopyOut("pop", 1)

PeekBegin(len) == /\ cpc = "idle" /\ Least(len, Count) # 0
                  /\ StartCopyOut("peek", Least(len, Count))

ReadBegin(len) == /\ cpc = "idle" /\ Least(len, Count) # 0
                  /\ StartCopyOut("read", Least(len, Count))

\* pop handing the slot back before it has read the byte in it.
CopyOutAfterRelease ==
    /\ cpc \in {"pop", "peek", "read"} /\ cCopied < cLen
    /\ cBuf' = [cBuf EXCEPT ![cCopied + 1] = storage[Advance(tail, cCopied)]]
    /\ cCopied' = cCopied + 1
    /\ tail' = IF cpc = "pop" THEN Advance(tail, 1) ELSE tail
    /\ taken' = IF cpc = "pop" THEN taken + 1 ELSE taken
    /\ UNCHANGED <<head, storage, pvars, cpc, cLen, cHead, delivered, sent>>

CopyOut == /\ cpc \in {"pop", "peek", "read"} /\ cCopied < cLen
           /\ cBuf' = [cBuf EXCEPT ![cCopied + 1] = storage[Advance(tail, cCopied)]]
           /\ cCopied' = cCopied + 1
           /\ UNCHANGED <<head, tail, storage, pvars, cpc, cLen, cHead,
                          delivered, sent, taken>>

\* The copy is complete: the caller's buffer holds what the call returns.
CopyOutDone ==
    /\ cpc \in {"pop", "peek", "read"} /\ cCopied = cLen
    /\ delivered' = [i \in 1..cLen |-> cBuf[i]]
    /\ \/ cpc = "peek" /\ cpc' = "idle" /\ UNCHANGED cLen
       \/ cpc = "pop"  /\ cpc' = "release" /\ UNCHANGED cLen
       \/ cpc = "read" /\ cpc' = "release" /\ cLen' = Least(cLen, Count)
    /\ UNCHANGED <<head, tail, storage, pvars, cCopied, cHead, cBuf, sent, taken>>

\* Discarding what was asked for, without looking at what is there.
DiscardBeginUnbounded(len) ==
    /\ cpc = "idle"
    /\ cpc' = "release" /\ cLen' = len
    /\ UNCHANGED <<head, tail, storage, pvars, cCopied, cHead, cBuf, delivered, sent, taken>>

\* ring_buffer_discard on its own: the caller drops what it has peeked at.
DiscardBegin(len) ==
    /\ cpc = "idle" /\ Least(len, Count) # 0
    /\ cpc' = "release" /\ cLen' = Least(len, Count)
    /\ UNCHANGED <<head, tail, storage, pvars, cCopied, cHead, cBuf, delivered, sent, taken>>

\* The store that gives the slots back to the producer.
PublishTail == /\ cpc = "release"
               /\ tail' = Advance(tail, cLen)
               /\ taken' = taken + cLen
               /\ cpc' = "idle"
               /\ UNCHANGED <<head, storage, pvars, cLen, cCopied, cHead, cBuf,
                              delivered, sent>>

\* clear reads head and stores it into tail: two accesses, so a push may fall
\* between them.
ClearBegin == /\ cpc = "idle"
              /\ cpc' = "clear" /\ cHead' = head /\ cLen' = Count
              /\ UNCHANGED <<head, tail, storage, pvars, cCopied, cBuf,
                             delivered, sent, taken>>

\* A clear that rewinds both indices, as a single-threaded one might.
ClearEndRewind == /\ cpc = "clear"
                  /\ head' = 0 /\ tail' = 0
                  /\ taken' = taken + cLen
                  /\ cpc' = "idle"
                  /\ UNCHANGED <<storage, pvars, cLen, cCopied, cHead, cBuf,
                                 delivered, sent>>

ClearEnd == /\ cpc = "clear"
            /\ tail' = cHead
            /\ taken' = taken + cLen
            /\ cpc' = "idle"
            /\ UNCHANGED <<head, storage, pvars, cLen, cCopied, cHead, cBuf,
                           delivered, sent>>

Producer == \/ PushBegin \/ CopyIn \/ PublishHead
            \/ \E len \in 1..Size : WriteBegin(len)

Consumer == \/ PopBegin \/ CopyOut \/ CopyOutDone \/ PublishTail
            \/ ClearBegin \/ ClearEnd
            \/ \E len \in 1..Size : PeekBegin(len) \/ ReadBegin(len) \/ DiscardBegin(len)

RingNext == Producer \/ Consumer

RingSpec == RingInit /\ [][RingNext]_ringVars

\* A caller that has started a call finishes it, and the main loop keeps
\* reading when there is something to read.
RingFairness ==
    /\ WF_ringVars(CopyIn \/ PublishHead)
    /\ WF_ringVars(CopyOut \/ CopyOutDone \/ PublishTail \/ ClearEnd)
    /\ SF_ringVars(ReadBegin(Capacity))

FairRingSpec == RingSpec /\ RingFairness
-----------------------------------------------------------------------------
(***************************************************************************)
(* Properties.                                                             *)
(***************************************************************************)
\* Indices stay in the storage, copies stay in the caller's buffers.
RingTypeOK ==
    /\ head \in 0..Size-1 /\ tail \in 0..Size-1
    /\ storage \in [0..Size-1 -> Nat]
    /\ ppc \in {"idle", "copy"} /\ pLen \in 0..Size-1 /\ pCopied \in 0..pLen
    /\ cpc \in {"idle", "pop", "peek", "read", "release", "clear"}
    /\ cLen \in 0..Size-1 /\ cCopied \in 0..Size-1 /\ cHead \in 0..Size-1
    /\ cBuf \in [1..Size-1 -> Nat]
    /\ sent \in Nat /\ taken \in Nat

\* The indices alone say how many bytes are held: one slot kept empty is
\* enough to tell a full buffer from an empty one at every instant, with
\* calls of both sides in progress, so a full buffer never turns empty and a
\* refused byte is never counted.
CountIsExact == taken <= sent /\ sent - taken = Count

\* The slots between tail and head hold the accepted bytes in order: the
\* producer never writes a slot the consumer has not given back, even when
\* it computed its room before the consumer moved (ring_buffer_write's copy).
HeldBytesIntact ==
    \A k \in 0..Count-1 : storage[Advance(tail, k)] = taken + k + 1

\* A copy made by the consumer is made of published bytes, in order, even
\* though the producer fills slots while it runs (ring_buffer_peek_bytes).
CopiesAreOldestBytes ==
    cpc \in {"pop", "peek", "read"} =>
        \A k \in 1..cCopied : cBuf[k] = taken + k

\* Every call implements one step of a FIFO of capacity Size - 1.
Fifo == INSTANCE ByteFifo WITH
            Capacity <- Capacity,
            queue <- [k \in 1..Count |-> storage[Advance(tail, k - 1)]],
            accepted <- sent,
            delivered <- delivered
ImplementsFifo == Fifo!Spec

\* What a read returns was all removed by it, and nothing else was: the
\* second count inside ring_buffer_discard, made after the producer may have
\* published more, never differs from the first.
ReadRemovesWhatItReturns ==
    [][cpc = "read" /\ cpc' = "release" => cLen' = Len(delivered')]_ringVars

\* A main loop that keeps reading receives or drops every accepted byte: a
\* byte is never stranded behind indices that look empty.
AcceptedBytesLeave ==
    \A k \in 1..MaxBytes : sent >= k ~> taken >= k
=============================================================================
