-------------------------------- MODULE CanBus --------------------------------
(***************************************************************************)
(* One can_bus_t (components/can/can.c), the can2040 controller it owns,   *)
(* and the queue of records (components/can_frame/can_frame.c) between the *)
(* receive interrupt and the main loop.                                    *)
(*                                                                         *)
(* The interrupt runs on the core that reads the queue: its handler is one *)
(* step, and falls between any two accesses of the main loop to the ring.  *)
(* The ring is the FIFO ByteFifo describes, which RingBuffer implements;   *)
(* its bytes are numbered, and a record is RecordSize of them.             *)
(*                                                                         *)
(* Some definitions are preceded by a faulty variant of theirs that no     *)
(* specification here uses: the slip a property below would catch.         *)
(***************************************************************************)
EXTENDS Integers, Sequences, FiniteSets, SequencesExt

CONSTANTS FilterSets,   \* the configurations of filters: the frames each rejects
          RxBytes,      \* what the caller's receive ring holds, in bytes
          RecordSize,   \* CAN_QUEUE_RECORD_SIZE
          TxSlots       \* can2040's transmit queue

VARIABLES
    can,         \* the can_bus_t: active, its filters and its three counters
    queue,       \* the ring inside rx_queue
    accepted,    \* how many bytes it ever took
    record,      \* the consumer's local copy
    reading,     \* the call of the main loop in progress
    txq,         \* can2040's transmit queue
    canLog       \* history no code reads, since the last init: the frames that
                 \* arrived, were queued, were returned, and how many were cleared

canVars == <<can, queue, accepted, record, reading, txq, canLog>>
rxVars == <<queue, accepted, record>>

Rx == INSTANCE ByteFifo WITH Capacity <- RxBytes, delivered <- record

NotReading == [op |-> "none", bytes |-> 0]
CanAtReset == [active |-> FALSE, rejects |-> {}, dropped |-> 0, filtered |-> 0,
               controller_errors |-> 0]
NoCanLog == [arrived |-> {}, queued |-> <<>>, returned |-> <<>>, cleared |-> 0]
Torn == -1

CanInit == /\ can = CanAtReset
           /\ Rx!Init
           /\ reading = NotReading
           /\ txq = <<>>
           /\ canLog = NoCanLog

-----------------------------------------------------------------------------
(***************************************************************************)
(* The receive interrupt: can2040_callback.                                *)
(***************************************************************************)
\* Writing what fits, as the ring does for a stream.
PushPartial(f) ==
    LET free == RxBytes - Len(queue)
    IN IF free = 0
       THEN /\ can' = [can EXCEPT !.dropped = @ + 1]
            /\ canLog' = [canLog EXCEPT !.arrived = @ \cup {f}]
            /\ UNCHANGED rxVars
       ELSE /\ Rx!Accept(IF free < RecordSize THEN free ELSE RecordSize)
            /\ canLog' = [canLog EXCEPT !.arrived = @ \cup {f}, !.queued = Append(@, f)]
            /\ UNCHANGED can

\* can_queue_push: the whole record, or a counted drop.
Push(f) ==
    IF RxBytes - Len(queue) < RecordSize
    THEN /\ can' = [can EXCEPT !.dropped = @ + 1]
         /\ canLog' = [canLog EXCEPT !.arrived = @ \cup {f}]
         /\ UNCHANGED rxVars
    ELSE /\ Rx!Accept(RecordSize)
         /\ canLog' = [canLog EXCEPT !.arrived = @ \cup {f}, !.queued = Append(@, f)]
         /\ UNCHANGED can

Counted(counter, f) ==
    /\ can' = [can EXCEPT ![counter] = @ + 1]
    /\ canLog' = [canLog EXCEPT !.arrived = @ \cup {f}]
    /\ UNCHANGED rxVars

\* A frame from another node: the filters reject it, or it is queued.  A bus
\* that is not active hears nothing.
Callback(f) ==
    /\ CASE ~can.active -> UNCHANGED <<can, canLog, rxVars>>
         [] can.active /\ f \in can.rejects -> Counted("filtered", f)
         [] OTHER -> Push(f)
    /\ UNCHANGED <<reading, txq>>

\* The interrupt came too late for it: can2040's own queue overflowed.
CallbackError(f) == /\ can.active
                    /\ Counted("controller_errors", f)
                    /\ UNCHANGED <<reading, txq>>

\* The frame at the head of can2040's queue goes out; the callback ignores
\* the notification.
TxCompletes == /\ can.active /\ txq # <<>>
               /\ txq' = Tail(txq)
               /\ UNCHANGED <<can, rxVars, reading, canLog>>

-----------------------------------------------------------------------------
(***************************************************************************)
(* The main loop.                                                          *)
(***************************************************************************)
NotInCall == reading.op = "none"

\* The message a record decodes to: the bytes are those of one frame, or it
\* is corrupt.
Decoded == LET k == (record[1] - 1) \div RecordSize
           IN IF record = [i \in 1..RecordSize |-> k * RecordSize + i]
              THEN canLog.queued[k + 1] ELSE Torn

\* can_bus_receive, can_queue_pop: the copy out of the ring...
PopCopy == /\ can.active /\ NotInCall
           /\ Len(queue) >= RecordSize
           /\ Rx!Deliver(RecordSize)
           /\ reading' = [op |-> "pop", bytes |-> RecordSize]
           /\ UNCHANGED <<can, txq, canLog>>

\* ...and the store of the tail, with which the call returns the frame.
PopRelease == /\ reading.op = "pop"
              /\ Rx!Remove(reading.bytes)
              /\ reading' = NotReading
              /\ canLog' = [canLog EXCEPT !.returned = Append(@, Decoded)]
              /\ UNCHANGED <<can, txq>>

\* can_bus_clear_receive: the head is read...
ClearReceive == /\ can.active /\ NotInCall /\ queue # <<>>
                /\ reading' = [op |-> "clear", bytes |-> Len(queue)]
                /\ UNCHANGED <<can, rxVars, txq, canLog>>

\* ...and stored into the tail: what the interrupt queued meanwhile stays.
ClearRelease ==
    /\ reading.op = "clear"
    /\ Rx!Remove(reading.bytes)
    /\ reading' = NotReading
    /\ canLog' = [canLog EXCEPT !.cleared = @ + reading.bytes \div RecordSize]
    /\ UNCHANGED <<can, txq>>

\* can_bus_send: CAN_OK, or CAN_ERR_TX_FULL and no change.
CanSend(f) == /\ can.active /\ NotInCall
              /\ Len(txq) < TxSlots
              /\ txq' = Append(txq, f)
              /\ UNCHANGED <<can, rxVars, reading, canLog>>

\* can_bus_init: the structure is zeroed and the queue emptied before the
\* interrupt is enabled.
CanStart == /\ ~can.active /\ NotInCall
            /\ \E rejects \in FilterSets :
                 can' = [CanAtReset EXCEPT !.active = TRUE, !.rejects = rejects]
            /\ queue' = <<>> /\ accepted' = 0 /\ record' = <<>>
            /\ txq' = <<>>
            /\ canLog' = NoCanLog
            /\ UNCHANGED reading

\* can_bus_deinit: the interrupt is disabled first; what is queued stays
\* there, out of reach, until the next init.
CanStop == /\ can.active /\ NotInCall
           /\ can' = [can EXCEPT !.active = FALSE]
           /\ txq' = <<>>
           /\ UNCHANGED <<rxVars, reading, canLog>>

ReadStep == PopRelease \/ ClearRelease

-----------------------------------------------------------------------------
(***************************************************************************)
(* Properties.                                                             *)
(***************************************************************************)
CanTypeOK == /\ can \in [active : BOOLEAN, rejects : FilterSets \cup {{}},
                         dropped : Nat, filtered : Nat,
                         controller_errors : Nat]
             /\ Len(queue) <= RxBytes /\ accepted \in Nat
             /\ reading.op \in {"none", "pop", "clear"}
             /\ reading.bytes \in 0..RxBytes
             /\ Len(txq) <= TxSlots

\* What comes out is part of what went in, in the same order.
ReturnedInOrder ==
    \E at \in [DOMAIN canLog.returned -> DOMAIN canLog.queued] :
        \A i, j \in DOMAIN canLog.returned :
            /\ canLog.returned[i] = canLog.queued[at[i]]
            /\ i < j => at[i] < at[j]

\* can_queue_push in the interrupt against can_queue_pop and
\* can_queue_clear: records are never torn, frames come out in the order they
\* went in, each at most once, and each that went in is returned, cleared or
\* waits; and the counters explain every frame that did not go in.
CanFramesAccounted ==
    /\ Torn \notin ToSet(canLog.returned)
    /\ IsInjective(canLog.returned)
    /\ ReturnedInOrder
    /\ Len(queue) % RecordSize = 0
    /\ Len(canLog.queued) =
         Len(canLog.returned) + canLog.cleared + Len(queue) \div RecordSize
    /\ Cardinality(canLog.arrived) =
         Len(canLog.queued) + can.dropped + can.filtered + can.controller_errors
=============================================================================
