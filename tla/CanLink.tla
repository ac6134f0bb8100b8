------------------------------- MODULE CanLink -------------------------------
(***************************************************************************)
(* Two nodes of one CAN bus: an MCP2515 on one, can2040 on the other, each *)
(* with its application's main loop.  The steps in which the nodes meet    *)
(* are the frames on the wire; everything else is a step of one of them.   *)
(*                                                                         *)
(* Frames are numbered in the order they are sent, over both nodes.        *)
(***************************************************************************)
EXTENDS Mcp2515, CanBus

CONSTANT MaxUpsets    \* bound: mode switches, stops, clears and late interrupts

ASSUME FramesAssumption == IsFiniteSet(Frames) /\ Frames = 1..Cardinality(Frames)
ASSUME ModesAssumption == Modes \cup StartModes \subseteq {"normal", "loopback", "listen"}
ASSUME QueueAssumption == /\ RecordSize \in Nat \ {0}
                          /\ RxBytes \in Nat /\ RxBytes >= RecordSize
                          /\ FilterSets # {} /\ FilterSets \subseteq SUBSET Frames
                          /\ TxSlots \in Nat \ {0} /\ TxBuffers \in Nat \ {0}
ASSUME UpsetsAssumption == MaxUpsets \in Nat

VARIABLES nextFrame,    \* the next frame an application sends
          upsets        \* how many upsets there have been

vars == <<mcpVars, canVars, nextFrame, upsets>>

Init == McpInit /\ CanInit /\ nextFrame = 1 /\ upsets = 0

\* The other node, a third one if need be, acknowledges.
McpFrameOnWire(b) == /\ FrameLeaves(b)
                     /\ Callback(chip.txb[b])
                     /\ UNCHANGED <<nextFrame, upsets>>

McpFrameMissed(b) == /\ upsets < MaxUpsets /\ upsets' = upsets + 1
                     /\ FrameLeaves(b)
                     /\ CallbackError(chip.txb[b])
                     /\ UNCHANGED nextFrame

CanFrameOnWire == /\ TxCompletes
                  /\ IF Hears THEN FrameArrives(Head(txq)) ELSE UNCHANGED mcpVars
                  /\ UNCHANGED <<nextFrame, upsets>>

McpSends == /\ nextFrame \in Frames
            /\ Send(nextFrame)
            /\ nextFrame' = nextFrame + 1
            /\ UNCHANGED <<canVars, upsets>>

CanSends == /\ nextFrame \in Frames
            /\ CanSend(nextFrame)
            /\ nextFrame' = nextFrame + 1
            /\ UNCHANGED <<mcpVars, upsets>>

McpAlone == /\ \/ Receive \/ GetStats \/ DriverStep
               \/ ChipChangesMode \/ \E b \in Txb : FrameLoopsBack(b)
               \/ InitialiseFindsNothing \/ \E m \in StartModes : Initialise(m)
            /\ UNCHANGED <<canVars, nextFrame, upsets>>

CanAlone == /\ PopCopy \/ ReadStep \/ CanStart
            /\ UNCHANGED <<mcpVars, nextFrame, upsets>>

McpUpset == /\ upsets < MaxUpsets /\ upsets' = upsets + 1
            /\ Deinitialise \/ ClearStats \/ \E m \in Modes : SetMode(m)
            /\ UNCHANGED <<canVars, nextFrame>>

CanUpset == /\ upsets < MaxUpsets /\ upsets' = upsets + 1
            /\ CanStop \/ ClearReceive
            /\ UNCHANGED <<mcpVars, nextFrame>>

Next == \/ \E b \in Txb : McpFrameOnWire(b) \/ McpFrameMissed(b)
        \/ CanFrameOnWire
        \/ McpSends \/ CanSends \/ McpAlone \/ CanAlone \/ McpUpset \/ CanUpset

Spec == Init /\ [][Next]_vars

\* A call that has begun goes on, and a main loop comes round to its reads:
\* the MCP2515's whenever the INT pin asks for one.
Fairness == /\ WF_vars(DriverStep /\ UNCHANGED <<canVars, nextFrame, upsets>>)
            /\ WF_vars(ReadStep /\ UNCHANGED <<mcpVars, nextFrame, upsets>>)
            /\ SF_vars(InterruptPending /\ Receive
                         /\ UNCHANGED <<canVars, nextFrame, upsets>>)
            /\ SF_vars(PopCopy /\ UNCHANGED <<mcpVars, nextFrame, upsets>>)

FairSpec == Spec /\ Fairness
-----------------------------------------------------------------------------
\* The registers, structures and queues keep their shape.
TypeOK == McpTypeOK /\ CanTypeOK

\* mcp2515_bus_receive under mcp2515_bus_interrupt_pending, and
\* can_bus_receive: the receive buffers and the queue are emptied again and
\* again while their node is up.  A wake-up the INT pin or the indices of the
\* queue fail to give would strand a frame.
FramesAreRead ==
    /\ Waiting # {} ~> (Waiting = {} \/ ~bus.initialised)
    /\ queue # <<>> ~> (queue = <<>> \/ ~can.active)
=============================================================================
