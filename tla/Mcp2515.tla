------------------------------- MODULE Mcp2515 -------------------------------
(***************************************************************************)
(* One mcp2515_bus_t (components/mcp2515/mcp2515.c) and the CAN controller *)
(* it drives over SPI.                                                     *)
(*                                                                         *)
(* The driver runs in the main loop, one call at a time, and a step of it  *)
(* is one SPI transaction: between two of them the controller goes on      *)
(* receiving, transmitting and changing mode.                              *)
(*                                                                         *)
(* A frame is a number.  Which of the chip's buffers takes a frame is      *)
(* modelled, which frames its filters accept is not: every frame here is   *)
(* one they accept.  The only controller error is a receive overflow.      *)
(*                                                                         *)
(* Some definitions are preceded by a faulty variant of theirs that no     *)
(* specification here uses: the slip a property below would catch.         *)
(***************************************************************************)
EXTENDS Integers, FiniteSets

CONSTANTS Frames,     \* the frames there are, numbered from 1
          TxBuffers,  \* three, on the chip
          StartModes, \* the modes an application configures a bus with
          Modes       \* the modes it switches to later

NoFrame == 0
Rxb == 0..1
Txb == 0..TxBuffers-1
OpModes == {"normal", "loopback", "listen", "config"}

VARIABLES
    chip,           \* the controller's buffers, flags and mode registers
    clearsOnRead,   \* does READ RX BUFFER clear RXnIF, as documented?
    bus,            \* the mcp2515_bus_t
    call,           \* the call in progress: its place, and its locals
    mcp             \* history no code reads, since the last init: the frames
                    \* that arrived, were returned, found both buffers full,
                    \* were accepted by send, and went out; how many
                    \* returns and sendings that was

mcpVars == <<chip, clearsOnRead, bus, call, mcp>>

\* After the reset instruction.
ChipAtReset == [rxb |-> [b \in Rxb |-> NoFrame], rxif |-> {},
                txb |-> [b \in Txb |-> NoFrame], txreq |-> {}, txif |-> {},
                errif |-> FALSE, ovr |-> FALSE,
                opmode |-> "config", reqop |-> "config"]

BusAtReset == [initialised |-> FALSE, mode |-> "normal", next_tx_buffer |-> 0,
               received |-> 0, transmitted |-> 0, rx_overflow |-> 0]

Idle == [pc |-> "idle", op |-> "none", txif |-> {}, errif |-> FALSE,
         buffer |-> 0, frame |-> NoFrame, mode |-> "normal"]

NoHistory == [arrived |-> {}, returned |-> {}, returns |-> 0, lost |-> {},
              accepted |-> {}, out |-> {}, sendings |-> 0]

WentOut(h, f) == [h EXCEPT !.out = @ \cup {f}, !.sendings = @ + 1]

McpInit == /\ chip = ChipAtReset
           /\ clearsOnRead \in BOOLEAN
           /\ bus = BusAtReset
           /\ call = Idle
           /\ mcp = NoHistory

At(pc) == call.pc = pc
GoTo(pc) == [call EXCEPT !.pc = pc]

-----------------------------------------------------------------------------
(***************************************************************************)
(* The controller.                                                         *)
(***************************************************************************)
\* The INT pin with RXB1's flag left out of CANINTE.
InterruptPendingOneBuffer == 0 \in chip.rxif \/ chip.txif # {} \/ chip.errif

\* The active-low INT pin: mcp2515_bus_init enables all of these flags.
InterruptPending == chip.rxif # {} \/ chip.txif # {} \/ chip.errif

Hears == chip.opmode \in {"normal", "listen"}

\* RXB0 first; with BUKT set a full RXB0 rolls over into RXB1.
Stored(c, f) ==
    IF c.rxif = Rxb
    THEN [c EXCEPT !.errif = TRUE, !.ovr = TRUE]
    ELSE LET b == IF 0 \in c.rxif THEN 1 ELSE 0
         IN [c EXCEPT !.rxb[b] = f, !.rxif = @ \cup {b}]

Arrival(h, f) ==
    [h EXCEPT !.arrived = @ \cup {f},
              !.lost = IF chip.rxif = Rxb THEN @ \cup {f} ELSE @]

\* A frame from another node.
FrameArrives(f) == /\ Hears
                   /\ chip' = Stored(chip, f)
                   /\ mcp' = Arrival(mcp, f)
                   /\ UNCHANGED <<clearsOnRead, bus, call>>

\* A buffer that is done with is blank: nothing reads it again.
Transmitted(c, b) == [c EXCEPT !.txreq = @ \ {b}, !.txif = @ \cup {b},
                               !.txb[b] = NoFrame]

Released(c, b) == [c EXCEPT !.rxif = @ \ {b}, !.rxb[b] = NoFrame]

\* A frame goes out and is acknowledged.
FrameLeaves(b) == /\ chip.opmode = "normal" /\ b \in chip.txreq
                  /\ chip' = Transmitted(chip, b)
                  /\ mcp' = WentOut(mcp, chip.txb[b])
                  /\ UNCHANGED <<clearsOnRead, bus, call>>

\* In loopback the controller hears itself, and nobody else.
FrameLoopsBack(b) ==
    /\ chip.opmode = "loopback" /\ b \in chip.txreq
    /\ chip' = Stored(Transmitted(chip, b), chip.txb[b])
    /\ mcp' = Arrival(WentOut(mcp, chip.txb[b]), chip.txb[b])
    /\ UNCHANGED <<clearsOnRead, bus, call>>

\* The mode asked for, when the controller gets to it.
ChipChangesMode == /\ chip.opmode # chip.reqop
                   /\ chip' = [chip EXCEPT !.opmode = chip.reqop]
                   /\ UNCHANGED <<clearsOnRead, bus, call, mcp>>

-----------------------------------------------------------------------------
(***************************************************************************)
(* update_stats, from mcp2515_bus_receive or mcp2515_bus_get_stats.        *)
(***************************************************************************)
AfterStats == IF call.op = "receive" THEN GoTo("status") ELSE Idle

StartStats(op) == /\ At("idle") /\ bus.initialised
                  /\ call' = [Idle EXCEPT !.pc = "intf", !.op = op]
                  /\ UNCHANGED <<chip, clearsOnRead, bus, mcp>>

Receive == StartStats("receive")
GetStats == StartStats("stats")

ReadCanintf ==
    /\ At("intf")
    /\ bus' = [bus EXCEPT !.transmitted = @ + Cardinality(chip.txif)]
    /\ call' = LET seen == [call EXCEPT !.txif = chip.txif, !.errif = chip.errif]
               IN IF chip.errif THEN [seen EXCEPT !.pc = "eflg"]
                  ELSE IF chip.txif # {} THEN [seen EXCEPT !.pc = "clear"]
                  ELSE AfterStats
    /\ UNCHANGED <<chip, clearsOnRead, mcp>>

ReadEflg == /\ At("eflg")
            /\ bus' = [bus EXCEPT !.rx_overflow = IF chip.ovr THEN @ + 1 ELSE @]
            /\ call' = GoTo("clear_eflg")
            /\ UNCHANGED <<chip, clearsOnRead, mcp>>

ClearEflg == /\ At("clear_eflg")
             /\ chip' = [chip EXCEPT !.ovr = FALSE]
             /\ call' = GoTo("clear")
             /\ UNCHANGED <<clearsOnRead, bus, mcp>>

ClearCanintf ==
    /\ At("clear")
    /\ chip' = [chip EXCEPT !.txif = @ \ call.txif,
                            !.errif = IF call.errif THEN FALSE ELSE @]
    /\ call' = [AfterStats EXCEPT !.txif = {}, !.errif = FALSE]
    /\ UNCHANGED <<clearsOnRead, bus, mcp>>

(***************************************************************************)
(* The rest of mcp2515_bus_receive.                                        *)
(***************************************************************************)
ReadStatus == /\ At("status")
              /\ call' = IF chip.rxif = {} THEN Idle
                         ELSE [call EXCEPT !.pc = "read",
                                           !.buffer = IF 0 \in chip.rxif THEN 0 ELSE 1]
              /\ UNCHANGED <<chip, clearsOnRead, bus, mcp>>

\* Header and data in one transaction; its end clears the flag on a
\* controller that does as documented.
ReadRxBuffer ==
    /\ At("read")
    /\ call' = [call EXCEPT !.pc = "clear_rx", !.frame = chip.rxb[call.buffer]]
    /\ chip' = IF clearsOnRead THEN Released(chip, call.buffer) ELSE chip
    /\ UNCHANGED <<clearsOnRead, bus, mcp>>

Return == /\ bus' = [bus EXCEPT !.received = @ + 1]
          /\ mcp' = [mcp EXCEPT !.returned = @ \cup {call.frame}, !.returns = @ + 1]
          /\ call' = Idle

\* Trusting every controller to have cleared the flag.
ClearRxFlagTrusting == /\ At("clear_rx")
                       /\ Return
                       /\ UNCHANGED <<chip, clearsOnRead>>

\* "bit-modify it again anyway"
ClearRxFlag == /\ At("clear_rx")
               /\ chip' = Released(chip, call.buffer)
               /\ Return
               /\ UNCHANGED clearsOnRead

(***************************************************************************)
(* mcp2515_bus_send.  Refusals (monitor mode, all three busy) leave        *)
(* everything as it was.                                                   *)
(***************************************************************************)
NthTxb(i) == (bus.next_tx_buffer + i) % TxBuffers

\* Taking the next buffer without asking whether it is busy.
ChosenTxbBlindly == NthTxb(0)

\* The first free buffer from next_tx_buffer on.
ChosenTxb == LET free == {i \in Txb : NthTxb(i) \notin chip.txreq}
             IN NthTxb(CHOOSE i \in free : \A j \in free : i <= j)

Send(f) == /\ At("idle") /\ bus.initialised /\ bus.mode # "listen"
           /\ chip.txreq # Txb
           /\ call' = [Idle EXCEPT !.pc = "load", !.op = "send",
                                   !.buffer = ChosenTxb, !.frame = f]
           /\ UNCHANGED <<chip, clearsOnRead, bus, mcp>>

LoadTxBuffer == /\ At("load")
                /\ chip' = [chip EXCEPT !.txb[call.buffer] = call.frame]
                /\ call' = GoTo("rts")
                /\ UNCHANGED <<clearsOnRead, bus, mcp>>

\* next_tx_buffer left past the last buffer.
RequestToSendUnwrapped ==
    /\ At("rts")
    /\ chip' = [chip EXCEPT !.txreq = @ \cup {call.buffer}]
    /\ bus' = [bus EXCEPT !.next_tx_buffer = call.buffer + 1]
    /\ mcp' = [mcp EXCEPT !.accepted = @ \cup {call.frame}]
    /\ call' = Idle
    /\ UNCHANGED clearsOnRead

RequestToSend ==
    /\ At("rts")
    /\ chip' = [chip EXCEPT !.txreq = @ \cup {call.buffer}]
    /\ bus' = [bus EXCEPT !.next_tx_buffer = (call.buffer + 1) % TxBuffers]
    /\ mcp' = [mcp EXCEPT !.accepted = @ \cup {call.frame}]
    /\ call' = Idle
    /\ UNCHANGED clearsOnRead

(***************************************************************************)
(* mcp2515_bus_set_mode, _init and _deinit end in switch_mode: ask, then   *)
(* poll the controller for up to a millisecond.                            *)
(***************************************************************************)
Polling(op, m) == [Idle EXCEPT !.pc = "poll", !.op = op, !.mode = m]

SetMode(m) == /\ At("idle") /\ bus.initialised
              /\ chip' = [chip EXCEPT !.reqop = m]
              /\ call' = Polling("set_mode", m)
              /\ UNCHANGED <<clearsOnRead, bus, mcp>>

\* The controller is in configuration mode from the reset to the switch, so
\* everything before the switch is one step.
Initialise(m) == /\ At("idle") /\ ~bus.initialised
                 /\ bus' = BusAtReset
                 /\ chip' = [ChipAtReset EXCEPT !.reqop = m]
                 /\ call' = Polling("init", m)
                 /\ mcp' = NoHistory
                 /\ UNCHANGED clearsOnRead

\* CANSTAT reads back something else than configuration mode.
InitialiseFindsNothing == /\ At("idle") /\ ~bus.initialised
                          /\ bus' = BusAtReset
                          /\ UNCHANGED <<chip, clearsOnRead, call, mcp>>

Deinitialise == /\ At("idle") /\ bus.initialised
                /\ chip' = [chip EXCEPT !.reqop = "config"]
                /\ call' = Polling("deinit", "config")
                /\ UNCHANGED <<clearsOnRead, bus, mcp>>

ModeResult(ok) ==
    CASE call.op = "deinit" -> [bus EXCEPT !.initialised = FALSE]
      [] ok /\ call.op = "init" -> [bus EXCEPT !.initialised = TRUE, !.mode = call.mode]
      [] ok /\ call.op = "set_mode" -> [bus EXCEPT !.mode = call.mode]
      [] OTHER -> bus

\* The poll that sees the mode, or the last of the fifty that do not.
PollMode == /\ At("poll")
            /\ bus' = ModeResult(chip.opmode = call.mode)
            /\ call' = Idle
            /\ UNCHANGED <<chip, clearsOnRead, mcp>>

\* mcp2515_bus_clear_stats touches no register.
ClearStats == /\ At("idle")
              /\ bus' = [bus EXCEPT !.received = 0, !.transmitted = 0, !.rx_overflow = 0]
              /\ UNCHANGED <<chip, clearsOnRead, call, mcp>>

\* The steps of a call after its first.
DriverStep == \/ ReadCanintf \/ ReadEflg \/ ClearEflg \/ ClearCanintf
              \/ ReadStatus \/ ReadRxBuffer \/ ClearRxFlag
              \/ LoadTxBuffer \/ RequestToSend \/ PollMode
-----------------------------------------------------------------------------
(***************************************************************************)
(* Properties.                                                             *)
(***************************************************************************)
McpTypeOK ==
    /\ chip \in [rxb : [Rxb -> Frames \cup {NoFrame}], rxif : SUBSET Rxb,
                 txb : [Txb -> Frames \cup {NoFrame}], txreq : SUBSET Txb,
                 txif : SUBSET Txb, errif : BOOLEAN, ovr : BOOLEAN,
                 opmode : OpModes, reqop : OpModes]
    /\ clearsOnRead \in BOOLEAN
    /\ bus \in [initialised : BOOLEAN, mode : Modes \cup StartModes \cup {"normal"},
                next_tx_buffer : Txb, received : Nat, transmitted : Nat,
                rx_overflow : Nat]
    /\ call.pc \in {"idle", "intf", "eflg", "clear_eflg", "clear", "status",
                    "read", "clear_rx", "load", "rts", "poll"}
    /\ call.buffer \in Rxb \cup Txb /\ call.frame \in Frames \cup {NoFrame}

Waiting == {chip.rxb[b] : b \in chip.rxif}
Pending == {chip.txb[b] : b \in chip.txreq}

InHand == IF At("clear_rx") THEN {call.frame} ELSE {}

Unexplained ==
    mcp.arrived \ (mcp.returned \cup mcp.lost \cup Waiting \cup InHand)

\* mcp2515_bus_receive against the controller's own receptions: no frame is
\* returned twice, none is returned that was refused for want of a buffer,
\* and none is in two places.  On a controller whose fast read leaves the
\* flag alone every frame is accounted for; on one that clears it, a call
\* that returns a frame forgets at most one other (mcp2515.c:429).
McpFramesAccounted ==
    /\ Cardinality(mcp.returned) = mcp.returns
    /\ mcp.returned \cap (mcp.lost \cup Waiting \cup InHand) = {}
    /\ mcp.lost \cap (Waiting \cup InHand) = {}
    /\ mcp.returned \cup mcp.lost \cup Waiting \cup InHand \subseteq mcp.arrived
    /\ IF clearsOnRead THEN Cardinality(Unexplained) <= mcp.returns
       ELSE Unexplained = {}

\* "a second clear of an already-clear bit costs one SPI transaction": every
\* frame that found a free buffer is returned or still waits.
SecondClearCostsNothing == Unexplained = {}

\* mcp2515_bus_send: a frame it accepted waits in a transmit buffer or has
\* gone out, once; loading a buffer never overwrites a frame still in it.
SendsGoOutOnce ==
    /\ Cardinality(mcp.out) = mcp.sendings
    /\ Pending \cap mcp.out = {}
    /\ mcp.accepted = Pending \cup mcp.out
    /\ Cardinality(Pending) = Cardinality(chip.txreq)

\* mcp2515_bus_stats_t, although a flag is counted in one transaction and
\* cleared in another while the controller raises more: no transmission and
\* no overflow is counted twice.
StatsNeverOvercount ==
    /\ bus.transmitted <= mcp.sendings
    /\ bus.rx_overflow <= Cardinality(mcp.lost)

\* Both accounts of the driver against what the controller did: its frames and
\* its counters (mcp2515.c:248, 429).
McpAccountsHold == McpFramesAccounted /\ StatsNeverOvercount
=============================================================================
