---------------------------- MODULE CanLinkProofs ----------------------------
(***************************************************************************)
(* Theorems about CanLink: neither driver loses, doubles or mixes up a     *)
(* frame on its way, whatever the two controllers do between two accesses. *)
(*                                                                         *)
(* The invariant has a part for each node, which speaks of that node's     *)
(* variables only, and a part for the bus: a frame that is still to go out *)
(* on one node has not been seen by the other.                             *)
(*                                                                         *)
(* Theorems about RingBuffer, which a CAN bus keeps its records in, are at *)
(* the end.                                                                *)
(***************************************************************************)
EXTENDS CanLink, RingBuffer, FiniteSetTheorems, SequenceTheorems, TLAPS

-----------------------------------------------------------------------------
(***************************************************************************)
(* The MCP2515 and its driver.                                             *)
(***************************************************************************)
Chips == [rxb : [Rxb -> Frames \cup {NoFrame}], rxif : SUBSET Rxb,
          txb : [Txb -> Frames \cup {NoFrame}], txreq : SUBSET Txb,
          txif : SUBSET Txb, errif : BOOLEAN, ovr : BOOLEAN,
          opmode : OpModes, reqop : OpModes]

Buses == [initialised : BOOLEAN, mode : Modes \cup StartModes \cup {"normal"},
          next_tx_buffer : Txb, received : Nat, transmitted : Nat,
          rx_overflow : Nat]

Places == {"idle", "intf", "eflg", "clear_eflg", "clear", "status",
           "read", "clear_rx", "load", "rts", "poll"}

Calls == [pc : Places, op : {"none", "receive", "stats", "send", "set_mode", "init", "deinit"},
          txif : SUBSET Txb, errif : BOOLEAN, buffer : Rxb \cup Txb,
          frame : Frames \cup {NoFrame}, mode : OpModes]

Histories == [arrived : SUBSET Frames, returned : SUBSET Frames, returns : Nat,
              lost : SUBSET Frames, accepted : SUBSET Frames,
              out : SUBSET Frames, sendings : Nat]

McpTypes == /\ chip \in Chips /\ clearsOnRead \in BOOLEAN /\ bus \in Buses
            /\ call \in Calls /\ mcp \in Histories

\* What the call in progress has established.  A step of the controller adds
\* flags and takes requests away, and never the other way round.
ReadKnows == At("read") => call.buffer \in chip.rxif

ClearKnows == At("clear_rx") => /\ call.buffer \in Rxb
                                /\ IF clearsOnRead THEN call.frame \notin Waiting
                                   ELSE /\ call.buffer \in chip.rxif
                                        /\ chip.rxb[call.buffer] = call.frame

SendKnows == /\ At("load") \/ At("rts") => /\ call.buffer \in Txb \ chip.txreq
                                           /\ call.frame \in Frames
             /\ At("rts") => chip.txb[call.buffer] = call.frame

PollKnows == At("poll") => \/ call.op = "init" /\ call.mode \in StartModes
                           \/ call.op = "set_mode" /\ call.mode \in Modes
                           \/ call.op = "deinit"

FlagsKnown == call.txif # {} => call.pc \in {"eflg", "clear_eflg", "clear"}

\* No two buffers that are in use hold the same frame.
ReceivesApart == /\ \A b \in chip.rxif : chip.rxb[b] \in Frames
                 /\ \A b, c \in chip.rxif : chip.rxb[b] = chip.rxb[c] => b = c

SendsApart == /\ \A b \in chip.txreq : chip.txb[b] \in Frames
              /\ \A b, c \in chip.txreq : chip.txb[b] = chip.txb[c] => b = c

\* The frame of a send in progress.
Hand == IF At("load") \/ At("rts") THEN {call.frame} ELSE {}

\* A frame that has still to go out has not come in.
NotYetHeard == /\ (Pending \cup Hand) \cap mcp.arrived = {}
               /\ Hand \cap mcp.accepted = {}

\* A transmission whose flag has not been counted yet, and an overflow whose
\* bit has not, are still to be added.
CountsAddUp ==
    /\ bus.transmitted + Cardinality(chip.txif \ call.txif) <= mcp.sendings
    /\ bus.rx_overflow + (IF chip.ovr /\ ~At("clear_eflg") THEN 1 ELSE 0)
           <= Cardinality(mcp.lost)

McpInv == /\ McpTypes
          /\ ReadKnows /\ ClearKnows /\ SendKnows /\ PollKnows /\ FlagsKnown
          /\ ReceivesApart /\ SendsApart /\ NotYetHeard
          /\ McpFramesAccounted /\ SendsGoOutOnce /\ CountsAddUp

LEMMA BuffersAre == /\ 0 \in Txb /\ Txb \subseteq Nat /\ IsFiniteSet(Txb)
                    /\ IsFiniteSet(Rxb) /\ NoFrame \notin Frames /\ IsFiniteSet(Frames)
                    /\ Modes \subseteq OpModes /\ StartModes \subseteq OpModes
<1>1. IsFiniteSet(Txb) /\ IsFiniteSet(Rxb)
  <2>1. TxBuffers - 1 \in Int
    BY QueueAssumption
  <2>2. \A m, n \in Int : IsFiniteSet(m..n)
    BY FS_Interval
  <2>3. 0 \in Int /\ 1 \in Int
    OBVIOUS
  <2>4. IsFiniteSet(0..TxBuffers-1) /\ IsFiniteSet(0..1)
    BY <2>1, <2>2, <2>3, Zenon
  <2> QED BY <2>4, Zenon DEF Txb, Rxb
<1>2. 0 \in Txb /\ Txb \subseteq Nat
  BY QueueAssumption DEF Txb
<1>3. NoFrame \notin Frames /\ IsFiniteSet(Frames)
  BY FramesAssumption, FS_CardinalityType DEF NoFrame
<1> QED BY <1>1, <1>2, <1>3, ModesAssumption DEF OpModes

\* Whatever is counted here is a set of frames or of buffers.
LEMMA Counting ==
    ASSUME NEW S, S \subseteq Frames \/ S \subseteq Txb, NEW x
    PROVE  /\ IsFiniteSet(S) /\ Cardinality(S) \in Nat
           /\ Cardinality(S \cup {x}) = IF x \in S THEN Cardinality(S) ELSE Cardinality(S) + 1
           /\ \A T \in SUBSET S : Cardinality(T) \in Nat /\ Cardinality(T) <= Cardinality(S)
<1>1. IsFiniteSet(S)
  BY BuffersAre, FS_Subset
<1> QED BY <1>1, FS_CardinalityType, FS_AddElement, FS_Subset

LEMMA AtMostOneMore ==
    ASSUME NEW S, IsFiniteSet(S), NEW x, NEW T, T \subseteq S \cup {x}
    PROVE  Cardinality(T) <= Cardinality(S) + 1
<1>1. IsFiniteSet(S \cup {x}) /\ T \in SUBSET (S \cup {x})
  BY FS_AddElement
<1>2. Cardinality(S) \in Nat /\ Cardinality(S \cup {x}) <= Cardinality(S) + 1
  BY FS_AddElement, FS_CardinalityType
<1>3. /\ Cardinality(T) \in Nat /\ Cardinality(T) <= Cardinality(S \cup {x})
      /\ Cardinality(S \cup {x}) \in Nat
  BY <1>1, FS_Subset, FS_CardinalityType
<1> QED BY <1>2, <1>3

-----------------------------------------------------------------------------
(* The operators on the chip, field by field. *)
LEMMA StoredFull ==
    ASSUME NEW c \in Chips, NEW f \in Frames, c.rxif = Rxb
    PROVE  /\ Stored(c, f) \in Chips
           /\ Stored(c, f).rxb = c.rxb /\ Stored(c, f).rxif = c.rxif
           /\ Stored(c, f).txb = c.txb /\ Stored(c, f).txreq = c.txreq
           /\ Stored(c, f).txif = c.txif /\ Stored(c, f).ovr = TRUE
           /\ Stored(c, f).opmode = c.opmode /\ Stored(c, f).reqop = c.reqop
BY DEF Stored, Chips

LEMMA StoredFree ==
    ASSUME NEW c \in Chips, NEW f \in Frames, c.rxif # Rxb
    PROVE  /\ Stored(c, f) \in Chips
           /\ \E b \in Rxb \ c.rxif :
                 /\ Stored(c, f).rxif = c.rxif \cup {b}
                 /\ Stored(c, f).rxb = [c.rxb EXCEPT ![b] = f]
           /\ Stored(c, f).txb = c.txb /\ Stored(c, f).txreq = c.txreq
           /\ Stored(c, f).txif = c.txif /\ Stored(c, f).ovr = c.ovr
           /\ Stored(c, f).opmode = c.opmode /\ Stored(c, f).reqop = c.reqop
<1> DEFINE b == IF 0 \in c.rxif THEN 1 ELSE 0
<1>1. b \in Rxb \ c.rxif
  BY DEF Chips, Rxb
<1>2. Stored(c, f) = [c EXCEPT !.rxb[b] = f, !.rxif = @ \cup {b}]
  BY DEF Stored
<1> DEFINE held == [c.rxb EXCEPT ![b] = f]
           flags == c.rxif \cup {b}
<1>3. held \in [Rxb -> Frames \cup {NoFrame}] /\ flags \in SUBSET Rxb
  BY <1>1 DEF Chips
<1>4. Stored(c, f) = [c EXCEPT !.rxb = held, !.rxif = flags]
  BY <1>2 DEF Chips
<1>5. \E x \in Rxb \ c.rxif : flags = c.rxif \cup {x} /\ held = [c.rxb EXCEPT ![x] = f]
  BY <1>1
<1> HIDE DEF b, held, flags
<1>6. /\ Stored(c, f) \in Chips
      /\ Stored(c, f).rxif = flags /\ Stored(c, f).rxb = held
      /\ Stored(c, f).txb = c.txb /\ Stored(c, f).txreq = c.txreq
      /\ Stored(c, f).txif = c.txif /\ Stored(c, f).ovr = c.ovr
      /\ Stored(c, f).opmode = c.opmode /\ Stored(c, f).reqop = c.reqop
  BY <1>3, <1>4 DEF Chips
<1> QED BY <1>5, <1>6

LEMMA TransmittedFields ==
    ASSUME NEW c \in Chips, NEW b \in Txb
    PROVE  /\ Transmitted(c, b) \in Chips
           /\ Transmitted(c, b).rxb = c.rxb /\ Transmitted(c, b).rxif = c.rxif
           /\ Transmitted(c, b).txb = [c.txb EXCEPT ![b] = NoFrame]
           /\ Transmitted(c, b).txreq = c.txreq \ {b}
           /\ Transmitted(c, b).txif = c.txif \cup {b} /\ Transmitted(c, b).ovr = c.ovr
           /\ Transmitted(c, b).opmode = c.opmode /\ Transmitted(c, b).reqop = c.reqop
BY DEF Transmitted, Chips

LEMMA ReleasedFields ==
    ASSUME NEW c \in Chips, NEW b \in Rxb
    PROVE  /\ Released(c, b) \in Chips
           /\ Released(c, b).rxb = [c.rxb EXCEPT ![b] = NoFrame]
           /\ Released(c, b).rxif = c.rxif \ {b}
           /\ Released(c, b).txb = c.txb /\ Released(c, b).txreq = c.txreq
           /\ Released(c, b).txif = c.txif /\ Released(c, b).ovr = c.ovr
           /\ Released(c, b).opmode = c.opmode /\ Released(c, b).reqop = c.reqop
BY DEF Released, Chips

LEMMA WentOutFields ==
    ASSUME NEW h \in Histories, NEW f \in Frames
    PROVE  /\ WentOut(h, f) \in Histories
           /\ WentOut(h, f).out = h.out \cup {f} /\ WentOut(h, f).sendings = h.sendings + 1
           /\ WentOut(h, f).arrived = h.arrived /\ WentOut(h, f).returned = h.returned
           /\ WentOut(h, f).returns = h.returns /\ WentOut(h, f).lost = h.lost
           /\ WentOut(h, f).accepted = h.accepted
<1> DEFINE set == h.out \cup {f}
           number == h.sendings + 1
<1>1. set \in SUBSET Frames /\ number \in Nat
  BY DEF Histories
<1>2. WentOut(h, f) = [h EXCEPT !.out = set, !.sendings = number]
  BY DEF WentOut, Histories
<1> HIDE DEF set, number
<1>3. /\ WentOut(h, f) \in Histories
      /\ WentOut(h, f).out = set /\ WentOut(h, f).sendings = number
      /\ WentOut(h, f).arrived = h.arrived /\ WentOut(h, f).returned = h.returned
      /\ WentOut(h, f).returns = h.returns /\ WentOut(h, f).lost = h.lost
      /\ WentOut(h, f).accepted = h.accepted
  BY <1>1, <1>2 DEF Histories
<1> QED BY <1>3 DEF set, number

LEMMA ArrivalFields ==
    ASSUME NEW h \in Histories, NEW f \in Frames
    PROVE  /\ Arrival(h, f) \in Histories
           /\ Arrival(h, f).out = h.out /\ Arrival(h, f).sendings = h.sendings
           /\ Arrival(h, f).arrived = h.arrived \cup {f} /\ Arrival(h, f).returned = h.returned
           /\ Arrival(h, f).returns = h.returns
           /\ Arrival(h, f).lost = IF chip.rxif = Rxb THEN h.lost \cup {f} ELSE h.lost
           /\ Arrival(h, f).accepted = h.accepted
BY DEF Arrival, Histories
-----------------------------------------------------------------------------
(* What a step leaves alone. *)
LEMMA SendsKept ==
    ASSUME SendsApart, SendsGoOutOnce,
           chip'.txb = chip.txb, chip'.txreq = chip.txreq,
           mcp'.accepted = mcp.accepted, mcp'.out = mcp.out, mcp'.sendings = mcp.sendings
    PROVE  SendsApart' /\ SendsGoOutOnce' /\ Pending' = Pending
<1>1. Pending' = Pending
  BY DEF Pending
<1> QED BY <1>1 DEF SendsApart, SendsGoOutOnce

LEMMA ReceivesKept ==
    ASSUME ReceivesApart, McpFramesAccounted, InHand' = InHand,
           chip'.rxb = chip.rxb, chip'.rxif = chip.rxif, clearsOnRead' = clearsOnRead,
           mcp'.arrived = mcp.arrived, mcp'.returned = mcp.returned,
           mcp'.returns = mcp.returns, mcp'.lost = mcp.lost
    PROVE  ReceivesApart' /\ McpFramesAccounted' /\ Waiting' = Waiting
<1>1. Waiting' = Waiting
  BY DEF Waiting
<1>2. Unexplained' = Unexplained
  BY <1>1 DEF Unexplained
<1> QED BY <1>1, <1>2 DEF ReceivesApart, McpFramesAccounted

LEMMA HeardKept ==
    ASSUME NotYetHeard, Pending' \subseteq Pending, Hand' \subseteq Hand,
           mcp'.arrived = mcp.arrived, mcp'.accepted = mcp.accepted
    PROVE  NotYetHeard'
BY DEF NotYetHeard

LEMMA CountsKept ==
    ASSUME CountsAddUp, chip'.txif = chip.txif, chip'.ovr = chip.ovr,
           bus'.transmitted = bus.transmitted, bus'.rx_overflow = bus.rx_overflow,
           call'.txif = call.txif, At("clear_eflg")' = At("clear_eflg"),
           mcp'.sendings = mcp.sendings, mcp'.lost = mcp.lost
    PROVE  CountsAddUp'
BY DEF CountsAddUp

LEMMA PlaceKept ==
    ASSUME call' = call
    PROVE  /\ Hand' = Hand /\ InHand' = InHand
           /\ \A p \in Places : At(p)' = At(p)
           /\ PollKnows' = PollKnows /\ FlagsKnown' = FlagsKnown
BY DEF Hand, InHand, At, PollKnows, FlagsKnown
-----------------------------------------------------------------------------
(* The controller. *)

\* A frame comes in: into a free buffer, or it is lost.
LEMMA StoredIsHeld ==
    ASSUME McpInv, NEW f \in Frames, f \notin mcp.arrived,
           chip' \in Chips, mcp' \in Histories, call' = call, clearsOnRead' = clearsOnRead,
           \/ /\ chip.rxif = Rxb /\ chip'.rxif = chip.rxif /\ chip'.rxb = chip.rxb
              /\ mcp'.lost = mcp.lost \cup {f}
           \/ /\ mcp'.lost = mcp.lost
              /\ \E b \in Rxb \ chip.rxif : /\ chip'.rxif = chip.rxif \cup {b}
                                            /\ chip'.rxb = [chip.rxb EXCEPT ![b] = f],
           mcp'.arrived = mcp.arrived \cup {f}, mcp'.returned = mcp.returned,
           mcp'.returns = mcp.returns
    PROVE  ReadKnows' /\ ClearKnows' /\ ReceivesApart' /\ McpFramesAccounted'
<1>1. /\ chip \in Chips /\ call \in Calls
      /\ ReadKnows /\ ClearKnows /\ ReceivesApart /\ McpFramesAccounted
  BY DEF McpInv, McpTypes
<1>2. f \notin mcp.returned \cup mcp.lost \cup Waiting \cup InHand
  BY <1>1 DEF McpFramesAccounted
<1>3. InHand' = InHand /\ \A p \in Places : At(p)' = At(p)
  BY PlaceKept
<1>4. CASE /\ chip.rxif = Rxb /\ chip'.rxif = chip.rxif /\ chip'.rxb = chip.rxb
           /\ mcp'.lost = mcp.lost \cup {f}
  <2>1. Waiting' = Waiting
    BY <1>4 DEF Waiting
  <2>2. Unexplained' = Unexplained
    BY <2>1, <1>2, <1>3, <1>4 DEF Unexplained
  <2>3. McpFramesAccounted'
    BY <2>1, <2>2, <1>1, <1>2, <1>3, <1>4 DEF McpFramesAccounted
  <2>4. ReadKnows' /\ ClearKnows' /\ ReceivesApart'
    BY <2>1, <1>1, <1>4 DEF ReadKnows, ClearKnows, ReceivesApart, At
  <2> QED BY <2>3, <2>4
<1>5. CASE /\ mcp'.lost = mcp.lost
           /\ \E b \in Rxb \ chip.rxif : /\ chip'.rxif = chip.rxif \cup {b}
                                         /\ chip'.rxb = [chip.rxb EXCEPT ![b] = f]
  <2> PICK b \in Rxb \ chip.rxif : /\ chip'.rxif = chip.rxif \cup {b}
                                  /\ chip'.rxb = [chip.rxb EXCEPT ![b] = f]
    BY <1>5
  <2>1. chip'.rxb[b] = f /\ \A c \in chip.rxif : c # b /\ chip'.rxb[c] = chip.rxb[c]
    BY <1>1 DEF Chips
  <2>2. Waiting' = Waiting \cup {f}
    BY <2>1 DEF Waiting
  <2>3. Unexplained' = Unexplained
    BY <2>2, <1>2, <1>3, <1>5 DEF Unexplained
  <2>4. McpFramesAccounted'
    BY <2>2, <2>3, <1>1, <1>2, <1>3, <1>5 DEF McpFramesAccounted
  <2>5. \A c \in chip.rxif : chip.rxb[c] # f
    BY <1>2 DEF Waiting
  <2>6. ReceivesApart'
    BY <2>1, <2>5, <1>1 DEF ReceivesApart
  <2>7. ReadKnows'
    BY <1>1 DEF ReadKnows, At
  <2>8. ClearKnows'
    <3>1. At("clear_rx") => call.frame # f
      BY <1>2 DEF InHand
    <3> QED BY <3>1, <2>1, <2>2, <1>1 DEF ClearKnows, At
  <2> QED BY <2>4, <2>6, <2>7, <2>8
<1> QED BY <1>4, <1>5
\* A frame goes out: its request is cleared and its flag is raised.
LEMMA TransmittedIsOut ==
    ASSUME McpInv, NEW b \in chip.txreq,
           chip' \in Chips, mcp' \in Histories, call' = call,
           chip'.txreq = chip.txreq \ {b}, chip'.txif = chip.txif \cup {b},
           chip'.txb = [chip.txb EXCEPT ![b] = NoFrame],
           mcp'.out = mcp.out \cup {chip.txb[b]}, mcp'.sendings = mcp.sendings + 1,
           mcp'.accepted = mcp.accepted
    PROVE  /\ SendsApart' /\ SendsGoOutOnce' /\ SendKnows'
           /\ Pending' = Pending \ {chip.txb[b]}
           /\ Cardinality(chip'.txif \ call'.txif) <= Cardinality(chip.txif \ call.txif) + 1
<1>1. /\ chip \in Chips /\ call \in Calls /\ mcp \in Histories
      /\ SendsApart /\ SendsGoOutOnce /\ SendKnows
  BY DEF McpInv, McpTypes
<1>2. b \in Txb /\ chip.txb[b] \in Frames /\ chip.txb[b] \notin mcp.out
  BY <1>1 DEF Chips, SendsApart, SendsGoOutOnce, Pending
<1>3. \A c \in chip.txreq \ {b} : chip'.txb[c] = chip.txb[c] /\ chip.txb[c] # chip.txb[b]
  BY <1>1 DEF Chips, SendsApart
<1>4. SendsApart'
  BY <1>1, <1>3 DEF SendsApart
<1>5. Pending' = Pending \ {chip.txb[b]} /\ chip.txb[b] \in Pending
  BY <1>3 DEF Pending
<1>6. SendsGoOutOnce'
  <2>1. Cardinality(mcp'.out) = mcp'.sendings
    <3>1. mcp.out \subseteq Frames
      BY <1>1 DEF Histories
    <3>2. Cardinality(mcp.out \cup {chip.txb[b]}) = Cardinality(mcp.out) + 1
      BY <3>1, <1>2, Counting
    <3> QED BY <3>2, <1>1 DEF SendsGoOutOnce
  <2>2. Cardinality(Pending') = Cardinality(chip'.txreq)
    <3>1. Pending \subseteq Frames /\ chip.txreq \subseteq Txb
      BY <1>1 DEF Pending, SendsApart, Chips
    <3>2. IsFiniteSet(Pending) /\ IsFiniteSet(chip.txreq)
      BY <3>1, Counting
    <3>3. /\ Cardinality(Pending \ {chip.txb[b]}) = Cardinality(Pending) - 1
          /\ Cardinality(chip.txreq \ {b}) = Cardinality(chip.txreq) - 1
      BY <3>2, <1>5, FS_RemoveElement
    <3> QED BY <3>3, <1>1, <1>5 DEF SendsGoOutOnce
  <2>3. Pending' \cap mcp'.out = {} /\ mcp'.accepted = Pending' \cup mcp'.out
    BY <1>1, <1>5 DEF SendsGoOutOnce
  <2> QED BY <2>1, <2>2, <2>3 DEF SendsGoOutOnce
<1>7. SendKnows'
  <2>1. At("load") \/ At("rts") => call.buffer # b
    BY <1>1 DEF SendKnows
  <2>2. At("rts") => chip'.txb[call.buffer] = chip.txb[call.buffer]
    BY <2>1, <1>1 DEF SendKnows, Chips
  <2> QED BY <2>1, <2>2, <1>1 DEF SendKnows, At
<1>8. Cardinality(chip'.txif \ call'.txif) <= Cardinality(chip.txif \ call.txif) + 1
  <2>1. /\ chip.txif \ call.txif \subseteq Txb
        /\ chip'.txif \ call'.txif \subseteq (chip.txif \ call.txif) \cup {b}
    BY <1>1 DEF Chips
  <2>2. IsFiniteSet(chip.txif \ call.txif)
    BY <2>1, Counting, Zenon
  <2> QED BY <2>1, <2>2, AtMostOneMore, Zenon
<1> QED BY <1>4, <1>5, <1>6, <1>7, <1>8
\* The overflow that sets a bit has cost a frame.
LEMMA OverflowCounted ==
    ASSUME McpInv, NEW f \in Frames, f \notin mcp.arrived,
           bus'.rx_overflow = bus.rx_overflow, call' = call,
           \/ chip'.ovr = TRUE /\ mcp'.lost = mcp.lost \cup {f}
           \/ chip'.ovr = chip.ovr /\ mcp'.lost = mcp.lost
    PROVE  bus'.rx_overflow + (IF chip'.ovr /\ ~At("clear_eflg")' THEN 1 ELSE 0)
               <= Cardinality(mcp'.lost)
<1>1. /\ mcp.lost \subseteq Frames /\ mcp.lost \subseteq mcp.arrived /\ bus.rx_overflow \in Nat
      /\ bus.rx_overflow + (IF chip.ovr /\ ~At("clear_eflg") THEN 1 ELSE 0)
             <= Cardinality(mcp.lost)
  BY DEF McpInv, McpTypes, Histories, Buses, McpFramesAccounted, CountsAddUp
<1>2. At("clear_eflg")' = At("clear_eflg")
  BY DEF At
<1>3. CASE chip'.ovr = chip.ovr /\ mcp'.lost = mcp.lost
  <2>1. (chip'.ovr /\ ~At("clear_eflg")') = (chip.ovr /\ ~At("clear_eflg"))
    BY <1>2, <1>3, Zenon
  <2> QED BY <2>1, <1>1, <1>3, Zenon
<1>4. CASE chip'.ovr = TRUE /\ mcp'.lost = mcp.lost \cup {f}
  <2>1. Cardinality(mcp.lost) \in Nat /\ Cardinality(mcp'.lost) = Cardinality(mcp.lost) + 1
    BY <1>1, <1>4, Counting
  <2>2. bus.rx_overflow <= Cardinality(mcp.lost)
    BY <1>1, <2>1
  <2> QED BY <2>1, <2>2, <1>1
<1> QED BY <1>3, <1>4

LEMMA FrameArrivesSound ==
    ASSUME McpInv, NEW f \in Frames, FrameArrives(f),
           f \notin mcp.arrived \cup mcp.accepted \cup Hand
    PROVE  McpInv' /\ Pending' = Pending /\ Hand' = Hand
<1>1. /\ chip \in Chips /\ mcp \in Histories /\ McpTypes
  BY DEF McpInv, McpTypes
<1>2. /\ chip' = Stored(chip, f) /\ mcp' = Arrival(mcp, f)
      /\ clearsOnRead' = clearsOnRead /\ bus' = bus /\ call' = call
  BY DEF FrameArrives
<1>3. /\ chip' \in Chips
      /\ \/ /\ chip.rxif = Rxb /\ chip'.rxif = chip.rxif /\ chip'.rxb = chip.rxb
            /\ mcp'.lost = mcp.lost \cup {f} /\ chip'.ovr = TRUE
         \/ /\ mcp'.lost = mcp.lost /\ chip'.ovr = chip.ovr
            /\ \E b \in Rxb \ chip.rxif : /\ chip'.rxif = chip.rxif \cup {b}
                                          /\ chip'.rxb = [chip.rxb EXCEPT ![b] = f]
      /\ chip'.txb = chip.txb /\ chip'.txreq = chip.txreq /\ chip'.txif = chip.txif
  <2>1. CASE chip.rxif = Rxb
    <3>1. mcp'.lost = mcp.lost \cup {f}
      BY <1>1, <1>2, <2>1, ArrivalFields
    <3> QED BY <3>1, <1>1, <1>2, <2>1, StoredFull
  <2>2. CASE chip.rxif # Rxb
    <3>1. mcp'.lost = mcp.lost
      BY <1>1, <1>2, <2>2, ArrivalFields
    <3> QED BY <3>1, <1>1, <1>2, <2>2, StoredFree
  <2> QED BY <2>1, <2>2
<1>4. /\ mcp' \in Histories
      /\ mcp'.out = mcp.out /\ mcp'.sendings = mcp.sendings /\ mcp'.accepted = mcp.accepted
      /\ mcp'.arrived = mcp.arrived \cup {f} /\ mcp'.returned = mcp.returned
      /\ mcp'.returns = mcp.returns
  BY <1>1, <1>2, ArrivalFields
<1>5. McpTypes'
  BY <1>1, <1>2, <1>3, <1>4 DEF McpTypes
<1>6. ReadKnows' /\ ClearKnows' /\ ReceivesApart' /\ McpFramesAccounted'
  BY <1>2, <1>3, <1>4, StoredIsHeld
<1>7. SendsApart' /\ SendsGoOutOnce' /\ Pending' = Pending
  BY <1>3, <1>4, SendsKept DEF McpInv
<1>8. Hand' = Hand /\ PollKnows' /\ FlagsKnown'
  BY <1>2, PlaceKept DEF McpInv
<1>9. SendKnows'
  BY <1>2, <1>3 DEF SendKnows, At, McpInv
<1>10. NotYetHeard'
  <2>1. f \notin Pending \cup Hand
    BY DEF McpInv, SendsGoOutOnce
  <2> QED BY <2>1, <1>4, <1>7, <1>8 DEF NotYetHeard, McpInv
<1>11. CountsAddUp'
  <2>1. bus'.rx_overflow + (IF chip'.ovr /\ ~At("clear_eflg")' THEN 1 ELSE 0)
            <= Cardinality(mcp'.lost)
    BY <1>2, <1>3, OverflowCounted
  <2>2. bus'.transmitted + Cardinality(chip'.txif \ call'.txif) <= mcp'.sendings
    BY <1>2, <1>3, <1>4 DEF McpInv, CountsAddUp
  <2> QED BY <2>1, <2>2 DEF CountsAddUp
<1> QED BY <1>5, <1>6, <1>7, <1>8, <1>9, <1>10, <1>11 DEF McpInv

LEMMA FrameLeavesSound ==
    ASSUME McpInv, NEW b \in Txb, FrameLeaves(b)
    PROVE  McpInv' /\ Pending' = Pending \ {chip.txb[b]} /\ Hand' = Hand
<1>1. /\ chip \in Chips /\ mcp \in Histories /\ McpTypes
      /\ SendsApart /\ ReceivesApart /\ McpFramesAccounted
  BY DEF McpInv, McpTypes
<1>2. /\ chip' = Transmitted(chip, b) /\ mcp' = WentOut(mcp, chip.txb[b]) /\ b \in chip.txreq
      /\ clearsOnRead' = clearsOnRead /\ bus' = bus /\ call' = call
  BY DEF FrameLeaves
<1>3. chip.txb[b] \in Frames
  BY <1>1, <1>2 DEF SendsApart
<1>4. /\ chip' \in Chips /\ chip'.rxb = chip.rxb /\ chip'.rxif = chip.rxif
      /\ chip'.txb = [chip.txb EXCEPT ![b] = NoFrame] /\ chip'.txreq = chip.txreq \ {b}
      /\ chip'.txif = chip.txif \cup {b} /\ chip'.ovr = chip.ovr
  BY <1>1, <1>2, TransmittedFields
<1>5. /\ mcp' \in Histories
      /\ mcp'.out = mcp.out \cup {chip.txb[b]} /\ mcp'.sendings = mcp.sendings + 1
      /\ mcp'.accepted = mcp.accepted /\ mcp'.lost = mcp.lost
      /\ mcp'.arrived = mcp.arrived /\ mcp'.returned = mcp.returned
      /\ mcp'.returns = mcp.returns
  BY <1>1, <1>2, <1>3, WentOutFields
<1>6. McpTypes'
  BY <1>1, <1>2, <1>4, <1>5 DEF McpTypes
<1>7. Hand' = Hand /\ InHand' = InHand /\ PollKnows' /\ FlagsKnown'
  BY <1>2, PlaceKept DEF McpInv
<1>8. ReceivesApart' /\ McpFramesAccounted' /\ Waiting' = Waiting
  BY <1>1, <1>2, <1>4, <1>5, <1>7, ReceivesKept
<1>9. ReadKnows' /\ ClearKnows'
  BY <1>2, <1>4, <1>8 DEF ReadKnows, ClearKnows, At, McpInv
<1>10. /\ SendsApart' /\ SendsGoOutOnce' /\ SendKnows'
       /\ Pending' = Pending \ {chip.txb[b]}
       /\ Cardinality(chip'.txif \ call'.txif) <= Cardinality(chip.txif \ call.txif) + 1
  BY <1>2, <1>4, <1>5, TransmittedIsOut
<1>11. NotYetHeard'
  BY <1>5, <1>7, <1>10, HeardKept DEF McpInv
<1>12. CountsAddUp'
  <2>1. bus'.transmitted + Cardinality(chip'.txif \ call'.txif) <= mcp'.sendings
    <3>1. bus.transmitted + Cardinality(chip.txif \ call.txif) <= mcp.sendings
      BY DEF McpInv, CountsAddUp
    <3>2. /\ bus.transmitted \in Nat /\ mcp.sendings \in Nat
          /\ Cardinality(chip.txif \ call.txif) \in Nat
          /\ Cardinality(chip'.txif \ call'.txif) \in Nat
      <4>1. /\ bus.transmitted \in Nat /\ mcp.sendings \in Nat
            /\ chip.txif \ call.txif \subseteq Txb /\ chip'.txif \ call'.txif \subseteq Txb
        BY <1>1, <1>6 DEF McpTypes, Buses, Histories, Chips
      <4> QED BY <4>1, Counting
    <3>3. bus'.transmitted = bus.transmitted
      BY <1>2
    <3> QED BY <3>1, <3>2, <3>3, <1>5, <1>10
  <2>2. bus'.rx_overflow + (IF chip'.ovr /\ ~At("clear_eflg")' THEN 1 ELSE 0)
            <= Cardinality(mcp'.lost)
    BY <1>2, <1>4, <1>5 DEF McpInv, CountsAddUp, At
  <2> QED BY <2>1, <2>2 DEF CountsAddUp
<1> QED BY <1>6, <1>7, <1>8, <1>9, <1>10, <1>11, <1>12 DEF McpInv
LEMMA FrameLoopsBackSound ==
    ASSUME McpInv, NEW b \in Txb, FrameLoopsBack(b)
    PROVE  /\ McpInv' /\ Pending' = Pending \ {chip.txb[b]} /\ Hand' = Hand
           /\ mcp'.arrived = mcp.arrived \cup {chip.txb[b]} /\ mcp'.accepted = mcp.accepted
           /\ chip.txb[b] \in Pending
<1> DEFINE f == chip.txb[b]
           between == Transmitted(chip, b)
           gone == WentOut(mcp, f)
<1>1. /\ chip \in Chips /\ mcp \in Histories /\ McpTypes
      /\ SendsApart /\ NotYetHeard
  BY DEF McpInv, McpTypes
<1>2. /\ chip' = Stored(between, f) /\ mcp' = Arrival(gone, f) /\ b \in chip.txreq
      /\ clearsOnRead' = clearsOnRead /\ bus' = bus /\ call' = call
  BY DEF FrameLoopsBack
<1>3. f \in Frames /\ f \in Pending /\ f \notin mcp.arrived
  BY <1>1, <1>2 DEF SendsApart, NotYetHeard, Pending
<1>4. /\ between \in Chips /\ between.rxb = chip.rxb /\ between.rxif = chip.rxif
      /\ between.txb = [chip.txb EXCEPT ![b] = NoFrame] /\ between.txreq = chip.txreq \ {b}
      /\ between.txif = chip.txif \cup {b} /\ between.ovr = chip.ovr
  BY <1>1, TransmittedFields
<1>5. /\ gone \in Histories
      /\ gone.out = mcp.out \cup {f} /\ gone.sendings = mcp.sendings + 1
      /\ gone.accepted = mcp.accepted /\ gone.lost = mcp.lost
      /\ gone.arrived = mcp.arrived /\ gone.returned = mcp.returned
      /\ gone.returns = mcp.returns
  BY <1>1, <1>3, WentOutFields
<1> HIDE DEF f, between, gone
<1>6. /\ chip' \in Chips
      /\ \/ /\ chip.rxif = Rxb /\ chip'.rxif = chip.rxif /\ chip'.rxb = chip.rxb
            /\ mcp'.lost = mcp.lost \cup {f} /\ chip'.ovr = TRUE
         \/ /\ mcp'.lost = mcp.lost /\ chip'.ovr = chip.ovr
            /\ \E c \in Rxb \ chip.rxif : /\ chip'.rxif = chip.rxif \cup {c}
                                          /\ chip'.rxb = [chip.rxb EXCEPT ![c] = f]
      /\ chip'.txb = between.txb /\ chip'.txreq = between.txreq /\ chip'.txif = between.txif
  <2>1. CASE chip.rxif = Rxb
    <3>1. mcp'.lost = mcp.lost \cup {f}
      BY <1>2, <1>3, <1>5, <2>1, ArrivalFields
    <3> QED BY <3>1, <1>2, <1>3, <1>4, <2>1, StoredFull
  <2>2. CASE chip.rxif # Rxb
    <3>1. mcp'.lost = mcp.lost
      BY <1>2, <1>3, <1>5, <2>2, ArrivalFields
    <3>2. between.rxif # Rxb
      BY <1>4, <2>2
    <3>3. /\ chip' \in Chips
          /\ \E c \in Rxb \ between.rxif : /\ chip'.rxif = between.rxif \cup {c}
                                           /\ chip'.rxb = [between.rxb EXCEPT ![c] = f]
          /\ chip'.txb = between.txb /\ chip'.txreq = between.txreq
          /\ chip'.txif = between.txif /\ chip'.ovr = between.ovr
      <4>1. chip' = Stored(between, f) /\ between \in Chips /\ f \in Frames
        BY <1>2, <1>3, <1>4
      <4> QED BY <4>1, <3>2, StoredFree, Zenon
    <3>4. \E c \in Rxb \ chip.rxif : /\ chip'.rxif = chip.rxif \cup {c}
                                   /\ chip'.rxb = [chip.rxb EXCEPT ![c] = f]
      BY <3>3, <1>4, Zenon
    <3>5. chip'.ovr = chip.ovr
      BY <3>3, <1>4, Zenon
    <3> QED BY <3>1, <3>3, <3>4, <3>5, Zenon
  <2> QED BY <2>1, <2>2
<1>7. /\ mcp' \in Histories
      /\ mcp'.out = gone.out /\ mcp'.sendings = gone.sendings /\ mcp'.accepted = mcp.accepted
      /\ mcp'.arrived = mcp.arrived \cup {f} /\ mcp'.returned = mcp.returned
      /\ mcp'.returns = mcp.returns
  BY <1>2, <1>3, <1>5, ArrivalFields
<1>8. McpTypes'
  BY <1>1, <1>2, <1>6, <1>7 DEF McpTypes
<1>9. Hand' = Hand /\ InHand' = InHand /\ PollKnows' /\ FlagsKnown'
  BY <1>2, PlaceKept DEF McpInv
<1>10. ReadKnows' /\ ClearKnows' /\ ReceivesApart' /\ McpFramesAccounted'
  BY <1>2, <1>3, <1>6, <1>7, StoredIsHeld
<1>11. /\ SendsApart' /\ SendsGoOutOnce' /\ SendKnows'
       /\ Pending' = Pending \ {f}
       /\ Cardinality(chip'.txif \ call'.txif) <= Cardinality(chip.txif \ call.txif) + 1
  BY <1>2, <1>4, <1>5, <1>6, <1>7, TransmittedIsOut DEF f
<1>12. NotYetHeard'
  <2>1. Hand \cap mcp.accepted = {} /\ f \in mcp.accepted
    BY <1>1, <1>3 DEF NotYetHeard, McpInv, SendsGoOutOnce
  <2> QED BY <2>1, <1>1, <1>3, <1>7, <1>9, <1>11 DEF NotYetHeard
<1>13. CountsAddUp'
  <2>1. bus'.transmitted + Cardinality(chip'.txif \ call'.txif) <= mcp'.sendings
    <3>1. bus.transmitted + Cardinality(chip.txif \ call.txif) <= mcp.sendings
      BY DEF McpInv, CountsAddUp
    <3>2. /\ bus.transmitted \in Nat /\ mcp.sendings \in Nat
          /\ Cardinality(chip.txif \ call.txif) \in Nat
          /\ Cardinality(chip'.txif \ call'.txif) \in Nat
      <4>1. /\ bus.transmitted \in Nat /\ mcp.sendings \in Nat
            /\ chip.txif \ call.txif \subseteq Txb /\ chip'.txif \ call'.txif \subseteq Txb
        BY <1>1, <1>8 DEF McpTypes, Buses, Histories, Chips
      <4> QED BY <4>1, Counting
    <3>3. bus'.transmitted = bus.transmitted /\ mcp'.sendings = mcp.sendings + 1
      BY <1>2, <1>5, <1>7
    <3> QED BY <3>1, <3>2, <3>3, <1>11
  <2>2. bus'.rx_overflow + (IF chip'.ovr /\ ~At("clear_eflg")' THEN 1 ELSE 0)
            <= Cardinality(mcp'.lost)
    BY <1>2, <1>3, <1>6, OverflowCounted
  <2> QED BY <2>1, <2>2 DEF CountsAddUp
<1> QED BY <1>3, <1>7, <1>8, <1>9, <1>10, <1>11, <1>12, <1>13 DEF McpInv, f

LEMMA ChipChangesModeSound ==
    ASSUME McpInv, ChipChangesMode
    PROVE  McpInv' /\ Pending' = Pending /\ Hand' = Hand
<1>1. /\ chip \in Chips /\ McpTypes
      /\ SendsApart /\ ReceivesApart /\ McpFramesAccounted /\ SendsGoOutOnce
  BY DEF McpInv, McpTypes
<1>2. /\ chip' = [chip EXCEPT !.opmode = chip.reqop] /\ mcp' = mcp
      /\ clearsOnRead' = clearsOnRead /\ bus' = bus /\ call' = call
  BY DEF ChipChangesMode
<1>3. /\ chip' \in Chips /\ chip'.rxb = chip.rxb /\ chip'.rxif = chip.rxif
      /\ chip'.txb = chip.txb /\ chip'.txreq = chip.txreq
      /\ chip'.txif = chip.txif /\ chip'.ovr = chip.ovr
  BY <1>1, <1>2 DEF Chips
<1>4. McpTypes'
  BY <1>1, <1>2, <1>3 DEF McpTypes
<1>5. Hand' = Hand /\ InHand' = InHand /\ PollKnows' /\ FlagsKnown'
  BY <1>2, PlaceKept DEF McpInv
<1>6. ReceivesApart' /\ McpFramesAccounted' /\ Waiting' = Waiting
  BY <1>1, <1>2, <1>3, <1>5, ReceivesKept
<1>7. SendsApart' /\ SendsGoOutOnce' /\ Pending' = Pending
  BY <1>1, <1>2, <1>3, SendsKept
<1>8. ReadKnows' /\ ClearKnows' /\ SendKnows'
  BY <1>2, <1>3, <1>6 DEF ReadKnows, ClearKnows, SendKnows, At, McpInv
<1>9. NotYetHeard'
  BY <1>2, <1>5, <1>7, HeardKept DEF McpInv
<1>10. CountsAddUp'
  BY <1>2, <1>3, CountsKept DEF McpInv, At
<1> QED BY <1>4, <1>5, <1>6, <1>7, <1>8, <1>9, <1>10 DEF McpInv
-----------------------------------------------------------------------------
(* The driver, where it holds no frame and has chosen no buffer. *)
Elsewhere == call.pc \notin {"read", "clear_rx", "load", "rts"}

McpQuiet == /\ ReadKnows /\ ClearKnows /\ SendKnows
            /\ ReceivesApart /\ SendsApart /\ NotYetHeard
            /\ McpFramesAccounted /\ SendsGoOutOnce

LEMMA QuietStep ==
    ASSUME McpInv, Elsewhere, Elsewhere',
           chip'.rxb = chip.rxb, chip'.rxif = chip.rxif,
           chip'.txb = chip.txb, chip'.txreq = chip.txreq,
           mcp' = mcp, clearsOnRead' = clearsOnRead
    PROVE  McpQuiet' /\ Pending' = Pending /\ Hand' = Hand
<1>1. /\ ~At("read") /\ ~At("clear_rx") /\ ~At("load") /\ ~At("rts")
      /\ ~At("read")' /\ ~At("clear_rx")' /\ ~At("load")' /\ ~At("rts")'
  BY DEF Elsewhere, At
<1>2. Hand' = Hand /\ InHand' = InHand
  BY <1>1 DEF Hand, InHand
<1>3. ReceivesApart' /\ McpFramesAccounted'
  BY <1>2, ReceivesKept DEF McpInv
<1>4. SendsApart' /\ SendsGoOutOnce' /\ Pending' = Pending
  BY SendsKept DEF McpInv
<1>5. NotYetHeard'
  BY <1>2, <1>4, HeardKept DEF McpInv
<1>6. ReadKnows' /\ ClearKnows' /\ SendKnows'
  BY <1>1 DEF ReadKnows, ClearKnows, SendKnows
<1> QED BY <1>2, <1>3, <1>4, <1>5, <1>6 DEF McpQuiet

LEMMA IdleIs == Idle \in Calls /\ Idle.txif = {} /\ Idle.pc = "idle" /\ Idle.op = "none"
<1>1. 0 \in Rxb \cup Txb /\ NoFrame \in Frames \cup {NoFrame} /\ "normal" \in OpModes
  BY BuffersAre DEF OpModes
<1> QED BY <1>1 DEF Idle, Calls, Places

LEMMA StartStatsSound ==
    ASSUME McpInv, NEW op \in {"receive", "stats"}, StartStats(op)
    PROVE  McpInv' /\ Pending' = Pending /\ Hand' = Hand
<1>1. /\ McpTypes /\ FlagsKnown /\ CountsAddUp /\ call.pc = "idle" /\ call.txif = {}
  BY DEF McpInv, StartStats, At, FlagsKnown
<1>2. /\ call' = [Idle EXCEPT !.pc = "intf", !.op = op]
      /\ chip' = chip /\ mcp' = mcp /\ clearsOnRead' = clearsOnRead /\ bus' = bus
  BY DEF StartStats
<1>3. call' \in Calls /\ call'.pc = "intf" /\ call'.txif = {}
  BY <1>2, IdleIs DEF Calls, Places
<1>4. McpTypes'
  BY <1>1, <1>2, <1>3 DEF McpTypes
<1>5. McpQuiet' /\ Pending' = Pending /\ Hand' = Hand
  BY <1>1, <1>2, <1>3, QuietStep DEF Elsewhere
<1>6. PollKnows' /\ FlagsKnown'
  BY <1>3 DEF PollKnows, FlagsKnown, At
<1>7. CountsAddUp'
  BY <1>1, <1>2, <1>3, CountsKept DEF At
<1> QED BY <1>4, <1>5, <1>6, <1>7 DEF McpInv, McpQuiet

LEMMA AfterStatsIs ==
    ASSUME call \in Calls
    PROVE  /\ AfterStats \in Calls /\ AfterStats.pc \in {"idle", "status"}
           /\ AfterStats.txif \in {{}, call.txif}
<1>1. CASE call.op = "receive"
  <2>1. AfterStats = [call EXCEPT !.pc = "status"]
    BY <1>1 DEF AfterStats, GoTo
  <2> QED BY <2>1 DEF Calls, Places
<1>2. CASE call.op # "receive"
  BY <1>2, IdleIs DEF AfterStats
<1> QED BY <1>1, <1>2

LEMMA ReadCanintfSound ==
    ASSUME McpInv, ReadCanintf
    PROVE  McpInv' /\ Pending' = Pending /\ Hand' = Hand
<1>1. /\ McpTypes /\ FlagsKnown /\ CountsAddUp /\ call.pc = "intf" /\ call.txif = {}
      /\ call \in Calls /\ chip \in Chips /\ bus \in Buses /\ mcp \in Histories
  BY DEF McpInv, McpTypes, ReadCanintf, At, FlagsKnown
<1>2. /\ chip' = chip /\ mcp' = mcp /\ clearsOnRead' = clearsOnRead
      /\ bus' = [bus EXCEPT !.transmitted = @ + Cardinality(chip.txif)]
  BY DEF ReadCanintf
<1>3. Cardinality(chip.txif) \in Nat
  BY <1>1, Counting DEF Chips
<1>4. /\ bus' \in Buses /\ bus'.rx_overflow = bus.rx_overflow
      /\ bus'.transmitted = bus.transmitted + Cardinality(chip.txif)
  <2> DEFINE number == bus.transmitted + Cardinality(chip.txif)
  <2>1. number \in Nat
    BY <1>1, <1>3 DEF Buses
  <2>2. bus' = [bus EXCEPT !.transmitted = number]
    BY <1>1, <1>2 DEF Buses
  <2> HIDE DEF number
  <2>3. bus' \in Buses /\ bus'.rx_overflow = bus.rx_overflow /\ bus'.transmitted = number
    BY <1>1, <2>1, <2>2 DEF Buses
  <2> QED BY <2>3 DEF number
<1>5. /\ call' \in Calls
      /\ call'.txif = chip.txif
      /\ call'.pc \in {"eflg", "clear"} \/ (call'.pc \in {"idle", "status"} /\ call'.txif = {})
  <2> DEFINE seen == [call EXCEPT !.txif = chip.txif, !.errif = chip.errif]
  <2>1. seen \in Calls /\ seen.txif = chip.txif
    BY <1>1 DEF Calls, Chips
  <2>2. call' = IF chip.errif THEN [seen EXCEPT !.pc = "eflg"]
                ELSE IF chip.txif # {} THEN [seen EXCEPT !.pc = "clear"]
                ELSE AfterStats
    BY DEF ReadCanintf
  <2> HIDE DEF seen
  <2>3. CASE chip.errif
    BY <2>1, <2>2, <2>3 DEF Calls, Places
  <2>4. CASE ~chip.errif /\ chip.txif # {}
    BY <2>1, <2>2, <2>4 DEF Calls, Places
  <2>5. CASE ~chip.errif /\ chip.txif = {}
    BY <2>2, <2>5, <1>1, AfterStatsIs
  <2> QED BY <2>3, <2>4, <2>5
<1>6. McpTypes'
  BY <1>1, <1>2, <1>4, <1>5 DEF McpTypes
<1>7. McpQuiet' /\ Pending' = Pending /\ Hand' = Hand
  BY <1>1, <1>2, <1>5, QuietStep DEF Elsewhere
<1>8. PollKnows' /\ FlagsKnown'
  BY <1>5 DEF PollKnows, FlagsKnown, At
<1>9. CountsAddUp'
  <2>1. chip.txif \ {} = chip.txif /\ chip'.txif \ call'.txif = {}
    BY <1>2, <1>5
  <2>2. bus.transmitted + Cardinality(chip.txif) <= mcp.sendings
    BY <2>1, <1>1, Zenon DEF CountsAddUp
  <2>3. bus.transmitted \in Nat /\ mcp.sendings \in Nat
    BY <1>1 DEF Buses, Histories
  <2>4. Cardinality(chip'.txif \ call'.txif) = 0
    BY <2>1, FS_EmptySet, Zenon
  <2>5. bus'.transmitted + Cardinality(chip'.txif \ call'.txif) <= mcp'.sendings
    BY <1>2, <1>3, <1>4, <2>2, <2>3, <2>4
  <2>6. ~At("clear_eflg") /\ ~At("clear_eflg")'
    BY <1>1, <1>5 DEF At
  <2>7. bus'.rx_overflow + (IF chip'.ovr /\ ~At("clear_eflg")' THEN 1 ELSE 0)
            <= Cardinality(mcp'.lost)
    BY <1>1, <1>2, <1>4, <2>6, Zenon DEF CountsAddUp
  <2> QED BY <2>5, <2>7 DEF CountsAddUp
<1> QED BY <1>6, <1>7, <1>8, <1>9 DEF McpInv, McpQuiet
LEMMA ReadEflgSound ==
    ASSUME McpInv, ReadEflg
    PROVE  McpInv' /\ Pending' = Pending /\ Hand' = Hand
<1>1. /\ McpTypes /\ CountsAddUp /\ call.pc = "eflg"
      /\ call \in Calls /\ bus \in Buses
  BY DEF McpInv, McpTypes, ReadEflg, At
<1>2. /\ chip' = chip /\ mcp' = mcp /\ clearsOnRead' = clearsOnRead
      /\ bus' = [bus EXCEPT !.rx_overflow = IF chip.ovr THEN @ + 1 ELSE @]
      /\ call' = [call EXCEPT !.pc = "clear_eflg"]
  BY DEF ReadEflg, GoTo
<1>3. call' \in Calls /\ call'.txif = call.txif /\ call'.pc = "clear_eflg"
  BY <1>1, <1>2 DEF Calls, Places
<1>4. /\ bus' \in Buses /\ bus'.transmitted = bus.transmitted
      /\ bus'.rx_overflow = bus.rx_overflow + (IF chip.ovr THEN 1 ELSE 0)
  <2> DEFINE number == bus.rx_overflow + (IF chip.ovr THEN 1 ELSE 0)
  <2>1. number \in Nat
    BY <1>1 DEF Buses
  <2>2. bus' = [bus EXCEPT !.rx_overflow = number]
    <3>1. CASE chip.ovr
      BY <1>1, <1>2, <3>1 DEF Buses
    <3>2. CASE ~chip.ovr
      <4>1. number = bus.rx_overflow
        BY <1>1, <3>2 DEF Buses
      <4> QED BY <1>2, <3>2, <4>1
    <3> QED BY <3>1, <3>2
  <2> HIDE DEF number
  <2>3. bus' \in Buses /\ bus'.transmitted = bus.transmitted /\ bus'.rx_overflow = number
    BY <1>1, <2>1, <2>2 DEF Buses
  <2> QED BY <2>3 DEF number
<1>5. McpTypes'
  BY <1>1, <1>2, <1>3, <1>4 DEF McpTypes
<1>6. McpQuiet' /\ Pending' = Pending /\ Hand' = Hand
  BY <1>1, <1>2, <1>3, QuietStep DEF Elsewhere
<1>7. PollKnows' /\ FlagsKnown'
  BY <1>3 DEF PollKnows, FlagsKnown, At
<1>8. CountsAddUp'
  <2>1. ~At("clear_eflg") /\ At("clear_eflg")'
    BY <1>1, <1>3 DEF At
  <2>2. bus.rx_overflow + (IF chip.ovr THEN 1 ELSE 0) <= Cardinality(mcp.lost)
    BY <1>1, <2>1, Zenon DEF CountsAddUp
  <2>3. bus'.rx_overflow \in Nat /\ bus'.rx_overflow <= Cardinality(mcp.lost)
    BY <1>4, <2>2 DEF Buses
  <2>4. (IF chip'.ovr /\ ~At("clear_eflg")' THEN 1 ELSE 0) = 0
    BY <2>1
  <2>5. bus'.rx_overflow + (IF chip'.ovr /\ ~At("clear_eflg")' THEN 1 ELSE 0)
            <= Cardinality(mcp'.lost)
    BY <1>2, <2>3, <2>4
  <2>6. bus'.transmitted + Cardinality(chip'.txif \ call'.txif) <= mcp'.sendings
    BY <1>1, <1>2, <1>3, <1>4, Zenon DEF CountsAddUp
  <2> QED BY <2>5, <2>6 DEF CountsAddUp
<1> QED BY <1>5, <1>6, <1>7, <1>8 DEF McpInv, McpQuiet

LEMMA ClearEflgSound ==
    ASSUME McpInv, ClearEflg
    PROVE  McpInv' /\ Pending' = Pending /\ Hand' = Hand
<1>1. /\ McpTypes /\ CountsAddUp /\ call.pc = "clear_eflg"
      /\ call \in Calls /\ chip \in Chips /\ bus \in Buses
  BY DEF McpInv, McpTypes, ClearEflg, At
<1>2. /\ bus' = bus /\ mcp' = mcp /\ clearsOnRead' = clearsOnRead
      /\ chip' = [chip EXCEPT !.ovr = FALSE]
      /\ call' = [call EXCEPT !.pc = "clear"]
  BY DEF ClearEflg, GoTo
<1>3. call' \in Calls /\ call'.txif = call.txif /\ call'.pc = "clear"
  BY <1>1, <1>2 DEF Calls, Places
<1>4. /\ chip' \in Chips /\ chip'.rxb = chip.rxb /\ chip'.rxif = chip.rxif
      /\ chip'.txb = chip.txb /\ chip'.txreq = chip.txreq
      /\ chip'.txif = chip.txif /\ chip'.ovr = FALSE
  BY <1>1, <1>2 DEF Chips
<1>5. McpTypes'
  BY <1>1, <1>2, <1>3, <1>4 DEF McpTypes
<1>6. McpQuiet' /\ Pending' = Pending /\ Hand' = Hand
  BY <1>1, <1>2, <1>3, <1>4, QuietStep DEF Elsewhere
<1>7. PollKnows' /\ FlagsKnown'
  BY <1>3 DEF PollKnows, FlagsKnown, At
<1>8. CountsAddUp'
  <2>1. At("clear_eflg")
    BY <1>1 DEF At
  <2>2. bus.rx_overflow + 0 <= Cardinality(mcp.lost)
    BY <1>1, <2>1 DEF CountsAddUp
  <2>3. bus'.rx_overflow + (IF chip'.ovr /\ ~At("clear_eflg")' THEN 1 ELSE 0)
            <= Cardinality(mcp'.lost)
    BY <1>2, <1>4, <2>2
  <2>4. bus'.transmitted + Cardinality(chip'.txif \ call'.txif) <= mcp'.sendings
    BY <1>1, <1>2, <1>3, <1>4, Zenon DEF CountsAddUp
  <2> QED BY <2>3, <2>4 DEF CountsAddUp
<1> QED BY <1>5, <1>6, <1>7, <1>8 DEF McpInv, McpQuiet

LEMMA ClearCanintfSound ==
    ASSUME McpInv, ClearCanintf
    PROVE  McpInv' /\ Pending' = Pending /\ Hand' = Hand
<1>1. /\ McpTypes /\ CountsAddUp /\ call.pc = "clear"
      /\ call \in Calls /\ chip \in Chips /\ bus \in Buses
  BY DEF McpInv, McpTypes, ClearCanintf, At
<1>2. /\ bus' = bus /\ mcp' = mcp /\ clearsOnRead' = clearsOnRead
      /\ chip' = [chip EXCEPT !.txif = @ \ call.txif,
                              !.errif = IF call.errif THEN FALSE ELSE @]
      /\ call' = [AfterStats EXCEPT !.txif = {}, !.errif = FALSE]
  BY DEF ClearCanintf
<1>3. call' \in Calls /\ call'.txif = {} /\ call'.pc \in {"idle", "status"}
  BY <1>1, <1>2, AfterStatsIs DEF Calls
<1>4. /\ chip' \in Chips /\ chip'.rxb = chip.rxb /\ chip'.rxif = chip.rxif
      /\ chip'.txb = chip.txb /\ chip'.txreq = chip.txreq
      /\ chip'.txif = chip.txif \ call.txif /\ chip'.ovr = chip.ovr
  BY <1>1, <1>2 DEF Chips, Calls
<1>5. McpTypes'
  BY <1>1, <1>2, <1>3, <1>4 DEF McpTypes
<1>6. McpQuiet' /\ Pending' = Pending /\ Hand' = Hand
  BY <1>1, <1>2, <1>3, <1>4, QuietStep DEF Elsewhere
<1>7. PollKnows' /\ FlagsKnown'
  BY <1>3 DEF PollKnows, FlagsKnown, At
<1>8. CountsAddUp'
  <2>1. chip'.txif \ call'.txif = chip.txif \ call.txif
    BY <1>3, <1>4
  <2>2. At("clear_eflg")' = At("clear_eflg")
    BY <1>1, <1>3 DEF At
  <2> QED BY <1>1, <1>2, <1>4, <2>1, <2>2, Zenon DEF CountsAddUp
<1> QED BY <1>5, <1>6, <1>7, <1>8 DEF McpInv, McpQuiet
-----------------------------------------------------------------------------
(* The driver, with a received frame. *)
LEMMA ReadStatusSound ==
    ASSUME McpInv, ReadStatus
    PROVE  McpInv' /\ Pending' = Pending /\ Hand' = Hand
<1>1. /\ McpTypes /\ CountsAddUp /\ FlagsKnown /\ call.pc = "status" /\ call.txif = {}
      /\ call \in Calls /\ chip \in Chips
  BY DEF McpInv, McpTypes, ReadStatus, At, FlagsKnown
<1>2. /\ chip' = chip /\ bus' = bus /\ mcp' = mcp /\ clearsOnRead' = clearsOnRead
      /\ call' = IF chip.rxif = {} THEN Idle
                 ELSE [call EXCEPT !.pc = "read",
                                   !.buffer = IF 0 \in chip.rxif THEN 0 ELSE 1]
  BY DEF ReadStatus
<1>3. /\ call' \in Calls /\ call'.txif = {}
      /\ call'.pc = "idle" \/ (call'.pc = "read" /\ call'.buffer \in chip.rxif)
  <2>1. CASE chip.rxif = {}
    BY <1>2, <2>1, IdleIs
  <2>2. CASE chip.rxif # {}
    <3> DEFINE b == IF 0 \in chip.rxif THEN 0 ELSE 1
    <3>1. b \in chip.rxif /\ b \in Rxb
      BY <1>1, <2>2 DEF Chips, Rxb
    <3>2. call' = [call EXCEPT !.pc = "read", !.buffer = b]
      BY <1>2, <2>2
    <3> HIDE DEF b
    <3> QED BY <1>1, <3>1, <3>2 DEF Calls, Places
  <2> QED BY <2>1, <2>2
<1>4. McpTypes'
  BY <1>1, <1>2, <1>3 DEF McpTypes
<1>5. Hand' = Hand /\ InHand' = InHand
  BY <1>1, <1>3 DEF Hand, InHand, At
<1>6. ReceivesApart' /\ McpFramesAccounted'
  BY <1>2, <1>5, ReceivesKept DEF McpInv
<1>7. SendsApart' /\ SendsGoOutOnce' /\ Pending' = Pending
  BY <1>2, SendsKept DEF McpInv
<1>8. NotYetHeard'
  BY <1>2, <1>5, <1>7, HeardKept DEF McpInv
<1>9. ReadKnows' /\ ClearKnows' /\ SendKnows' /\ PollKnows' /\ FlagsKnown'
  BY <1>2, <1>3 DEF ReadKnows, ClearKnows, SendKnows, PollKnows, FlagsKnown, At
<1>10. CountsAddUp'
  BY <1>1, <1>2, <1>3, CountsKept DEF At
<1> QED BY <1>4, <1>5, <1>6, <1>7, <1>8, <1>9, <1>10 DEF McpInv

LEMMA ReadRxBufferSound ==
    ASSUME McpInv, ReadRxBuffer
    PROVE  McpInv' /\ Pending' = Pending /\ Hand' = Hand
<1> DEFINE b == call.buffer
<1>1. /\ McpTypes /\ CountsAddUp /\ FlagsKnown /\ call.pc = "read" /\ call.txif = {}
      /\ call \in Calls /\ chip \in Chips /\ ReceivesApart /\ McpFramesAccounted
      /\ b \in chip.rxif
  BY DEF McpInv, McpTypes, ReadRxBuffer, At, FlagsKnown, ReadKnows
<1>2. /\ bus' = bus /\ mcp' = mcp /\ clearsOnRead' = clearsOnRead
      /\ call' = [call EXCEPT !.pc = "clear_rx", !.frame = chip.rxb[b]]
      /\ chip' = IF clearsOnRead THEN Released(chip, b) ELSE chip
  BY DEF ReadRxBuffer
<1> HIDE DEF b
<1>3. b \in Rxb /\ chip.rxb[b] \in Frames /\ chip.rxb[b] \in Waiting
  BY <1>1 DEF Chips, ReceivesApart, Waiting
<1>4. /\ call' \in Calls /\ call'.txif = {} /\ call'.pc = "clear_rx"
      /\ call'.frame = chip.rxb[b] /\ call'.buffer = b
  BY <1>1, <1>2, <1>3 DEF Calls, Places, b
<1>5. /\ chip' \in Chips /\ chip'.txb = chip.txb /\ chip'.txreq = chip.txreq
      /\ chip'.txif = chip.txif /\ chip'.ovr = chip.ovr
  BY <1>1, <1>2, <1>3, ReleasedFields
<1>6. McpTypes'
  BY <1>1, <1>2, <1>4, <1>5 DEF McpTypes
<1>7. Hand' = Hand /\ InHand = {} /\ InHand' = {chip.rxb[b]}
  BY <1>1, <1>4 DEF Hand, InHand, At
<1>8. SendsApart' /\ SendsGoOutOnce' /\ Pending' = Pending
  BY <1>2, <1>5, SendsKept DEF McpInv
<1>9. NotYetHeard'
  BY <1>2, <1>7, <1>8, HeardKept DEF McpInv
<1>10. CountsAddUp'
  BY <1>1, <1>2, <1>4, <1>5, CountsKept DEF At
<1>11. ReadKnows' /\ SendKnows' /\ PollKnows' /\ FlagsKnown'
  BY <1>4 DEF ReadKnows, SendKnows, PollKnows, FlagsKnown, At
<1>12. ReceivesApart' /\ McpFramesAccounted' /\ ClearKnows'
  <2>1. CASE clearsOnRead
    <3>1. /\ chip'.rxif = chip.rxif \ {b}
          /\ \A c \in chip.rxif \ {b} : chip'.rxb[c] = chip.rxb[c] /\ chip.rxb[c] # chip.rxb[b]
      <4>1. chip'.rxif = chip.rxif \ {b} /\ chip'.rxb = [chip.rxb EXCEPT ![b] = NoFrame]
        BY <1>1, <1>2, <1>3, <2>1, ReleasedFields
      <4> QED BY <4>1, <1>1 DEF Chips, ReceivesApart
    <3>2. Waiting' = Waiting \ {chip.rxb[b]}
      BY <3>1, <1>1 DEF Waiting
    <3>3. Waiting' \cup InHand' = Waiting \cup InHand
      BY <3>2, <1>3, <1>7
    <3>4. Unexplained' = Unexplained
      BY <3>3, <1>2 DEF Unexplained
    <3>5. McpFramesAccounted'
      BY <3>3, <3>4, <1>1, <1>2 DEF McpFramesAccounted
    <3>6. ReceivesApart'
      BY <3>1, <1>1 DEF ReceivesApart
    <3>7. ClearKnows'
      BY <3>2, <1>2, <1>3, <1>4, <2>1 DEF ClearKnows
    <3> QED BY <3>5, <3>6, <3>7
  <2>2. CASE ~clearsOnRead
    <3>1. Waiting' = Waiting /\ Waiting' \cup InHand' = Waiting \cup InHand
      BY <1>2, <1>3, <1>7, <2>2 DEF Waiting
    <3>2. Unexplained' = Unexplained
      BY <3>1, <1>2 DEF Unexplained
    <3>3. McpFramesAccounted'
      BY <3>1, <3>2, <1>1, <1>2 DEF McpFramesAccounted
    <3>4. ReceivesApart' /\ ClearKnows'
      BY <1>1, <1>2, <1>3, <1>4, <2>2 DEF ReceivesApart, ClearKnows
    <3> QED BY <3>3, <3>4
  <2> QED BY <2>1, <2>2
<1> QED BY <1>6, <1>7, <1>8, <1>9, <1>10, <1>11, <1>12 DEF McpInv
LEMMA ClearRxFlagSound ==
    ASSUME McpInv, ClearRxFlag
    PROVE  McpInv' /\ Pending' = Pending /\ Hand' = Hand
<1> DEFINE b == call.buffer
           f == call.frame
<1>1. /\ McpTypes /\ CountsAddUp /\ FlagsKnown /\ call.pc = "clear_rx" /\ call.txif = {}
      /\ chip \in Chips /\ mcp \in Histories /\ bus \in Buses
      /\ ReceivesApart /\ McpFramesAccounted
      /\ b \in Rxb
      /\ IF clearsOnRead THEN f \notin Waiting
         ELSE b \in chip.rxif /\ chip.rxb[b] = f
  BY DEF McpInv, McpTypes, ClearRxFlag, At, FlagsKnown, ClearKnows
<1>2. /\ chip' = Released(chip, b) /\ clearsOnRead' = clearsOnRead /\ call' = Idle
      /\ bus' = [bus EXCEPT !.received = @ + 1]
      /\ mcp' = [mcp EXCEPT !.returned = @ \cup {f}, !.returns = @ + 1]
  BY DEF ClearRxFlag, Return
<1> HIDE DEF b, f
<1>3. InHand = {f} /\ InHand' = {} /\ Hand' = Hand
  BY <1>1, <1>2, IdleIs DEF InHand, Hand, At, f
<1>4. f \in mcp.arrived /\ f \notin mcp.returned /\ f \notin mcp.lost /\ f \in Frames
  BY <1>1, <1>3 DEF McpFramesAccounted, Histories
<1>5. /\ chip' \in Chips /\ chip'.txb = chip.txb /\ chip'.txreq = chip.txreq
      /\ chip'.txif = chip.txif /\ chip'.ovr = chip.ovr
      /\ chip'.rxif = chip.rxif \ {b} /\ chip'.rxb = [chip.rxb EXCEPT ![b] = NoFrame]
  BY <1>1, <1>2, ReleasedFields
<1>6. /\ mcp' \in Histories /\ mcp'.returned = mcp.returned \cup {f}
      /\ mcp'.returns = mcp.returns + 1 /\ mcp'.arrived = mcp.arrived
      /\ mcp'.lost = mcp.lost /\ mcp'.accepted = mcp.accepted
      /\ mcp'.out = mcp.out /\ mcp'.sendings = mcp.sendings
  <2> DEFINE set == mcp.returned \cup {f}
             number == mcp.returns + 1
  <2>1. set \in SUBSET Frames /\ number \in Nat
    BY <1>1, <1>4 DEF Histories
  <2>2. mcp' = [mcp EXCEPT !.returned = set, !.returns = number]
    BY <1>1, <1>2 DEF Histories
  <2> HIDE DEF set, number
  <2>3. /\ mcp' \in Histories /\ mcp'.returned = set
        /\ mcp'.returns = number /\ mcp'.arrived = mcp.arrived
        /\ mcp'.lost = mcp.lost /\ mcp'.accepted = mcp.accepted
        /\ mcp'.out = mcp.out /\ mcp'.sendings = mcp.sendings
    BY <1>1, <2>1, <2>2 DEF Histories
  <2> QED BY <2>3 DEF set, number
<1>7. /\ bus' \in Buses /\ bus'.transmitted = bus.transmitted
      /\ bus'.rx_overflow = bus.rx_overflow
  BY <1>1, <1>2 DEF Buses
<1>8. McpTypes'
  BY <1>1, <1>2, <1>5, <1>6, <1>7, IdleIs DEF McpTypes
<1>9. SendsApart' /\ SendsGoOutOnce' /\ Pending' = Pending
  BY <1>5, <1>6, SendsKept DEF McpInv
<1>10. NotYetHeard'
  BY <1>3, <1>6, <1>9, HeardKept DEF McpInv
<1>11. CountsAddUp'
  BY <1>1, <1>2, <1>5, <1>6, <1>7, IdleIs, CountsKept DEF At
<1>12. ReadKnows' /\ ClearKnows' /\ SendKnows' /\ PollKnows' /\ FlagsKnown'
  BY <1>2, IdleIs DEF ReadKnows, ClearKnows, SendKnows, PollKnows, FlagsKnown, At
<1>13. \A c \in chip.rxif \ {b} : chip'.rxb[c] = chip.rxb[c]
  BY <1>1, <1>5 DEF Chips
<1>14. ReceivesApart'
  BY <1>1, <1>5, <1>13 DEF ReceivesApart
<1>15. /\ Waiting' \subseteq Waiting /\ Waiting \subseteq Waiting' \cup {chip.rxb[b]}
       /\ f \notin Waiting'
       /\ ~clearsOnRead => Waiting \subseteq Waiting' \cup {f}
  <2>1. Waiting' \subseteq Waiting /\ Waiting \subseteq Waiting' \cup {chip.rxb[b]}
    BY <1>5, <1>13 DEF Waiting
  <2>2. CASE clearsOnRead
    BY <1>1, <2>1, <2>2
  <2>3. CASE ~clearsOnRead
    <3>1. \A c \in chip.rxif \ {b} : chip.rxb[c] # f
      BY <1>1, <2>3 DEF ReceivesApart
    <3>2. f \notin Waiting'
      BY <3>1, <1>5, <1>13 DEF Waiting
    <3> QED BY <1>1, <2>1, <2>3, <3>2
  <2> QED BY <2>2, <2>3
<1>16. McpFramesAccounted'
  <2>1. Cardinality(mcp'.returned) = mcp'.returns
    <3>1. Cardinality(mcp.returned \cup {f}) = Cardinality(mcp.returned) + 1
      BY <1>1, <1>4, Counting DEF Histories
    <3> QED BY <3>1, <1>1, <1>6 DEF McpFramesAccounted
  <2>2. /\ mcp'.returned \cap (mcp'.lost \cup Waiting' \cup InHand') = {}
        /\ mcp'.lost \cap (Waiting' \cup InHand') = {}
        /\ mcp'.returned \cup mcp'.lost \cup Waiting' \cup InHand' \subseteq mcp'.arrived
    BY <1>1, <1>3, <1>4, <1>6, <1>15 DEF McpFramesAccounted
  <2>3. CASE clearsOnRead
    <3>1. Unexplained' \subseteq Unexplained \cup {chip.rxb[b]}
      BY <1>3, <1>6, <1>15 DEF Unexplained
    <3>2. Unexplained \subseteq Frames /\ Unexplained' \subseteq Frames
      BY <1>1, <1>6 DEF Unexplained, Histories
    <3>3. IsFiniteSet(Unexplained) /\ Cardinality(Unexplained) \in Nat
          /\ Cardinality(Unexplained') \in Nat
      BY <3>2, Counting
    <3>4. Cardinality(Unexplained') <= Cardinality(Unexplained) + 1
      BY <3>1, <3>3, AtMostOneMore, Zenon
    <3>5. Cardinality(Unexplained) <= mcp.returns /\ mcp.returns \in Nat
      BY <1>1, <2>3 DEF McpFramesAccounted, Histories
    <3>6. Cardinality(Unexplained') <= mcp'.returns
      BY <3>3, <3>4, <3>5, <1>6
    <3> QED BY <2>1, <2>2, <2>3, <3>6, <1>2 DEF McpFramesAccounted
  <2>4. CASE ~clearsOnRead
    <3>1. Unexplained' \subseteq Unexplained
      BY <1>3, <1>6, <1>15, <2>4 DEF Unexplained
    <3>2. Unexplained' = {}
      BY <3>1, <1>1, <2>4 DEF McpFramesAccounted
    <3> QED BY <2>1, <2>2, <2>4, <3>2, <1>2 DEF McpFramesAccounted
  <2> QED BY <2>3, <2>4
<1> QED BY <1>3, <1>8, <1>9, <1>10, <1>11, <1>12, <1>14, <1>16 DEF McpInv
-----------------------------------------------------------------------------
(* The driver, sending. *)
LEMMA LeastExists ==
    ASSUME NEW S \in SUBSET Nat, S # {}
    PROVE  \E i \in S : \A j \in S : i <= j
<1>1. \E i \in S : \A j \in S : <<j, i>> \notin OpToRel(<, Nat)
  BY NatLessThanWellFounded, WFMin
<1>2. \A i, j \in Nat : <<j, i>> \notin OpToRel(<, Nat) => i <= j
  BY DEF OpToRel
<1> QED BY <1>1, <1>2

\* Counting on from any buffer comes round to each.
LEMMA ComesRound ==
    ASSUME NEW n \in Nat \ {0}, NEW a \in 0..n-1, NEW b \in 0..n-1
    PROVE  \E i \in 0..n-1 : (a + i) % n = b
<1>1. CASE a <= b
  <2>1. b - a \in 0..n-1 /\ a + (b - a) = b /\ b % n = b
    BY <1>1
  <2> QED BY <2>1
<1>2. CASE a > b
  <2>1. b + n - a \in 0..n-1 /\ a + (b + n - a) = b + n
    BY <1>2
  <2>2. (b + n) % n = b
    OBVIOUS
  <2> QED BY <2>1, <2>2
<1> QED BY <1>1, <1>2

LEMMA WrapsRound == ASSUME NEW n \in Nat \ {0}, NEW a \in Nat PROVE a % n \in 0..n-1
OBVIOUS

\* The buffer mcp2515_bus_send takes is one that is not busy.
LEMMA ChosenIsFree ==
    ASSUME chip \in Chips, bus \in Buses, chip.txreq # Txb
    PROVE  ChosenTxb \in Txb \ chip.txreq
<1> DEFINE free == {i \in Txb : NthTxb(i) \notin chip.txreq}
<1>1. \A i \in Txb : NthTxb(i) \in Txb
  <2> TAKE i \in Txb
  <2>1. TxBuffers \in Nat \ {0} /\ bus.next_tx_buffer + i \in Nat
    BY QueueAssumption DEF Buses, Txb
  <2>2. (bus.next_tx_buffer + i) % TxBuffers \in 0..TxBuffers-1
    BY <2>1, WrapsRound
  <2> QED BY <2>2 DEF NthTxb, Txb
<1>2. free # {}
  <2>1. PICK b \in Txb : b \notin chip.txreq
    BY DEF Chips
  <2>2. TxBuffers \in Nat \ {0} /\ b \in 0..TxBuffers-1 /\ bus.next_tx_buffer \in 0..TxBuffers-1
    BY QueueAssumption DEF Buses, Txb
  <2>3. \E i \in 0..TxBuffers-1 : (bus.next_tx_buffer + i) % TxBuffers = b
    BY <2>2, ComesRound
  <2> QED BY <2>1, <2>3 DEF NthTxb, Txb
<1>3. free \in SUBSET Nat
  BY BuffersAre
<1>4. ChosenTxb = NthTxb(CHOOSE i \in free : \A j \in free : i <= j)
  BY DEF ChosenTxb
<1>5. (CHOOSE i \in free : \A j \in free : i <= j) \in free
  <2> HIDE DEF free
  <2> QED BY <1>2, <1>3, LeastExists
<1> DEFINE i == CHOOSE i \in free : \A j \in free : i <= j
<1>6. i \in Txb /\ NthTxb(i) \notin chip.txreq
  <2> HIDE DEF i
  <2> QED BY <1>5 DEF i
<1> QED BY <1>1, <1>4, <1>6, Zenon

LEMMA SendSound ==
    ASSUME McpInv, NEW f \in Frames, Send(f), f \notin mcp.arrived \cup mcp.accepted
    PROVE  McpInv' /\ Pending' = Pending /\ Hand' = {f} /\ mcp' = mcp
<1> DEFINE b == ChosenTxb
<1>1. /\ McpTypes /\ CountsAddUp /\ FlagsKnown /\ call.pc = "idle" /\ call.txif = {}
      /\ chip \in Chips /\ bus \in Buses /\ NotYetHeard
  BY DEF McpInv, McpTypes, Send, At, FlagsKnown
<1>2. /\ chip' = chip /\ bus' = bus /\ mcp' = mcp /\ clearsOnRead' = clearsOnRead
      /\ call' = [Idle EXCEPT !.pc = "load", !.op = "send", !.buffer = b, !.frame = f]
      /\ chip.txreq # Txb
  BY DEF Send
<1>3. b \in Txb \ chip.txreq
  BY <1>1, <1>2, ChosenIsFree
<1> HIDE DEF b
<1>4. /\ call' \in Calls /\ call'.pc = "load" /\ call'.txif = {}
      /\ call'.buffer = b /\ call'.frame = f
  BY <1>2, <1>3, IdleIs DEF Calls, Places
<1>5. McpTypes'
  BY <1>1, <1>2, <1>4 DEF McpTypes
<1>6. Hand' = {f} /\ InHand' = InHand
  BY <1>1, <1>4 DEF Hand, InHand, At
<1>7. ReceivesApart' /\ McpFramesAccounted'
  BY <1>2, <1>6, ReceivesKept DEF McpInv
<1>8. SendsApart' /\ SendsGoOutOnce' /\ Pending' = Pending
  BY <1>2, SendsKept DEF McpInv
<1>9. NotYetHeard'
  BY <1>1, <1>2, <1>6, <1>8 DEF NotYetHeard
<1>10. ReadKnows' /\ ClearKnows' /\ SendKnows' /\ PollKnows' /\ FlagsKnown'
  BY <1>2, <1>3, <1>4 DEF ReadKnows, ClearKnows, SendKnows, PollKnows, FlagsKnown, At
<1>11. CountsAddUp'
  BY <1>1, <1>2, <1>4, CountsKept DEF At
<1> QED BY <1>2, <1>5, <1>6, <1>7, <1>8, <1>9, <1>10, <1>11 DEF McpInv

LEMMA LoadTxBufferSound ==
    ASSUME McpInv, LoadTxBuffer
    PROVE  McpInv' /\ Pending' = Pending /\ Hand' = Hand
<1> DEFINE b == call.buffer
           f == call.frame
<1>1. /\ McpTypes /\ CountsAddUp /\ FlagsKnown /\ call.pc = "load" /\ call.txif = {}
      /\ call \in Calls /\ chip \in Chips /\ SendsApart /\ SendsGoOutOnce
      /\ b \in Txb \ chip.txreq /\ f \in Frames
  BY DEF McpInv, McpTypes, LoadTxBuffer, At, FlagsKnown, SendKnows
<1>2. /\ bus' = bus /\ mcp' = mcp /\ clearsOnRead' = clearsOnRead
      /\ chip' = [chip EXCEPT !.txb[b] = f]
      /\ call' = [call EXCEPT !.pc = "rts"]
  BY DEF LoadTxBuffer, GoTo
<1> HIDE DEF b, f
<1>3. /\ call' \in Calls /\ call'.pc = "rts" /\ call'.txif = {}
      /\ call'.buffer = b /\ call'.frame = f
  BY <1>1, <1>2 DEF Calls, Places, b, f
<1>4. /\ chip' \in Chips /\ chip'.rxb = chip.rxb /\ chip'.rxif = chip.rxif
      /\ chip'.txb = [chip.txb EXCEPT ![b] = f] /\ chip'.txreq = chip.txreq
      /\ chip'.txif = chip.txif /\ chip'.ovr = chip.ovr
  BY <1>1, <1>2 DEF Chips
<1>5. McpTypes'
  BY <1>1, <1>2, <1>3, <1>4 DEF McpTypes
<1>6. Hand' = Hand /\ InHand' = InHand
  BY <1>1, <1>3 DEF Hand, InHand, At, f
<1>7. ReceivesApart' /\ McpFramesAccounted'
  BY <1>2, <1>4, <1>6, ReceivesKept DEF McpInv
<1>8. chip'.txb[b] = f /\ \A c \in chip.txreq : chip'.txb[c] = chip.txb[c]
  BY <1>1, <1>4 DEF Chips
<1>9. Pending' = Pending
  BY <1>4, <1>8 DEF Pending
<1>10. SendsApart' /\ SendsGoOutOnce'
  BY <1>1, <1>2, <1>4, <1>8, <1>9 DEF SendsApart, SendsGoOutOnce
<1>11. NotYetHeard'
  BY <1>2, <1>6, <1>9, HeardKept DEF McpInv
<1>12. ReadKnows' /\ ClearKnows' /\ SendKnows' /\ PollKnows' /\ FlagsKnown'
  BY <1>1, <1>3, <1>4, <1>8 DEF ReadKnows, ClearKnows, SendKnows, PollKnows, FlagsKnown, At
<1>13. CountsAddUp'
  BY <1>1, <1>2, <1>3, <1>4, CountsKept DEF At
<1> QED BY <1>5, <1>6, <1>7, <1>9, <1>10, <1>11, <1>12, <1>13 DEF McpInv

LEMMA RequestToSendSound ==
    ASSUME McpInv, RequestToSend
    PROVE  /\ McpInv' /\ Pending' = Pending \cup Hand /\ Hand' = {}
           /\ mcp'.arrived = mcp.arrived /\ mcp'.accepted = mcp.accepted \cup Hand
<1> DEFINE b == call.buffer
           f == call.frame
<1>1. /\ McpTypes /\ CountsAddUp /\ FlagsKnown /\ call.pc = "rts" /\ call.txif = {}
      /\ call \in Calls /\ chip \in Chips /\ mcp \in Histories /\ bus \in Buses
      /\ SendsApart /\ SendsGoOutOnce /\ NotYetHeard
      /\ b \in Txb \ chip.txreq /\ f \in Frames /\ chip.txb[b] = f
  BY DEF McpInv, McpTypes, RequestToSend, At, FlagsKnown, SendKnows
<1>2. /\ clearsOnRead' = clearsOnRead /\ call' = Idle
      /\ chip' = [chip EXCEPT !.txreq = @ \cup {b}]
      /\ bus' = [bus EXCEPT !.next_tx_buffer = (b + 1) % TxBuffers]
      /\ mcp' = [mcp EXCEPT !.accepted = @ \cup {f}]
  BY DEF RequestToSend
<1>3. Hand = {f} /\ Hand' = {} /\ InHand' = InHand
  BY <1>1, <1>2, IdleIs DEF Hand, InHand, At
<1> HIDE DEF b, f
<1>4. /\ chip' \in Chips /\ chip'.rxb = chip.rxb /\ chip'.rxif = chip.rxif
      /\ chip'.txb = chip.txb /\ chip'.txreq = chip.txreq \cup {b}
      /\ chip'.txif = chip.txif /\ chip'.ovr = chip.ovr
  BY <1>1, <1>2 DEF Chips
<1>5. /\ mcp' \in Histories /\ mcp'.accepted = mcp.accepted \cup {f}
      /\ mcp'.returned = mcp.returned /\ mcp'.returns = mcp.returns
      /\ mcp'.arrived = mcp.arrived /\ mcp'.lost = mcp.lost
      /\ mcp'.out = mcp.out /\ mcp'.sendings = mcp.sendings
  BY <1>1, <1>2 DEF Histories
<1>6. /\ bus' \in Buses /\ bus'.transmitted = bus.transmitted
      /\ bus'.rx_overflow = bus.rx_overflow
  <2> DEFINE next == (b + 1) % TxBuffers
  <2>1. next \in Txb
    <3>1. TxBuffers \in Nat \ {0} /\ b + 1 \in Nat
      BY <1>1, QueueAssumption DEF Txb
    <3>2. (b + 1) % TxBuffers \in 0..TxBuffers-1
      BY <3>1, WrapsRound
    <3> QED BY <3>2 DEF Txb
  <2> HIDE DEF next
  <2>2. bus' = [bus EXCEPT !.next_tx_buffer = next]
    BY <1>2 DEF next
  <2> QED BY <1>1, <2>1, <2>2 DEF Buses
<1>7. McpTypes'
  BY <1>1, <1>2, <1>4, <1>5, <1>6, IdleIs DEF McpTypes
<1>8. ReceivesApart' /\ McpFramesAccounted'
  BY <1>2, <1>3, <1>4, <1>5, ReceivesKept DEF McpInv
<1>9. Pending' = Pending \cup {f} /\ f \notin Pending /\ f \notin mcp.out
  <2>1. f \notin mcp.accepted
    BY <1>1, <1>3 DEF NotYetHeard
  <2> QED BY <1>1, <1>4, <2>1 DEF Pending, SendsGoOutOnce
<1>10. SendsApart'
  <2>1. \A c \in chip.txreq : chip.txb[c] # f
    BY <1>9 DEF Pending
  <2> QED BY <1>1, <1>4, <2>1 DEF SendsApart
<1>11. SendsGoOutOnce'
  <2>1. Cardinality(Pending') = Cardinality(chip'.txreq)
    <3>1. Pending \subseteq Frames /\ chip.txreq \subseteq Txb
      BY <1>1 DEF Pending, SendsApart, Chips
    <3>2. /\ Cardinality(Pending \cup {f}) = Cardinality(Pending) + 1
          /\ Cardinality(chip.txreq \cup {b}) = Cardinality(chip.txreq) + 1
      BY <3>1, <1>1, <1>9, Counting
    <3> QED BY <3>2, <1>1, <1>4, <1>9 DEF SendsGoOutOnce
  <2>2. /\ Cardinality(mcp'.out) = mcp'.sendings
        /\ Pending' \cap mcp'.out = {}
        /\ mcp'.accepted = Pending' \cup mcp'.out
    BY <1>1, <1>5, <1>9 DEF SendsGoOutOnce
  <2> QED BY <2>1, <2>2 DEF SendsGoOutOnce
<1>12. NotYetHeard'
  BY <1>1, <1>3, <1>5, <1>9 DEF NotYetHeard
<1>13. ReadKnows' /\ ClearKnows' /\ SendKnows' /\ PollKnows' /\ FlagsKnown'
  BY <1>2, IdleIs DEF ReadKnows, ClearKnows, SendKnows, PollKnows, FlagsKnown, At
<1>14. CountsAddUp'
  BY <1>1, <1>2, <1>4, <1>5, <1>6, IdleIs, CountsKept DEF At
<1> QED BY <1>3, <1>5, <1>7, <1>8, <1>9, <1>10, <1>11, <1>12, <1>13, <1>14 DEF McpInv
-----------------------------------------------------------------------------
(* The driver's other calls. *)
LEMMA PollingIs ==
    ASSUME NEW op \in {"set_mode", "init", "deinit"}, NEW m \in OpModes
    PROVE  /\ Polling(op, m) \in Calls /\ Polling(op, m).pc = "poll"
           /\ Polling(op, m).op = op /\ Polling(op, m).mode = m /\ Polling(op, m).txif = {}
BY IdleIs DEF Polling, Calls, Places

\* The controller is asked for a mode.
LEMMA AskingSound ==
    ASSUME McpInv, call.pc = "idle", NEW op \in {"set_mode", "init", "deinit"}, NEW m \in OpModes,
           op = "set_mode" => m \in Modes, op = "init" => m \in StartModes,
           chip' = [chip EXCEPT !.reqop = m], call' = Polling(op, m),
           clearsOnRead' = clearsOnRead, bus' = bus, mcp' = mcp
    PROVE  McpInv' /\ Pending' = Pending /\ Hand' = Hand
<1>1. /\ McpTypes /\ FlagsKnown /\ CountsAddUp /\ call.txif = {} /\ chip \in Chips
  BY DEF McpInv, McpTypes, FlagsKnown
<1>2. /\ chip' \in Chips /\ chip'.rxb = chip.rxb /\ chip'.rxif = chip.rxif
      /\ chip'.txb = chip.txb /\ chip'.txreq = chip.txreq
      /\ chip'.txif = chip.txif /\ chip'.ovr = chip.ovr
  BY <1>1 DEF Chips
<1>3. /\ call' \in Calls /\ call'.pc = "poll" /\ call'.txif = {}
      /\ call'.op = op /\ call'.mode = m
  BY PollingIs
<1>4. McpTypes'
  BY <1>1, <1>2, <1>3 DEF McpTypes
<1>5. McpQuiet' /\ Pending' = Pending /\ Hand' = Hand
  BY <1>2, <1>3, QuietStep DEF Elsewhere
<1>6. PollKnows' /\ FlagsKnown'
  BY <1>3 DEF PollKnows, FlagsKnown, At
<1>7. CountsAddUp'
  BY <1>1, <1>2, <1>3, CountsKept DEF At
<1> QED BY <1>4, <1>5, <1>6, <1>7 DEF McpInv, McpQuiet

LEMMA SetModeSound ==
    ASSUME McpInv, NEW m \in Modes, SetMode(m)
    PROVE  McpInv' /\ Pending' = Pending /\ Hand' = Hand
BY AskingSound, BuffersAre DEF SetMode, At

LEMMA DeinitialiseSound ==
    ASSUME McpInv, Deinitialise
    PROVE  McpInv' /\ Pending' = Pending /\ Hand' = Hand
BY AskingSound DEF Deinitialise, At, OpModes

LEMMA BusAtResetIs == BusAtReset \in Buses /\ BusAtReset.transmitted = 0 /\ BusAtReset.rx_overflow = 0
BY BuffersAre DEF BusAtReset, Buses

LEMMA ChipAtResetIs ==
    ASSUME NEW m \in OpModes
    PROVE  /\ [ChipAtReset EXCEPT !.reqop = m] \in Chips
           /\ [ChipAtReset EXCEPT !.reqop = m].rxif = {} /\ [ChipAtReset EXCEPT !.reqop = m].txreq = {}
           /\ [ChipAtReset EXCEPT !.reqop = m].txif = {} /\ [ChipAtReset EXCEPT !.reqop = m].ovr = FALSE
BY DEF ChipAtReset, Chips, OpModes

\* A controller after its reset, before any call.
Fresh == /\ chip \in Chips /\ clearsOnRead \in BOOLEAN /\ call \in Calls
         /\ chip.rxif = {} /\ chip.txreq = {} /\ chip.txif = {} /\ chip.ovr = FALSE
         /\ bus = BusAtReset /\ mcp = NoHistory
         /\ call.txif = {} /\ call.pc \in {"idle", "poll"} /\ PollKnows

Nothing == Pending = {} /\ Hand = {}

LEMMA FreshSound == Fresh => McpInv /\ Nothing
<1> SUFFICES ASSUME Fresh PROVE McpInv /\ Nothing
  OBVIOUS
<1>0. /\ chip \in Chips /\ clearsOnRead \in BOOLEAN /\ call \in Calls
      /\ chip.rxif = {} /\ chip.txreq = {} /\ chip.txif = {} /\ chip.ovr = FALSE
      /\ bus = BusAtReset /\ mcp = NoHistory
      /\ call.txif = {} /\ call.pc \in {"idle", "poll"} /\ PollKnows
  BY DEF Fresh
<1>1. /\ mcp \in Histories /\ mcp.arrived = {} /\ mcp.returned = {} /\ mcp.returns = 0
      /\ mcp.lost = {} /\ mcp.accepted = {} /\ mcp.out = {} /\ mcp.sendings = 0
  BY <1>0 DEF NoHistory, Histories
<1>2. McpTypes
  BY <1>0, <1>1, BusAtResetIs DEF McpTypes
<1>3. Pending = {} /\ Waiting = {} /\ Hand = {} /\ InHand = {}
  BY <1>0 DEF Pending, Waiting, Hand, InHand, At
<1>4. Cardinality({}) = 0
  BY FS_EmptySet
<1>5. SendsGoOutOnce
  BY <1>0, <1>1, <1>3, <1>4 DEF SendsGoOutOnce
<1>6. McpFramesAccounted
  <2>1. Unexplained = {}
    BY <1>1 DEF Unexplained
  <2> QED BY <1>1, <1>3, <1>4, <2>1 DEF McpFramesAccounted
<1>7. CountsAddUp
  <2>1. chip.txif \ call.txif = {}
    BY <1>0
  <2>2. bus.transmitted + Cardinality(chip.txif \ call.txif) <= mcp.sendings
    BY <1>0, <1>1, <1>4, <2>1, BusAtResetIs
  <2>3. bus.rx_overflow + (IF chip.ovr /\ ~At("clear_eflg") THEN 1 ELSE 0) <= Cardinality(mcp.lost)
    BY <1>0, <1>1, <1>4, BusAtResetIs
  <2> QED BY <2>2, <2>3 DEF CountsAddUp
<1>8. /\ ReadKnows /\ ClearKnows /\ SendKnows /\ FlagsKnown
      /\ ReceivesApart /\ SendsApart /\ NotYetHeard
  BY <1>0, <1>1, <1>3 DEF ReadKnows, ClearKnows, SendKnows, FlagsKnown, At,
                    ReceivesApart, SendsApart, NotYetHeard
<1> QED BY <1>0, <1>2, <1>3, <1>5, <1>6, <1>7, <1>8 DEF McpInv, Nothing

LEMMA McpInitSound == ASSUME McpInit PROVE McpInv /\ Pending = {} /\ Hand = {}
<1>1. /\ chip = ChipAtReset /\ clearsOnRead \in BOOLEAN /\ bus = BusAtReset
      /\ call = Idle /\ mcp = NoHistory
  BY DEF McpInit
<1>2. /\ chip \in Chips /\ chip.rxif = {} /\ chip.txreq = {} /\ chip.txif = {}
      /\ chip.ovr = FALSE
  BY <1>1 DEF ChipAtReset, Chips, OpModes
<1>3. PollKnows
  BY <1>1, IdleIs DEF PollKnows, At
<1>4. Fresh
  BY <1>1, <1>2, <1>3, IdleIs DEF Fresh
<1> QED BY <1>4, FreshSound DEF Nothing

LEMMA InitialiseSound ==
    ASSUME McpInv, NEW m \in StartModes, Initialise(m)
    PROVE  McpInv' /\ Pending' = {} /\ Hand' = {} /\ mcp' = NoHistory
<1>1. /\ bus' = BusAtReset /\ chip' = [ChipAtReset EXCEPT !.reqop = m]
      /\ call' = Polling("init", m) /\ mcp' = NoHistory /\ clearsOnRead' = clearsOnRead
      /\ clearsOnRead \in BOOLEAN /\ m \in OpModes
  BY BuffersAre DEF Initialise, McpInv, McpTypes
<1>2. /\ chip' \in Chips /\ chip'.rxif = {} /\ chip'.txreq = {} /\ chip'.txif = {}
      /\ chip'.ovr = FALSE
  BY <1>1, ChipAtResetIs
<1>3. /\ call' \in Calls /\ call'.pc = "poll" /\ call'.op = "init"
      /\ call'.mode = m /\ call'.txif = {}
  BY <1>1, PollingIs
<1>4. PollKnows'
  BY <1>3 DEF PollKnows
<1>5. Fresh'
  BY <1>1, <1>2, <1>3, <1>4 DEF Fresh
<1>6. McpInv' /\ Nothing'
  BY <1>5, FreshSound, PTL
<1> QED BY <1>1, <1>6 DEF Nothing
\* Counters that are set back count no more than they did.
LEMMA CountsForgotten ==
    ASSUME McpInv, call.pc = "idle", bus' \in Buses, bus'.transmitted = 0, bus'.rx_overflow = 0,
           chip' = chip, mcp' = mcp, clearsOnRead' = clearsOnRead, call' = call
    PROVE  McpInv' /\ Pending' = Pending /\ Hand' = Hand
<1>1. /\ McpTypes /\ CountsAddUp /\ call \in Calls
      /\ chip \in Chips /\ mcp \in Histories /\ bus \in Buses
      /\ PollKnows /\ FlagsKnown
  BY DEF McpInv, McpTypes
<1>2. McpTypes'
  BY <1>1 DEF McpTypes
<1>3. McpQuiet' /\ Pending' = Pending /\ Hand' = Hand
  BY QuietStep DEF Elsewhere
<1>4. PollKnows' /\ FlagsKnown'
  BY <1>1, PlaceKept
<1>5. CountsAddUp'
  <2>1. /\ bus'.transmitted = 0 /\ bus'.rx_overflow = 0
        /\ bus.transmitted \in Nat /\ bus.rx_overflow \in Nat /\ mcp.sendings \in Nat
        /\ Cardinality(mcp.lost) \in Nat /\ Cardinality(chip.txif \ call.txif) \in Nat
    <3>1. mcp.lost \subseteq Frames /\ chip.txif \ call.txif \subseteq Txb
      BY <1>1 DEF Histories, Chips
    <3>2. Cardinality(mcp.lost) \in Nat /\ Cardinality(chip.txif \ call.txif) \in Nat
      BY <3>1, Counting
    <3> QED BY <1>1, <3>2 DEF Buses, Histories
  <2>2. 0 + Cardinality(chip.txif \ call.txif) <= mcp.sendings
    <3>1. bus.transmitted + Cardinality(chip.txif \ call.txif) <= mcp.sendings
      BY <1>1 DEF CountsAddUp
    <3> QED BY <2>1, <3>1
  <2>3. 0 + (IF chip.ovr /\ ~At("clear_eflg") THEN 1 ELSE 0) <= Cardinality(mcp.lost)
    <3> DEFINE bit == IF chip.ovr /\ ~At("clear_eflg") THEN 1 ELSE 0
    <3>1. bus.rx_overflow + bit <= Cardinality(mcp.lost) /\ bit \in Nat
      BY <1>1, Zenon DEF CountsAddUp
    <3> HIDE DEF bit
    <3>2. 0 + bit <= Cardinality(mcp.lost)
      BY <2>1, <3>1
    <3> QED BY <3>2 DEF bit
  <2>4. At("clear_eflg")' = At("clear_eflg")
    BY DEF At
  <2> QED BY <2>1, <2>2, <2>3, <2>4, Zenon DEF CountsAddUp
<1> QED BY <1>2, <1>3, <1>4, <1>5 DEF McpInv, McpQuiet

LEMMA FindsNothingSound ==
    ASSUME McpInv, InitialiseFindsNothing
    PROVE  McpInv' /\ Pending' = Pending /\ Hand' = Hand
BY CountsForgotten, BusAtResetIs DEF InitialiseFindsNothing, At

LEMMA ClearStatsSound ==
    ASSUME McpInv, ClearStats
    PROVE  McpInv' /\ Pending' = Pending /\ Hand' = Hand
<1>1. bus \in Buses /\ call.pc = "idle"
  BY DEF McpInv, McpTypes, ClearStats, At
<1>2. /\ bus' = [bus EXCEPT !.received = 0, !.transmitted = 0, !.rx_overflow = 0]
      /\ chip' = chip /\ mcp' = mcp /\ clearsOnRead' = clearsOnRead /\ call' = call
  BY DEF ClearStats
<1>3. bus' \in Buses /\ bus'.transmitted = 0 /\ bus'.rx_overflow = 0
  BY <1>1, <1>2 DEF Buses
<1> QED BY <1>1, <1>2, <1>3, CountsForgotten

LEMMA PollModeSound ==
    ASSUME McpInv, PollMode
    PROVE  McpInv' /\ Pending' = Pending /\ Hand' = Hand
<1>1. /\ McpTypes /\ CountsAddUp /\ call.pc = "poll" /\ call \in Calls /\ call.txif = {}
      /\ chip \in Chips /\ mcp \in Histories /\ bus \in Buses /\ PollKnows
  BY DEF McpInv, McpTypes, PollMode, At, FlagsKnown
<1>2. /\ bus' = ModeResult(chip.opmode = call.mode) /\ call' = Idle
      /\ chip' = chip /\ mcp' = mcp /\ clearsOnRead' = clearsOnRead
  BY DEF PollMode
<1>3. /\ bus' \in Buses /\ bus'.transmitted = bus.transmitted
      /\ bus'.rx_overflow = bus.rx_overflow
  <2>1. \/ bus' = [bus EXCEPT !.initialised = FALSE]
        \/ call.op = "init" /\ bus' = [bus EXCEPT !.initialised = TRUE, !.mode = call.mode]
        \/ call.op = "set_mode" /\ bus' = [bus EXCEPT !.mode = call.mode]
        \/ bus' = bus
    BY <1>2 DEF ModeResult
  <2>2. /\ call.op = "init" => call.mode \in StartModes
        /\ call.op = "set_mode" => call.mode \in Modes
    BY <1>1 DEF PollKnows, At
  <2> QED BY <1>1, <2>1, <2>2 DEF Buses
<1>4. McpTypes'
  BY <1>1, <1>2, <1>3, IdleIs DEF McpTypes
<1>5. McpQuiet' /\ Pending' = Pending /\ Hand' = Hand
  BY <1>1, <1>2, QuietStep, IdleIs DEF Elsewhere
<1>6. PollKnows' /\ FlagsKnown'
  BY <1>2, IdleIs DEF PollKnows, FlagsKnown, At
<1>7. CountsAddUp'
  BY <1>1, <1>2, <1>3, CountsKept, IdleIs DEF At
<1> QED BY <1>4, <1>5, <1>6, <1>7 DEF McpInv, McpQuiet
-----------------------------------------------------------------------------
(***************************************************************************)
(* The can_bus_t and its queue.                                            *)
(***************************************************************************)
\* Consecutive numbers: bytes of the queue, or of a record.
Run(a, n) == [i \in 1..n |-> a + i]

LEMMA RunGrows ==
    ASSUME NEW a \in Nat, NEW m \in Nat, NEW n \in Nat
    PROVE  /\ Run(a, n) \in Seq(Nat) /\ Len(Run(a, n)) = n
           /\ Run(a, m) \o Run(a + m, n) = Run(a, m + n)
BY DEF Run

LEMMA RunShrinks ==
    ASSUME NEW a \in Nat, NEW m \in Nat, NEW n \in 0..m
    PROVE  /\ SubSeq(Run(a, m), 1, n) = Run(a, n)
           /\ SubSeq(Run(a, m), n + 1, m) = Run(a + n, m - n)
BY DEF Run

\* Records are multiples of RecordSize.
LEMMA Multiples ==
    ASSUME NEW n \in Nat
    PROVE  /\ RecordSize * n \in Nat
           /\ (RecordSize * n) \div RecordSize = n
           /\ (RecordSize * n) % RecordSize = 0
BY QueueAssumption

LEMMA MultiplesGrow ==
    ASSUME NEW m \in Nat, NEW n \in Nat
    PROVE  /\ RecordSize * (m + n) = RecordSize * m + RecordSize * n
           /\ RecordSize * m <= RecordSize * n <=> m <= n
BY QueueAssumption

LEMMA OneRecord ==
    /\ RecordSize \in Nat \ {0} /\ RecordSize * 1 = RecordSize
    /\ \A n \in Nat : RecordSize * n >= RecordSize => n >= 1
BY QueueAssumption

LEMMA OneMore ==
    ASSUME NEW n \in Nat PROVE RecordSize * (n + 1) = RecordSize * n + RecordSize
BY QueueAssumption

LEMMA Appended ==
    ASSUME NEW S, NEW s \in Seq(S), NEW x \in S
    PROVE  /\ Append(s, x) \in Seq(S) /\ Len(Append(s, x)) = Len(s) + 1
           /\ Append(s, x)[Len(s) + 1] = x
           /\ \A i \in 1..Len(s) : Append(s, x)[i] = s[i]
           /\ ToSet(Append(s, x)) = ToSet(s) \cup {x}
BY DEF ToSet

Busses == [active : BOOLEAN, rejects : FilterSets \cup {{}}, dropped : Nat,
           filtered : Nat, controller_errors : Nat]

CanLogs == [arrived : SUBSET Frames, queued : Seq(Frames), returned : Seq(Frames), cleared : Nat]

Calling == [op : {"none", "pop", "clear"}, bytes : Nat]

CanTypes == /\ can \in Busses /\ canLog \in CanLogs /\ reading \in Calling
            /\ accepted \in Nat
            /\ txq \in Seq(Frames) /\ Len(txq) <= TxSlots
            /\ NotInCall => reading.bytes = 0

\* The records in the queue, and those that have left it.
Records == Len(queue) \div RecordSize
Taken == Len(canLog.returned) + canLog.cleared

\* The ring holds whole records: the last of those that were queued.
QueueHolds == /\ queue \in Seq(Nat) /\ Len(queue) <= RxBytes
              /\ Len(queue) = RecordSize * Records
              /\ Len(canLog.queued) = Taken + Records
              /\ queue = Run(RecordSize * Taken, Len(queue))
              /\ accepted = RecordSize * Len(canLog.queued)

\* What the call in progress has read is still at the head of the queue.
PopKnows == reading.op = "pop" => /\ reading.bytes = RecordSize /\ Records >= 1
                                  /\ record = Run(RecordSize * Taken, RecordSize)

EmptyKnows == reading.op = "clear" => \E n \in Nat : /\ reading.bytes = RecordSize * n
                                                      /\ n <= Records

\* A frame is queued once, and returned from where it was queued.
QueuedOnce == /\ ToSet(canLog.queued) \subseteq canLog.arrived
              /\ IsInjective(canLog.queued)

TakenInOrder ==
    \E at \in [1..Len(canLog.returned) -> 1..Taken] :
        \A i, j \in 1..Len(canLog.returned) :
            /\ canLog.returned[i] = canLog.queued[at[i]]
            /\ i < j => at[i] < at[j]

ArrivalsCounted ==
    Cardinality(canLog.arrived) =
        Len(canLog.queued) + can.dropped + can.filtered + can.controller_errors

CanInv == /\ CanTypes /\ QueueHolds /\ PopKnows /\ EmptyKnows
          /\ QueuedOnce /\ TakenInOrder /\ ArrivalsCounted
          /\ IsInjective(txq)

LEMMA CanInvImplies == CanInv => CanTypeOK /\ CanFramesAccounted
<1> SUFFICES ASSUME CanInv PROVE CanTypeOK /\ CanFramesAccounted
  OBVIOUS
<1>1. /\ can \in Busses /\ canLog \in CanLogs /\ reading \in Calling /\ accepted \in Nat
      /\ txq \in Seq(Frames) /\ Len(txq) <= TxSlots /\ (NotInCall => reading.bytes = 0)
      /\ canLog.queued \in Seq(Frames) /\ canLog.returned \in Seq(Frames)
      /\ canLog.cleared \in Nat
  BY DEF CanInv, CanTypes, CanLogs
<1>2. /\ queue \in Seq(Nat) /\ Len(queue) <= RxBytes /\ Len(queue) = RecordSize * Records
      /\ Len(canLog.queued) = Taken + Records /\ Len(queue) \in Nat
      /\ Records \in Nat /\ Taken \in Nat
  <2>1. Records \in Nat
    BY OneRecord DEF CanInv, QueueHolds, Records
  <2> QED BY <2>1, <1>1 DEF CanInv, QueueHolds, Taken
<1>3. reading.bytes \in 0..RxBytes
  <2>1. RxBytes \in Nat /\ reading.bytes \in Nat
    BY <1>1, QueueAssumption DEF Calling
  <2>2. CASE reading.op = "none"
    <3>1. reading.bytes = 0
      BY <1>1, <2>2, Zenon DEF NotInCall
    <3> QED BY <2>1, <3>1
  <2>3. CASE reading.op = "pop"
    <3>1. reading.bytes = RecordSize
      BY <2>3 DEF CanInv, PopKnows
    <3> QED BY <2>1, <3>1, QueueAssumption
  <2>4. CASE reading.op = "clear"
    <3>1. PICK n \in Nat : reading.bytes = RecordSize * n /\ n <= Records
      BY <2>4 DEF CanInv, EmptyKnows
    <3>2. RecordSize * n <= RecordSize * Records
      BY <1>2, <3>1, MultiplesGrow
    <3> QED BY <1>2, <2>1, <3>1, <3>2, Multiples
  <2> QED BY <1>1, <2>2, <2>3, <2>4 DEF Calling
<1>4. CanTypeOK
  <2>1. reading.op \in {"none", "pop", "clear"}
    BY <1>1 DEF Calling
  <2> QED BY <1>1, <1>2, <1>3, <2>1, Zenon DEF CanTypeOK, Busses
<1>5. PICK at \in [1..Len(canLog.returned) -> 1..Taken] :
          \A i, j \in 1..Len(canLog.returned) :
              /\ canLog.returned[i] = canLog.queued[at[i]]
              /\ i < j => at[i] < at[j]
  BY DEF CanInv, TakenInOrder
<1>6. /\ DOMAIN canLog.returned = 1..Len(canLog.returned)
      /\ DOMAIN canLog.queued = 1..Len(canLog.queued)
      /\ Len(canLog.returned) \in Nat
  BY <1>1
<1>7. 1..Taken \subseteq DOMAIN canLog.queued
  BY <1>2, <1>6
<1>8. at \in [DOMAIN canLog.returned -> DOMAIN canLog.queued]
  BY <1>6, <1>7
<1>9. ReturnedInOrder
  BY <1>5, <1>6, <1>8, Zenon DEF ReturnedInOrder
<1>10. Torn \notin ToSet(canLog.returned)
  <2>1. Torn \notin Frames
    BY FramesAssumption, FS_CardinalityType DEF Torn
  <2> QED BY <1>1, <2>1 DEF ToSet
<1>11. IsInjective(canLog.returned)
  <2> SUFFICES ASSUME NEW i \in DOMAIN canLog.returned, NEW j \in DOMAIN canLog.returned,
                      canLog.returned[i] = canLog.returned[j]
               PROVE  i = j
    BY Zenon DEF IsInjective
  <2>1. at[i] = at[j]
    <3>1. canLog.queued[at[i]] = canLog.queued[at[j]]
      BY <1>5, <1>6
    <3>2. at[i] \in DOMAIN canLog.queued /\ at[j] \in DOMAIN canLog.queued
      BY <1>8
    <3>3. IsInjective(canLog.queued)
      BY DEF CanInv, QueuedOnce
    <3> QED BY <3>1, <3>2, <3>3, Zenon DEF IsInjective
  <2>2. i \in Nat /\ j \in Nat /\ at[i] \in Nat /\ at[j] \in Nat
    BY <1>5, <1>6
  <2> QED BY <1>5, <1>6, <2>1, <2>2
<1>12. /\ Len(queue) % RecordSize = 0
       /\ Len(canLog.queued) =
             Len(canLog.returned) + canLog.cleared + Len(queue) \div RecordSize
  BY <1>2, Multiples DEF Records, Taken
<1> QED BY <1>4, <1>9, <1>10, <1>11, <1>12 DEF CanFramesAccounted, CanInv, ArrivalsCounted
\* Steps that leave the ring, and what was read from it, alone.
RingUntouched == /\ UNCHANGED <<rxVars, reading>>
                 /\ canLog'.queued = canLog.queued /\ canLog'.returned = canLog.returned
                 /\ canLog'.cleared = canLog.cleared

LEMMA RingKept ==
    ASSUME CanInv, RingUntouched
    PROVE  /\ QueueHolds' /\ PopKnows' /\ EmptyKnows' /\ TakenInOrder'
           /\ accepted' \in Nat /\ reading' \in Calling /\ NotInCall' = NotInCall
<1>1. /\ queue' = queue /\ accepted' = accepted /\ record' = record /\ reading' = reading
      /\ canLog'.queued = canLog.queued /\ canLog'.returned = canLog.returned
      /\ canLog'.cleared = canLog.cleared
  BY DEF RingUntouched, rxVars
<1>2. Taken' = Taken /\ Records' = Records /\ NotInCall' = NotInCall
  BY <1>1 DEF Taken, Records, NotInCall
<1>3. QueueHolds'
  BY <1>1, <1>2 DEF CanInv, QueueHolds
<1>4. PopKnows' /\ EmptyKnows'
  BY <1>1, <1>2 DEF CanInv, PopKnows, EmptyKnows
<1>5. TakenInOrder'
  BY <1>1, <1>2, Zenon DEF CanInv, TakenInOrder
<1>6. accepted' \in Nat /\ reading' \in Calling
  BY <1>1 DEF CanInv, CanTypes
<1> QED BY <1>2, <1>3, <1>4, <1>5, <1>6

Counters == {"dropped", "filtered", "controller_errors"}

LEMMA CountedSound ==
    ASSUME CanInv, NEW f \in Frames, f \notin canLog.arrived, NEW counter \in Counters,
           can' = [can EXCEPT ![counter] = @ + 1],
           canLog' = [canLog EXCEPT !.arrived = @ \cup {f}],
           UNCHANGED <<rxVars, reading, txq>>
    PROVE  CanInv' /\ canLog'.arrived = canLog.arrived \cup {f}
<1>1. /\ can \in Busses /\ canLog \in CanLogs /\ CanTypes
      /\ QueuedOnce /\ ArrivalsCounted /\ IsInjective(txq)
  BY DEF CanInv, CanTypes
<1>2. /\ canLog' \in CanLogs /\ canLog'.arrived = canLog.arrived \cup {f}
      /\ canLog'.queued = canLog.queued /\ canLog'.returned = canLog.returned
      /\ canLog'.cleared = canLog.cleared
  BY <1>1 DEF CanLogs
<1>3. /\ can' \in Busses
      /\ can'.dropped + can'.filtered + can'.controller_errors
            = can.dropped + can.filtered + can.controller_errors + 1
  <2>1. CASE counter = "dropped"
    BY <1>1, <2>1 DEF Busses
  <2>2. CASE counter = "filtered"
    BY <1>1, <2>2 DEF Busses
  <2>3. CASE counter = "controller_errors"
    BY <1>1, <2>3 DEF Busses
  <2> QED BY <2>1, <2>2, <2>3 DEF Counters
<1>4. RingUntouched
  BY <1>2 DEF RingUntouched
<1>5. /\ QueueHolds' /\ PopKnows' /\ EmptyKnows' /\ TakenInOrder'
      /\ accepted' \in Nat /\ reading' \in Calling /\ NotInCall' = NotInCall
  BY <1>4, RingKept
<1>6. CanTypes'
  BY <1>1, <1>2, <1>3, <1>5 DEF CanTypes
<1>7. QueuedOnce'
  BY <1>1, <1>2 DEF QueuedOnce
<1>8. ArrivalsCounted'
  <2>1. Cardinality(canLog.arrived \cup {f}) = Cardinality(canLog.arrived) + 1
    BY <1>1, Counting DEF CanLogs
  <2>2. Len(canLog.queued) \in Nat
    BY <1>1 DEF CanLogs
  <2>3. /\ can.dropped \in Nat /\ can.filtered \in Nat /\ can.controller_errors \in Nat
        /\ can'.dropped \in Nat /\ can'.filtered \in Nat /\ can'.controller_errors \in Nat
    BY <1>1, <1>3 DEF Busses
  <2>4. /\ Cardinality(canLog'.arrived) = Cardinality(canLog.arrived) + 1
        /\ Len(canLog'.queued) = Len(canLog.queued)
    BY <1>2, <2>1
  <2>5. Cardinality(canLog.arrived)
            = Len(canLog.queued) + can.dropped + can.filtered + can.controller_errors
    BY <1>1 DEF ArrivalsCounted
  <2>6. Cardinality(canLog'.arrived)
            = Len(canLog'.queued) + can'.dropped + can'.filtered + can'.controller_errors
    <3> DEFINE k == Cardinality(canLog.arrived)
               q == Len(canLog.queued)
               a == can.dropped
               b == can.filtered
               c == can.controller_errors
               x == can'.dropped
               y == can'.filtered
               z == can'.controller_errors
    <3>1. k \in Nat
      BY <1>1, Counting DEF CanLogs
    <3>2. /\ q \in Nat /\ a \in Nat /\ b \in Nat /\ c \in Nat
          /\ x \in Nat /\ y \in Nat /\ z \in Nat
      BY <2>2, <2>3
    <3>3. k = q + a + b + c
      BY <2>5, Zenon
    <3>4. x + y + z = a + b + c + 1
      BY <1>3, Zenon
    <3> HIDE DEF k, q, a, b, c, x, y, z
    <3>5. k + 1 = q + x + y + z
      BY <3>1, <3>2, <3>3, <3>4
    <3> QED BY <2>4, <3>5, Zenon DEF k, q, x, y, z
  <2> QED BY <2>6 DEF ArrivalsCounted
<1>9. IsInjective(txq')
  BY <1>1
<1> QED BY <1>2, <1>5, <1>6, <1>7, <1>8, <1>9 DEF CanInv
\* What is known of the ring, in numbers.
LEMMA RingIs ==
    ASSUME CanInv
    PROVE  /\ Records \in Nat /\ Taken \in Nat
           /\ Len(canLog.returned) \in Nat /\ Len(canLog.queued) \in Nat
           /\ canLog.cleared \in Nat
           /\ queue \in Seq(Nat) /\ Len(queue) \in Nat /\ Len(queue) <= RxBytes
           /\ Len(queue) = RecordSize * Records
           /\ Len(canLog.queued) = Taken + Records
           /\ queue = Run(RecordSize * Taken, RecordSize * Records)
           /\ accepted = RecordSize * Len(canLog.queued)
           /\ accepted = RecordSize * Taken + RecordSize * Records
<1>1. /\ canLog.queued \in Seq(Frames) /\ canLog.returned \in Seq(Frames)
      /\ canLog.cleared \in Nat
  BY DEF CanInv, CanTypes, CanLogs
<1>2. /\ queue \in Seq(Nat) /\ Len(queue) <= RxBytes /\ Len(queue) = RecordSize * Records
      /\ Len(canLog.queued) = Taken + Records
      /\ accepted = RecordSize * Len(canLog.queued)
  BY DEF CanInv, QueueHolds
<1>3. queue = Run(RecordSize * Taken, RecordSize * Records)
  BY <1>2, Zenon DEF CanInv, QueueHolds
<1>4. Records \in Nat /\ Taken \in Nat
  BY <1>1, <1>2, OneRecord DEF Records, Taken
<1>5. RecordSize * (Taken + Records) = RecordSize * Taken + RecordSize * Records
  BY <1>4, MultiplesGrow
<1> QED BY <1>1, <1>2, <1>3, <1>4, <1>5

LEMMA StaysInjective ==
    ASSUME NEW S, NEW s \in Seq(S), NEW x \in S, x \notin ToSet(s), IsInjective(s)
    PROVE  IsInjective(Append(s, x))
<1> SUFFICES ASSUME NEW i \in DOMAIN Append(s, x), NEW j \in DOMAIN Append(s, x),
                    Append(s, x)[i] = Append(s, x)[j]
             PROVE  i = j
  BY Zenon DEF IsInjective
<1>1. \A k \in 1..Len(s) : s[k] \in ToSet(s)
  BY DEF ToSet
<1>2. \A k, l \in 1..Len(s) : s[k] = s[l] => k = l
  BY DEF IsInjective
<1> QED BY <1>1, <1>2
\* A frame that is queued: one record more.
LEMMA QueuedSound ==
    ASSUME CanInv, NEW f \in Frames, f \notin canLog.arrived,
           Rx!Accept(RecordSize),
           canLog' = [canLog EXCEPT !.arrived = @ \cup {f}, !.queued = Append(@, f)],
           UNCHANGED <<can, reading, txq>>
    PROVE  CanInv' /\ canLog'.arrived = canLog.arrived \cup {f}
<1>1. /\ can \in Busses /\ canLog \in CanLogs /\ CanTypes /\ reading \in Calling
      /\ QueuedOnce /\ ArrivalsCounted /\ IsInjective(txq)
      /\ canLog.queued \in Seq(Frames)
  BY DEF CanInv, CanTypes, CanLogs
<1>2. /\ canLog' \in CanLogs /\ canLog'.arrived = canLog.arrived \cup {f}
      /\ canLog'.queued = Append(canLog.queued, f)
      /\ canLog'.returned = canLog.returned /\ canLog'.cleared = canLog.cleared
  <2> DEFINE A == canLog.arrived \cup {f}
             Q == Append(canLog.queued, f)
  <2>1. A \in SUBSET Frames
    BY <1>1 DEF CanLogs
  <2>2. Q \in Seq(Frames)
    BY <1>1, Appended
  <2>3. canLog' = [canLog EXCEPT !.arrived = A, !.queued = Q]
    BY Zenon
  <2> HIDE DEF A, Q
  <2>4. /\ canLog' \in CanLogs /\ canLog'.arrived = A /\ canLog'.queued = Q
        /\ canLog'.returned = canLog.returned /\ canLog'.cleared = canLog.cleared
    BY <1>1, <2>1, <2>2, <2>3 DEF CanLogs
  <2> QED BY <2>4, Zenon DEF A, Q
<1>3. /\ can' = can /\ reading' = reading /\ txq' = txq /\ NotInCall' = NotInCall
  BY DEF NotInCall
<1>4. /\ RecordSize <= RxBytes - Len(queue) /\ record' = record
      /\ queue' = queue \o Run(accepted, RecordSize)
      /\ accepted' = accepted + RecordSize
  BY DEF Rx!Accept, Run
<1>5. Taken' = Taken
  BY <1>2 DEF Taken
<1>6. /\ Len(canLog'.queued) = Len(canLog.queued) + 1
      /\ canLog'.queued[Len(canLog.queued) + 1] = f
      /\ \A i \in 1..Len(canLog.queued) : canLog'.queued[i] = canLog.queued[i]
      /\ ToSet(canLog'.queued) = ToSet(canLog.queued) \cup {f}
  BY <1>1, <1>2, Appended
<1>7. /\ queue' = Run(RecordSize * Taken, RecordSize * (Records + 1))
      /\ accepted' = RecordSize * (Len(canLog.queued) + 1)
  <2>1. /\ RecordSize * (Records + 1) = RecordSize * Records + RecordSize
        /\ RecordSize * (Len(canLog.queued) + 1) = RecordSize * Len(canLog.queued) + RecordSize
    BY RingIs, OneMore
  <2>2. /\ RecordSize * Taken \in Nat /\ RecordSize * Records \in Nat /\ RecordSize \in Nat
    BY RingIs, Multiples, OneRecord
  <2>3. Run(RecordSize * Taken, RecordSize * Records)
            \o Run(RecordSize * Taken + RecordSize * Records, RecordSize)
            = Run(RecordSize * Taken, RecordSize * Records + RecordSize)
    BY <2>2, RunGrows
  <2> QED BY <1>4, <2>1, <2>3, RingIs, Zenon
<1>8. /\ Len(queue') = RecordSize * (Records + 1) /\ queue' \in Seq(Nat)
      /\ Records' = Records + 1 /\ Records + 1 \in Nat
  <2>1. Records + 1 \in Nat
    BY RingIs
  <2>2. RecordSize * Taken \in Nat /\ RecordSize * (Records + 1) \in Nat
    BY <2>1, RingIs, Multiples
  <2>3. Len(queue') = RecordSize * (Records + 1) /\ queue' \in Seq(Nat)
    BY <1>7, <2>2, RunGrows
  <2>4. Records' = Records + 1
    BY <2>1, <2>3, Multiples DEF Records
  <2> QED BY <2>1, <2>3, <2>4
<1>9. QueueHolds'
  <2>1. Len(queue') <= RxBytes
    <3>1. Len(queue') = RecordSize * Records + RecordSize
      BY <1>8, RingIs, OneMore
    <3> QED BY <3>1, <1>4, RingIs, OneRecord, QueueAssumption
  <2>2. Len(canLog'.queued) = Taken' + Records'
    BY <1>5, <1>6, <1>8, RingIs
  <2>3. queue' = Run(RecordSize * Taken', Len(queue'))
    BY <1>5, <1>7, <1>8, Zenon
  <2>4. accepted' = RecordSize * Len(canLog'.queued)
    BY <1>6, <1>7, Zenon
  <2>5. Len(queue') = RecordSize * Records'
    BY <1>8, Zenon
  <2> QED BY <1>8, <2>1, <2>2, <2>3, <2>4, <2>5, Zenon DEF QueueHolds
<1>10. PopKnows'
  <2>1. Records >= 1 => Records' >= 1
    BY <1>8, RingIs
  <2> QED BY <1>3, <1>4, <1>5, <2>1 DEF CanInv, PopKnows
<1>11. EmptyKnows'
  <2> SUFFICES ASSUME reading.op = "clear"
               PROVE  \E n \in Nat : reading.bytes = RecordSize * n /\ n <= Records'
    BY <1>3, Zenon DEF EmptyKnows
  <2>1. PICK n \in Nat : reading.bytes = RecordSize * n /\ n <= Records
    BY DEF CanInv, EmptyKnows
  <2>2. n <= Records'
    BY <1>8, <2>1, RingIs
  <2> QED BY <2>1, <2>2
<1>12. QueuedOnce'
  <2>1. f \notin ToSet(canLog.queued)
    BY <1>1 DEF QueuedOnce
  <2>2. IsInjective(canLog'.queued)
    BY <1>1, <1>2, <2>1, StaysInjective DEF QueuedOnce
  <2> QED BY <1>1, <1>2, <1>6, <2>2 DEF QueuedOnce
<1>13. TakenInOrder'
  <2>1. PICK at \in [1..Len(canLog.returned) -> 1..Taken] :
            \A i, j \in 1..Len(canLog.returned) :
                /\ canLog.returned[i] = canLog.queued[at[i]]
                /\ i < j => at[i] < at[j]
    BY DEF CanInv, TakenInOrder
  <2>2. \A k \in 1..Taken : canLog'.queued[k] = canLog.queued[k]
    BY <1>6, RingIs
  <2>3. \A i, j \in 1..Len(canLog.returned) :
            /\ canLog.returned[i] = canLog'.queued[at[i]]
            /\ i < j => at[i] < at[j]
    BY <2>1, <2>2
  <2>4. canLog'.returned = canLog.returned
    BY <1>2
  <2>5. at \in [1..Len(canLog'.returned) -> 1..Taken']
    BY <1>5, <2>1, <2>4
  <2>6. \A i, j \in 1..Len(canLog'.returned) :
            /\ canLog'.returned[i] = canLog'.queued[at[i]]
            /\ i < j => at[i] < at[j]
    BY <2>3, <2>4
  <2> QED BY <2>5, <2>6, Zenon DEF TakenInOrder
<1>14. ArrivalsCounted'
  <2> DEFINE k == Cardinality(canLog.arrived)
             q == Len(canLog.queued)
             a == can.dropped
             b == can.filtered
             c == can.controller_errors
  <2>1. k \in Nat /\ Cardinality(canLog'.arrived) = k + 1
    BY <1>1, <1>2, Counting DEF CanLogs
  <2>2. q \in Nat /\ a \in Nat /\ b \in Nat /\ c \in Nat
    BY <1>1 DEF Busses
  <2>3. k = q + a + b + c
    BY <1>1, Zenon DEF ArrivalsCounted
  <2>4. Len(canLog'.queued) = q + 1
    BY <1>6
  <2> HIDE DEF k, q, a, b, c
  <2>5. k + 1 = (q + 1) + a + b + c
    BY <2>1, <2>2, <2>3
  <2> QED BY <1>3, <2>1, <2>4, <2>5, Zenon DEF ArrivalsCounted, a, b, c
<1>15. CanTypes'
  <2>1. accepted' \in Nat
    <3>1. Len(canLog.queued) + 1 \in Nat
      BY RingIs
    <3> QED BY <1>7, <3>1, Multiples
  <2> QED BY <1>1, <1>2, <1>3, <2>1 DEF CanTypes
<1>16. IsInjective(txq')
  BY <1>1, <1>3
<1> QED BY <1>2, <1>9, <1>10, <1>11, <1>12, <1>13, <1>14, <1>15, <1>16 DEF CanInv
\* Steps that change can2040's transmit queue, the bus's activity, or neither.
LEMMA RestKept ==
    ASSUME CanInv, UNCHANGED <<rxVars, reading, canLog>>,
           can' \in Busses, can'.dropped = can.dropped, can'.filtered = can.filtered,
           can'.controller_errors = can.controller_errors,
           txq' \in Seq(Frames), Len(txq') <= TxSlots, IsInjective(txq')
    PROVE  CanInv'
<1>1. canLog' = canLog /\ canLog \in CanLogs /\ QueuedOnce /\ ArrivalsCounted /\ CanTypes
  BY DEF CanInv, CanTypes
<1>2. RingUntouched
  BY DEF RingUntouched
<1>3. /\ QueueHolds' /\ PopKnows' /\ EmptyKnows' /\ TakenInOrder'
      /\ accepted' \in Nat /\ reading' \in Calling /\ NotInCall' = NotInCall
  BY <1>2, RingKept
<1>4. reading' = reading
  OBVIOUS
<1>5. CanTypes'
  BY <1>1, <1>3, <1>4 DEF CanTypes
<1>6. QueuedOnce'
  BY <1>1 DEF QueuedOnce
<1>7. ArrivalsCounted'
  BY <1>1, Zenon DEF ArrivalsCounted
<1> QED BY <1>3, <1>5, <1>6, <1>7 DEF CanInv

LEMMA CanKept ==
    ASSUME CanInv, UNCHANGED canVars
    PROVE  CanInv' /\ canLog'.arrived = canLog.arrived /\ txq' = txq
<1>1. UNCHANGED <<rxVars, reading, canLog>> /\ can' = can /\ txq' = txq
  BY DEF canVars, rxVars
<1> QED BY <1>1, RestKept DEF CanInv, CanTypes

LEMMA CallbackSound ==
    ASSUME CanInv, NEW f \in Frames, f \notin canLog.arrived, Callback(f)
    PROVE  CanInv' /\ canLog'.arrived \subseteq canLog.arrived \cup {f} /\ txq' = txq
<1>1. reading' = reading /\ txq' = txq
  BY DEF Callback
<1>2. CASE ~can.active
  <2>1. UNCHANGED canVars
    BY <1>2 DEF Callback, canVars, rxVars
  <2> QED BY <2>1, CanKept
<1>3. CASE can.active /\ f \in can.rejects
  <2>1. Counted("filtered", f)
    BY <1>3 DEF Callback
  <2> QED BY <1>1, <2>1, CountedSound DEF Counted, Counters
<1>4. CASE can.active /\ f \notin can.rejects
  <2>1. Push(f)
    BY <1>4 DEF Callback
  <2>2. CASE RxBytes - Len(queue) < RecordSize
    <3>1. Counted("dropped", f)
      BY <2>1, <2>2 DEF Push, Counted
    <3> QED BY <1>1, <3>1, CountedSound DEF Counted, Counters
  <2>3. CASE ~(RxBytes - Len(queue) < RecordSize)
    BY <1>1, <2>1, <2>3, QueuedSound DEF Push
  <2> QED BY <2>2, <2>3
<1> QED BY <1>2, <1>3, <1>4

LEMMA CallbackErrorSound ==
    ASSUME CanInv, NEW f \in Frames, f \notin canLog.arrived, CallbackError(f)
    PROVE  CanInv' /\ canLog'.arrived \subseteq canLog.arrived \cup {f} /\ txq' = txq
BY CountedSound DEF CallbackError, Counted, Counters

LEMMA TxCompletesSound ==
    ASSUME CanInv, TxCompletes
    PROVE  /\ CanInv' /\ canLog' = canLog
           /\ Head(txq) \in ToSet(txq) /\ Head(txq) \notin ToSet(txq')
           /\ ToSet(txq') \subseteq ToSet(txq) /\ Head(txq) \in Frames
<1>1. /\ txq \in Seq(Frames) /\ txq # <<>> /\ txq' = Tail(txq) /\ Len(txq) <= TxSlots
      /\ can \in Busses /\ IsInjective(txq)
      /\ can' = can /\ UNCHANGED <<rxVars, reading, canLog>>
  BY DEF CanInv, CanTypes, TxCompletes
<1>2. \A i, j \in 1..Len(txq) : txq[i] = txq[j] => i = j
  BY <1>1 DEF IsInjective
<1>3. /\ Tail(txq) \in Seq(Frames) /\ Len(Tail(txq)) = Len(txq) - 1
      /\ \A i \in 1..Len(Tail(txq)) : i + 1 \in 1..Len(txq) /\ Tail(txq)[i] = txq[i + 1]
      /\ DOMAIN Tail(txq) = 1..Len(Tail(txq)) /\ Len(txq) \in Nat \ {0}
      /\ Head(txq) = txq[1] /\ 1 \in DOMAIN txq
  BY <1>1
<1>4. IsInjective(Tail(txq))
  BY <1>2, <1>3 DEF IsInjective
<1>5. CanInv'
  BY <1>1, <1>3, <1>4, QueueAssumption, RestKept
<1>6. /\ Head(txq) \in ToSet(txq) /\ Head(txq) \notin ToSet(Tail(txq))
      /\ ToSet(Tail(txq)) \subseteq ToSet(txq) /\ Head(txq) \in Frames
  BY <1>1, <1>2, <1>3 DEF ToSet
<1> QED BY <1>1, <1>5, <1>6

LEMMA CanSendSound ==
    ASSUME CanInv, NEW f \in Frames, f \notin ToSet(txq), CanSend(f)
    PROVE  CanInv' /\ canLog' = canLog /\ ToSet(txq') = ToSet(txq) \cup {f}
<1>1. /\ txq \in Seq(Frames) /\ txq' = Append(txq, f) /\ Len(txq) < TxSlots
      /\ can \in Busses /\ IsInjective(txq)
      /\ can' = can /\ UNCHANGED <<rxVars, reading, canLog>>
  BY DEF CanInv, CanTypes, CanSend
<1>2. /\ txq' \in Seq(Frames) /\ Len(txq') = Len(txq) + 1
      /\ ToSet(txq') = ToSet(txq) \cup {f}
  BY <1>1, Appended
<1>3. IsInjective(txq')
  BY <1>1, StaysInjective
<1>4. Len(txq') <= TxSlots
  BY <1>1, <1>2, QueueAssumption
<1> QED BY <1>1, <1>2, <1>3, <1>4, RestKept

LEMMA CanStopSound ==
    ASSUME CanInv, CanStop
    PROVE  CanInv' /\ canLog' = canLog /\ ToSet(txq') = {}
<1>1. /\ can \in Busses /\ can' = [can EXCEPT !.active = FALSE] /\ txq' = <<>>
      /\ UNCHANGED <<rxVars, reading, canLog>>
  BY DEF CanInv, CanTypes, CanStop
<1>2. /\ can' \in Busses /\ can'.dropped = can.dropped /\ can'.filtered = can.filtered
      /\ can'.controller_errors = can.controller_errors
  BY <1>1 DEF Busses
<1>3. txq' \in Seq(Frames) /\ Len(txq') <= TxSlots /\ IsInjective(txq') /\ ToSet(txq') = {}
  BY <1>1, QueueAssumption DEF IsInjective, ToSet
<1> QED BY <1>1, <1>2, <1>3, RestKept
\* A read begins: the ring is as it was, only the call knows something.
LEMMA ReadBegins ==
    ASSUME CanInv, UNCHANGED <<can, queue, accepted, txq, canLog>>,
           reading' \in Calling, reading'.op # "none", PopKnows', EmptyKnows'
    PROVE  CanInv' /\ canLog' = canLog /\ txq' = txq
<1>1. /\ QueueHolds /\ QueuedOnce /\ TakenInOrder /\ ArrivalsCounted /\ CanTypes
      /\ IsInjective(txq)
  BY DEF CanInv
<1>2. /\ queue' = queue /\ accepted' = accepted /\ can' = can /\ canLog' = canLog
      /\ txq' = txq
  OBVIOUS
<1>3. Taken' = Taken /\ Records' = Records
  BY <1>2 DEF Taken, Records
<1>4. QueueHolds'
  BY <1>1, <1>2, <1>3 DEF QueueHolds
<1>5. QueuedOnce' /\ ArrivalsCounted'
  BY <1>1, <1>2, Zenon DEF QueuedOnce, ArrivalsCounted
<1>6. TakenInOrder'
  BY <1>1, <1>2, <1>3, Zenon DEF TakenInOrder
<1>7. CanTypes'
  BY <1>1, <1>2 DEF CanTypes, NotInCall
<1> QED BY <1>1, <1>2, <1>4, <1>5, <1>6, <1>7 DEF CanInv

LEMMA PopCopySound ==
    ASSUME CanInv, PopCopy
    PROVE  CanInv' /\ canLog' = canLog /\ txq' = txq
<1>1. /\ Len(queue) >= RecordSize /\ record' = SubSeq(queue, 1, RecordSize)
      /\ reading' = [op |-> "pop", bytes |-> RecordSize]
      /\ UNCHANGED <<can, queue, accepted, txq, canLog>>
  BY DEF PopCopy, Rx!Deliver
<1>2. reading' \in Calling /\ reading'.op = "pop" /\ reading'.bytes = RecordSize
  BY <1>1, OneRecord DEF Calling
<1>3. Taken' = Taken /\ Records' = Records
  BY <1>1 DEF Taken, Records
<1>4. Records >= 1
  BY <1>1, RingIs, OneRecord
<1>5. record' = Run(RecordSize * Taken, RecordSize)
  <2>1. /\ RecordSize * Taken \in Nat /\ RecordSize * Records \in Nat
        /\ RecordSize \in 0..(RecordSize * Records)
    <3>1. RecordSize * Taken \in Nat /\ RecordSize * Records \in Nat /\ RecordSize \in Nat
      BY RingIs, Multiples, OneRecord
    <3>2. RecordSize <= RecordSize * Records
      BY <1>1, RingIs
    <3> QED BY <3>1, <3>2
  <2>2. SubSeq(Run(RecordSize * Taken, RecordSize * Records), 1, RecordSize)
            = Run(RecordSize * Taken, RecordSize)
    BY <2>1, RunShrinks
  <2> QED BY <1>1, <2>2, RingIs, Zenon
<1>6. PopKnows'
  BY <1>2, <1>3, <1>4, <1>5, Zenon DEF PopKnows
<1>7. EmptyKnows'
  BY <1>2 DEF EmptyKnows
<1> QED BY <1>1, <1>2, <1>6, <1>7, ReadBegins

LEMMA ClearReceiveSound ==
    ASSUME CanInv, ClearReceive
    PROVE  CanInv' /\ canLog' = canLog /\ txq' = txq
<1>1. /\ reading' = [op |-> "clear", bytes |-> Len(queue)]
      /\ UNCHANGED <<can, queue, accepted, record, txq, canLog>>
  BY DEF ClearReceive, rxVars
<1>2. reading' \in Calling /\ reading'.op = "clear" /\ reading'.bytes = Len(queue)
  BY <1>1, RingIs DEF Calling
<1>3. Records' = Records
  BY <1>1 DEF Records
<1>4. EmptyKnows'
  <2>1. Records \in Nat /\ Len(queue) = RecordSize * Records /\ Records <= Records
    BY RingIs
  <2>2. reading'.bytes = RecordSize * Records /\ Records <= Records'
    BY <1>2, <1>3, <2>1
  <2>3. \E n \in Nat : reading'.bytes = RecordSize * n /\ n <= Records'
    BY <2>1, <2>2, Zenon
  <2> QED BY <2>3, Zenon DEF EmptyKnows
<1>5. PopKnows'
  BY <1>2 DEF PopKnows
<1> QED BY <1>1, <1>2, <1>4, <1>5, ReadBegins

\* Whole records leave the head of the queue.
LEMMA RecordsLeave ==
    ASSUME CanInv, NEW n \in Nat, n <= Records, Rx!Remove(RecordSize * n),
           Taken' = Taken + n, canLog'.queued = canLog.queued
    PROVE  QueueHolds' /\ accepted' \in Nat
<1>1. /\ queue' = SubSeq(queue, RecordSize * n + 1, Len(queue))
      /\ accepted' = accepted
  BY DEF Rx!Remove
<1>2. /\ RecordSize * Taken \in Nat /\ RecordSize * Records \in Nat /\ RecordSize * n \in Nat
      /\ RecordSize * n \in 0..(RecordSize * Records)
  <2>1. RecordSize * n <= RecordSize * Records
    BY RingIs, MultiplesGrow
  <2> QED BY <2>1, RingIs, Multiples
<1>3. Records - n \in Nat /\ Taken + n \in Nat
  BY RingIs
<1>4. /\ RecordSize * (Taken + n) = RecordSize * Taken + RecordSize * n
      /\ RecordSize * (Records - n) = RecordSize * Records - RecordSize * n
  <2>1. RecordSize * (Taken + n) = RecordSize * Taken + RecordSize * n
    BY RingIs, MultiplesGrow
  <2>2. RecordSize * ((Records - n) + n) = RecordSize * (Records - n) + RecordSize * n
    BY <1>3, MultiplesGrow
  <2>3. (Records - n) + n = Records
    BY <1>3, RingIs
  <2>4. RecordSize * (Records - n) \in Nat
    BY <1>3, Multiples
  <2> QED BY <1>2, <2>1, <2>2, <2>3, <2>4
<1>5. queue' = Run(RecordSize * (Taken + n), RecordSize * (Records - n))
  <2>1. SubSeq(Run(RecordSize * Taken, RecordSize * Records),
               RecordSize * n + 1, RecordSize * Records)
            = Run(RecordSize * Taken + RecordSize * n, RecordSize * Records - RecordSize * n)
    BY <1>2, RunShrinks
  <2>2. Len(queue) = RecordSize * Records /\ queue = Run(RecordSize * Taken, RecordSize * Records)
    BY RingIs
  <2> QED BY <1>1, <1>4, <2>1, <2>2, Zenon
<1>6. /\ RecordSize * (Taken + n) \in Nat /\ RecordSize * (Records - n) \in Nat
  BY <1>3, Multiples
<1>7. queue' \in Seq(Nat) /\ Len(queue') = RecordSize * (Records - n)
  BY <1>5, <1>6, RunGrows
<1>8. Records' = Records - n
  BY <1>3, <1>7, Multiples DEF Records
<1>9. Len(queue') <= RxBytes
  <2>1. Records - n <= Records
    BY RingIs
  <2>2. RecordSize * (Records - n) <= RecordSize * Records
    BY <1>3, <2>1, RingIs, MultiplesGrow
  <2>3. Len(queue') <= Len(queue) /\ Len(queue') \in Nat
    BY <1>6, <1>7, <2>2, RingIs
  <2> QED BY <2>3, RingIs, QueueAssumption
<1>10. queue' = Run(RecordSize * Taken', Len(queue'))
  BY <1>5, <1>7, Zenon
<1>11. Len(queue') = RecordSize * Records'
  BY <1>7, <1>8, Zenon
<1>12. Len(canLog'.queued) = Taken' + Records'
  BY <1>8, RingIs
<1>13. accepted' = RecordSize * Len(canLog'.queued)
  BY <1>1, RingIs, Zenon
<1>14. accepted' \in Nat
  BY <1>1 DEF CanInv, CanTypes
<1> QED BY <1>7, <1>9, <1>10, <1>11, <1>12, <1>13, <1>14, Zenon DEF QueueHolds
\* The record a pop copied is the oldest one in the queue.
LEMMA DecodedIs ==
    ASSUME CanInv, reading.op = "pop"
    PROVE  /\ Decoded = canLog.queued[Taken + 1] /\ Decoded \in Frames
           /\ Taken + 1 \in 1..Len(canLog.queued)
<1>1. /\ reading.bytes = RecordSize /\ Records >= 1
      /\ record = Run(RecordSize * Taken, RecordSize)
  BY DEF CanInv, PopKnows
<1>2. /\ Taken \in Nat /\ RecordSize \in Nat \ {0} /\ RecordSize * Taken \in Nat
      /\ (RecordSize * Taken) \div RecordSize = Taken
  BY RingIs, Multiples, OneRecord
<1>3. record[1] = RecordSize * Taken + 1
  BY <1>1, <1>2 DEF Run
<1>4. (record[1] - 1) \div RecordSize = Taken
  <2>1. record[1] - 1 = RecordSize * Taken
    BY <1>2, <1>3
  <2> QED BY <1>2, <2>1, Zenon
<1>5. record = [i \in 1..RecordSize |-> Taken * RecordSize + i]
  <2>1. Taken * RecordSize = RecordSize * Taken
    BY <1>2
  <2> QED BY <1>1, <2>1, Zenon DEF Run
<1>6. Decoded = canLog.queued[Taken + 1]
  BY <1>4, <1>5, Zenon DEF Decoded
<1>7. Taken + 1 \in 1..Len(canLog.queued)
  BY <1>1, RingIs
<1>8. canLog.queued \in Seq(Frames)
  BY DEF CanInv, CanTypes, CanLogs
<1> QED BY <1>6, <1>7, <1>8

LEMMA PopReleaseSound ==
    ASSUME CanInv, PopRelease
    PROVE  CanInv' /\ canLog'.arrived = canLog.arrived /\ txq' = txq
<1> DEFINE R == Append(canLog.returned, Decoded)
<1>1. /\ reading.op = "pop" /\ Rx!Remove(reading.bytes) /\ reading' = NotReading
      /\ canLog' = [canLog EXCEPT !.returned = R]
      /\ can' = can /\ txq' = txq
  BY Zenon DEF PopRelease
<1>2. /\ can \in Busses /\ canLog \in CanLogs /\ CanTypes
      /\ QueuedOnce /\ ArrivalsCounted /\ IsInjective(txq)
      /\ canLog.returned \in Seq(Frames)
  BY DEF CanInv, CanTypes, CanLogs
<1>3. /\ Decoded = canLog.queued[Taken + 1] /\ Decoded \in Frames
      /\ Taken + 1 \in 1..Len(canLog.queued)
  BY <1>1, DecodedIs
<1>4. /\ R \in Seq(Frames) /\ Len(R) = Len(canLog.returned) + 1
      /\ R[Len(canLog.returned) + 1] = Decoded
      /\ \A i \in 1..Len(canLog.returned) : R[i] = canLog.returned[i]
  BY <1>2, <1>3, Appended
<1> HIDE DEF R
<1>5. /\ canLog' \in CanLogs /\ canLog'.arrived = canLog.arrived
      /\ canLog'.queued = canLog.queued /\ canLog'.returned = R
      /\ canLog'.cleared = canLog.cleared
  BY <1>1, <1>2, <1>4 DEF CanLogs
<1>6. Taken' = Taken + 1
  <2>1. /\ Len(canLog'.returned) = Len(canLog.returned) + 1
        /\ canLog'.cleared = canLog.cleared
    BY <1>4, <1>5
  <2>2. Taken' = (Len(canLog.returned) + 1) + canLog.cleared
    BY <2>1, Zenon DEF Taken
  <2>3. Taken = Len(canLog.returned) + canLog.cleared
    BY DEF Taken
  <2> QED BY <2>2, <2>3, RingIs
<1>7. QueueHolds' /\ accepted' \in Nat
  <2>1. reading.bytes = RecordSize * 1 /\ 1 <= Records
    BY <1>1, OneRecord, RingIs DEF CanInv, PopKnows
  <2>2. Rx!Remove(RecordSize * 1)
    BY <1>1, <2>1, Zenon
  <2> QED BY <1>5, <1>6, <2>1, <2>2, RecordsLeave
<1>8. reading' \in Calling /\ reading'.op = "none" /\ reading'.bytes = 0
  BY <1>1 DEF Calling, NotReading
<1>9. PopKnows' /\ EmptyKnows'
  BY <1>8 DEF PopKnows, EmptyKnows
<1>10. QueuedOnce'
  BY <1>2, <1>5, Zenon DEF QueuedOnce
<1>11. ArrivalsCounted'
  BY <1>1, <1>2, <1>5, Zenon DEF ArrivalsCounted
<1>12. TakenInOrder'
  <2>1. PICK at \in [1..Len(canLog.returned) -> 1..Taken] :
            \A i, j \in 1..Len(canLog.returned) :
                /\ canLog.returned[i] = canLog.queued[at[i]]
                /\ i < j => at[i] < at[j]
    BY DEF CanInv, TakenInOrder
  <2> DEFINE n == Len(canLog.returned)
             to == [i \in 1..n + 1 |-> IF i = n + 1 THEN Taken + 1 ELSE at[i]]
  <2>2. n \in Nat /\ Taken \in Nat
    BY RingIs
  <2>3. /\ to[n + 1] = Taken + 1
        /\ \A i \in 1..n : i \in 1..n + 1 /\ to[i] = at[i] /\ at[i] \in 1..Taken
        /\ \A i \in 1..n + 1 : i = n + 1 \/ i \in 1..n
    BY <2>1, <2>2
  <2>4. to \in [1..n + 1 -> 1..Taken + 1]
    BY <2>1, <2>2
  <2>5. \A i \in 1..n + 1 : R[i] = canLog.queued[to[i]]
    BY <1>3, <1>4, <2>1, <2>3
  <2> HIDE DEF to
  <2>6. \A i, j \in 1..n + 1 : i < j => to[i] < to[j]
    BY <2>1, <2>2, <2>3
  <2>7. to \in [1..Len(canLog'.returned) -> 1..Taken']
    BY <1>4, <1>5, <1>6, <2>4
  <2>8. \A i, j \in 1..Len(canLog'.returned) :
            /\ canLog'.returned[i] = canLog'.queued[to[i]]
            /\ i < j => to[i] < to[j]
    BY <1>4, <1>5, <2>5, <2>6
  <2> QED BY <2>7, <2>8, Zenon DEF TakenInOrder
<1>13. CanTypes'
  BY <1>1, <1>2, <1>5, <1>7, <1>8 DEF CanTypes
<1> QED BY <1>1, <1>2, <1>5, <1>7, <1>9, <1>10, <1>11, <1>12, <1>13 DEF CanInv

LEMMA ClearReleaseSound ==
    ASSUME CanInv, ClearRelease
    PROVE  CanInv' /\ canLog'.arrived = canLog.arrived /\ txq' = txq
<1> DEFINE C == canLog.cleared + reading.bytes \div RecordSize
<1>1. /\ reading.op = "clear" /\ Rx!Remove(reading.bytes) /\ reading' = NotReading
      /\ canLog' = [canLog EXCEPT !.cleared = C]
      /\ can' = can /\ txq' = txq
  BY Zenon DEF ClearRelease
<1>2. /\ can \in Busses /\ canLog \in CanLogs /\ CanTypes
      /\ QueuedOnce /\ ArrivalsCounted /\ IsInjective(txq)
  BY DEF CanInv, CanTypes
<1>3. PICK n \in Nat : reading.bytes = RecordSize * n /\ n <= Records
  BY <1>1 DEF CanInv, EmptyKnows
<1>4. C = canLog.cleared + n /\ C \in Nat
  <2>1. reading.bytes \div RecordSize = n
    BY <1>3, Multiples
  <2> QED BY <2>1, RingIs
<1> HIDE DEF C
<1>5. /\ canLog' \in CanLogs /\ canLog'.arrived = canLog.arrived
      /\ canLog'.queued = canLog.queued /\ canLog'.returned = canLog.returned
      /\ canLog'.cleared = C
  BY <1>1, <1>2, <1>4 DEF CanLogs
<1>6. Taken' = Taken + n
  BY <1>4, <1>5, RingIs DEF Taken
<1>7. QueueHolds' /\ accepted' \in Nat
  <2>1. Rx!Remove(RecordSize * n)
    BY <1>1, <1>3, Zenon
  <2> QED BY <1>3, <1>5, <1>6, <2>1, RecordsLeave
<1>8. reading' \in Calling /\ reading'.op = "none" /\ reading'.bytes = 0
  BY <1>1 DEF Calling, NotReading
<1>9. PopKnows' /\ EmptyKnows'
  BY <1>8 DEF PopKnows, EmptyKnows
<1>10. QueuedOnce'
  BY <1>2, <1>5, Zenon DEF QueuedOnce
<1>11. ArrivalsCounted'
  BY <1>1, <1>2, <1>5, Zenon DEF ArrivalsCounted
<1>12. TakenInOrder'
  <2>1. PICK at \in [1..Len(canLog.returned) -> 1..Taken] :
            \A i, j \in 1..Len(canLog.returned) :
                /\ canLog.returned[i] = canLog.queued[at[i]]
                /\ i < j => at[i] < at[j]
    BY DEF CanInv, TakenInOrder
  <2>2. at \in [1..Len(canLog'.returned) -> 1..Taken']
    <3>1. 1..Taken \subseteq 1..Taken'
      BY <1>6, RingIs
    <3>2. at \in [1..Len(canLog.returned) -> 1..Taken']
      BY <2>1, <3>1
    <3> QED BY <1>5, <3>2
  <2>3. \A i, j \in 1..Len(canLog'.returned) :
            /\ canLog'.returned[i] = canLog'.queued[at[i]]
            /\ i < j => at[i] < at[j]
    BY <1>5, <2>1
  <2> QED BY <2>2, <2>3, Zenon DEF TakenInOrder
<1>13. CanTypes'
  BY <1>1, <1>2, <1>5, <1>7, <1>8 DEF CanTypes
<1> QED BY <1>1, <1>2, <1>5, <1>7, <1>9, <1>10, <1>11, <1>12, <1>13 DEF CanInv
\* Every counter at zero, nothing queued and nothing heard.
CanFresh == /\ can \in Busses /\ can.dropped = 0 /\ can.filtered = 0
            /\ can.controller_errors = 0
            /\ queue = <<>> /\ accepted = 0 /\ txq = <<>>
            /\ reading \in Calling /\ reading.op = "none" /\ reading.bytes = 0
            /\ canLog = NoCanLog

LEMMA CanFreshSound == CanFresh => CanInv /\ canLog.arrived = {} /\ ToSet(txq) = {}
<1> SUFFICES ASSUME CanFresh PROVE CanInv /\ canLog.arrived = {} /\ ToSet(txq) = {}
  OBVIOUS
<1>1. /\ canLog \in CanLogs /\ canLog.arrived = {} /\ canLog.queued = <<>>
      /\ canLog.returned = <<>> /\ canLog.cleared = 0
  BY DEF CanFresh, NoCanLog, CanLogs
<1>2. /\ txq \in Seq(Frames) /\ Len(txq) <= TxSlots /\ IsInjective(txq) /\ ToSet(txq) = {}
      /\ IsInjective(canLog.queued) /\ ToSet(canLog.queued) = {}
  BY <1>1, QueueAssumption DEF CanFresh, IsInjective, ToSet
<1>3. CanTypes
  BY <1>1, <1>2 DEF CanFresh, CanTypes
<1>4. Taken = 0 /\ Records = 0
  BY <1>1, Multiples, OneRecord DEF CanFresh, Taken, Records
<1>5. QueueHolds
  <2>1. /\ queue = <<>> /\ Len(queue) = 0 /\ queue \in Seq(Nat) /\ accepted = 0
        /\ Len(canLog.queued) = 0 /\ 0 <= RxBytes
    BY <1>1, QueueAssumption DEF CanFresh
  <2>2. RecordSize * 0 = 0
    BY OneRecord
  <2>3. Run(0, 0) = <<>>
    BY DEF Run
  <2> QED BY <1>4, <2>1, <2>2, <2>3 DEF QueueHolds
<1>6. PopKnows /\ EmptyKnows
  BY DEF CanFresh, PopKnows, EmptyKnows
<1>7. QueuedOnce
  BY <1>1, <1>2 DEF QueuedOnce
<1>8. TakenInOrder
  <2> DEFINE at == [i \in {} |-> 1]
  <2>1. 1..Len(canLog.returned) = {}
    BY <1>1
  <2>2. at \in [1..Len(canLog.returned) -> 1..Taken]
    BY <2>1
  <2> HIDE DEF at
  <2>3. \A i, j \in 1..Len(canLog.returned) :
            /\ canLog.returned[i] = canLog.queued[at[i]]
            /\ i < j => at[i] < at[j]
    BY <2>1
  <2> QED BY <2>2, <2>3, Zenon DEF TakenInOrder
<1>9. ArrivalsCounted
  <2>1. Cardinality(canLog.arrived) = 0
    BY <1>1, FS_EmptySet
  <2>2. Len(canLog.queued) = 0
    BY <1>1
  <2> QED BY <2>1, <2>2 DEF CanFresh, ArrivalsCounted
<1> QED BY <1>1, <1>2, <1>3, <1>5, <1>6, <1>7, <1>8, <1>9 DEF CanInv

LEMMA CanInitSound == ASSUME CanInit PROVE CanInv /\ canLog.arrived = {} /\ ToSet(txq) = {}
<1>1. /\ can = CanAtReset /\ queue = <<>> /\ accepted = 0 /\ reading = NotReading
      /\ txq = <<>> /\ canLog = NoCanLog
  BY DEF CanInit, Rx!Init
<1> QED BY <1>1, CanFreshSound DEF CanFresh, CanAtReset, NotReading, Busses, Calling

LEMMA CanStartSound ==
    ASSUME CanInv, CanStart
    PROVE  CanInv' /\ canLog'.arrived = {} /\ ToSet(txq)' = {}
<1>1. PICK rejects \in FilterSets : can' = [CanAtReset EXCEPT !.active = TRUE, !.rejects = rejects]
  BY DEF CanStart
<1>2. /\ can' \in Busses /\ can'.dropped = 0 /\ can'.filtered = 0
      /\ can'.controller_errors = 0
  BY <1>1 DEF CanAtReset, Busses
<1>3. reading \in Calling /\ reading.op = "none" /\ reading.bytes = 0
  BY DEF CanInv, CanTypes, CanStart, NotInCall
<1>4. CanFresh'
  BY <1>2, <1>3 DEF CanFresh, CanStart
<1>5. (CanInv /\ canLog.arrived = {} /\ ToSet(txq) = {})'
  BY <1>4, CanFreshSound, PTL
<1> QED BY <1>5
-----------------------------------------------------------------------------
(***************************************************************************)
(* The bus between the two nodes.                                          *)
(***************************************************************************)
\* The frames that are on the MCP2515's way out, and all it ever had to do
\* with since its init.
Sending == Pending \cup Hand
Seen == mcp.arrived \cup mcp.accepted \cup Hand

\* Frames are sent once, by one of the nodes; what is still to go out on one
\* has not been seen by the other.
LinkKnows == /\ nextFrame \in Nat \ {0} /\ upsets \in Nat
             /\ Seen \cup ToSet(txq) \cup canLog.arrived \subseteq 1..nextFrame-1
             /\ Seen \cap ToSet(txq) = {}
             /\ Sending \cap canLog.arrived = {}

IInv == McpInv /\ CanInv /\ LinkKnows

\* The steps of the MCP2515's node that the other one takes no part in.
McpMoves == \/ Receive \/ GetStats \/ DriverStep
            \/ ChipChangesMode \/ \E b \in Txb : FrameLoopsBack(b)
            \/ InitialiseFindsNothing \/ \E m \in StartModes : Initialise(m)
            \/ Deinitialise \/ ClearStats \/ \E m \in Modes : SetMode(m)

LEMMA SendingIsSeen == McpInv => Sending \subseteq Seen /\ Seen \subseteq Frames
<1> SUFFICES ASSUME McpInv PROVE Sending \subseteq Seen /\ Seen \subseteq Frames
  OBVIOUS
<1>1. mcp \in Histories /\ SendKnows /\ mcp.accepted = Pending \cup mcp.out
  BY DEF McpInv, McpTypes, SendsGoOutOnce
<1>2. Hand \subseteq Frames
  BY <1>1 DEF Hand, SendKnows
<1> QED BY <1>1, <1>2 DEF Sending, Seen, Histories

\* A step that leaves what went in and out alone.
LEMMA SameFrames ==
    ASSUME McpInv, Pending' = Pending, Hand' = Hand,
           mcp'.arrived = mcp.arrived, mcp'.accepted = mcp.accepted
    PROVE  Sending' = Sending /\ Seen' = Seen
BY DEF Sending, Seen

LEMMA McpMovesSound ==
    ASSUME McpInv, McpMoves
    PROVE  McpInv' /\ Sending' \subseteq Sending /\ Seen' \subseteq Seen
<1>0. mcp \in Histories
  BY DEF McpInv, McpTypes
<1>1. CASE Receive \/ GetStats
  <2>1. PICK op \in {"receive", "stats"} : StartStats(op)
    BY <1>1 DEF Receive, GetStats
  <2> QED BY <2>1, StartStatsSound, SameFrames DEF StartStats
<1>2. CASE ReadCanintf
  BY <1>2, ReadCanintfSound, SameFrames DEF ReadCanintf
<1>3. CASE ReadEflg
  BY <1>3, ReadEflgSound, SameFrames DEF ReadEflg
<1>4. CASE ClearEflg
  BY <1>4, ClearEflgSound, SameFrames DEF ClearEflg
<1>5. CASE ClearCanintf
  BY <1>5, ClearCanintfSound, SameFrames DEF ClearCanintf
<1>6. CASE ReadStatus
  BY <1>6, ReadStatusSound, SameFrames DEF ReadStatus
<1>7. CASE ReadRxBuffer
  BY <1>7, ReadRxBufferSound, SameFrames DEF ReadRxBuffer
<1>8. CASE ClearRxFlag
  <2>1. mcp'.arrived = mcp.arrived /\ mcp'.accepted = mcp.accepted
    BY <1>0, <1>8 DEF ClearRxFlag, Return, Histories
  <2> QED BY <1>8, <2>1, ClearRxFlagSound, SameFrames
<1>9. CASE LoadTxBuffer
  BY <1>9, LoadTxBufferSound, SameFrames DEF LoadTxBuffer
<1>10. CASE RequestToSend
  BY <1>10, RequestToSendSound DEF Sending, Seen
<1>11. CASE PollMode
  BY <1>11, PollModeSound, SameFrames DEF PollMode
<1>12. CASE ChipChangesMode
  BY <1>12, ChipChangesModeSound, SameFrames DEF ChipChangesMode
<1>13. ASSUME NEW b \in Txb, FrameLoopsBack(b)
       PROVE  McpInv' /\ Sending' \subseteq Sending /\ Seen' \subseteq Seen
  <2>1. /\ McpInv' /\ Pending' = Pending \ {chip.txb[b]} /\ Hand' = Hand
        /\ mcp'.arrived = mcp.arrived \cup {chip.txb[b]} /\ mcp'.accepted = mcp.accepted
        /\ chip.txb[b] \in Pending
    BY <1>13, FrameLoopsBackSound
  <2>2. chip.txb[b] \in Seen
    BY <2>1, SendingIsSeen DEF Sending
  <2> QED BY <2>1, <2>2 DEF Sending, Seen
<1>14. CASE InitialiseFindsNothing
  BY <1>14, FindsNothingSound, SameFrames DEF InitialiseFindsNothing
<1>15. ASSUME NEW m \in StartModes, Initialise(m)
       PROVE  McpInv' /\ Sending' \subseteq Sending /\ Seen' \subseteq Seen
  <2>1. McpInv' /\ Pending' = {} /\ Hand' = {} /\ mcp' = NoHistory
    BY <1>15, InitialiseSound
  <2>2. mcp'.arrived = {} /\ mcp'.accepted = {}
    BY <2>1 DEF NoHistory
  <2> QED BY <2>1, <2>2 DEF Sending, Seen
<1>16. CASE Deinitialise
  BY <1>16, DeinitialiseSound, SameFrames DEF Deinitialise
<1>17. CASE ClearStats
  BY <1>17, ClearStatsSound, SameFrames DEF ClearStats
<1>18. ASSUME NEW m \in Modes, SetMode(m)
       PROVE  McpInv' /\ Sending' \subseteq Sending /\ Seen' \subseteq Seen
  BY <1>18, SetModeSound, SameFrames DEF SetMode
<1> QED BY <1>1, <1>2, <1>3, <1>4, <1>5, <1>6, <1>7, <1>8, <1>9, <1>10, <1>11, <1>12,
           <1>13, <1>14, <1>15, <1>16, <1>17, <1>18 DEF McpMoves, DriverStep
LEMMA McpKept ==
    ASSUME McpInv, UNCHANGED mcpVars
    PROVE  McpInv' /\ Sending' = Sending /\ Seen' = Seen
<1>1. /\ chip' = chip /\ clearsOnRead' = clearsOnRead /\ bus' = bus /\ call' = call
      /\ mcp' = mcp
  BY DEF mcpVars
<1>2. McpTypes'
  BY <1>1, Zenon DEF McpInv, McpTypes
<1>3. ReadKnows' /\ SendKnows' /\ PollKnows' /\ FlagsKnown'
  BY <1>1, Zenon DEF McpInv, ReadKnows, SendKnows, PollKnows, FlagsKnown, At
<1>4. Waiting' = Waiting /\ Pending' = Pending /\ Hand' = Hand /\ InHand' = InHand
  BY <1>1, Zenon DEF Waiting, Pending, Hand, InHand, At
<1>5. ClearKnows'
  BY <1>1, <1>4, Zenon DEF McpInv, ClearKnows, At
<1>6. ReceivesApart' /\ SendsApart' /\ NotYetHeard'
  BY <1>1, <1>4, Zenon DEF McpInv, ReceivesApart, SendsApart, NotYetHeard
<1>7. SendsGoOutOnce' /\ CountsAddUp'
  BY <1>1, <1>4, Zenon DEF McpInv, SendsGoOutOnce, CountsAddUp, At
<1>8. McpFramesAccounted'
  BY <1>1, <1>4, Zenon DEF McpInv, McpFramesAccounted, Unexplained
<1>9. Sending' = Sending /\ Seen' = Seen
  BY <1>1, <1>4 DEF Sending, Seen
<1> QED BY <1>2, <1>3, <1>5, <1>6, <1>7, <1>8, <1>9 DEF McpInv

LEMMA InitSound == ASSUME Init PROVE IInv
<1>1. McpInv /\ Pending = {} /\ Hand = {}
  BY McpInitSound DEF Init
<1>2. CanInv /\ canLog.arrived = {} /\ ToSet(txq) = {}
  BY CanInitSound DEF Init
<1>3. mcp.arrived = {} /\ mcp.accepted = {} /\ nextFrame = 1 /\ upsets = 0
  BY DEF Init, McpInit, NoHistory
<1>4. Sending = {} /\ Seen = {}
  BY <1>1, <1>3 DEF Sending, Seen
<1>5. LinkKnows
  BY <1>2, <1>3, <1>4 DEF LinkKnows
<1> QED BY <1>1, <1>2, <1>5 DEF IInv

\* Frames not sent yet are unknown to both nodes.
LEMMA NextFrameIsNew ==
    ASSUME IInv
    PROVE  /\ nextFrame \notin Seen /\ nextFrame \notin ToSet(txq)
           /\ nextFrame \notin canLog.arrived
BY DEF IInv, LinkKnows

\* What no node sends can only become less.
LEMMA LinkKept ==
    ASSUME IInv, Sending' \subseteq Sending, Seen' \subseteq Seen,
           ToSet(txq') \subseteq ToSet(txq), canLog'.arrived \subseteq canLog.arrived,
           nextFrame' = nextFrame, upsets' \in Nat
    PROVE  LinkKnows'
<1>1. /\ nextFrame \in Nat \ {0} /\ Seen \cap ToSet(txq) = {}
      /\ Sending \cap canLog.arrived = {}
      /\ Seen \cup ToSet(txq) \cup canLog.arrived \subseteq 1..nextFrame-1
  BY DEF IInv, LinkKnows
<1>2. ToSet(txq)' = ToSet(txq')
  OBVIOUS
<1> QED BY <1>1, <1>2 DEF LinkKnows

\* A frame goes out on the MCP2515, and the other node hears it or misses it.
LEMMA LeavesSound ==
    ASSUME IInv, NEW b \in Txb, FrameLeaves(b),
           Callback(chip.txb[b]) \/ CallbackError(chip.txb[b]),
           nextFrame' = nextFrame, upsets' \in Nat
    PROVE  IInv'
<1>1. /\ McpInv /\ CanInv /\ nextFrame \in Nat \ {0} /\ Seen \cap ToSet(txq) = {}
      /\ Sending \cap canLog.arrived = {}
      /\ Seen \cup ToSet(txq) \cup canLog.arrived \subseteq 1..nextFrame-1
      /\ mcp \in Histories /\ chip \in Chips
      /\ NotYetHeard /\ SendsApart /\ mcp.accepted = Pending \cup mcp.out
      /\ Hand \cap mcp.accepted = {}
  BY DEF IInv, LinkKnows, McpInv, McpTypes, SendsGoOutOnce, NotYetHeard
<1>2. McpInv' /\ Pending' = Pending \ {chip.txb[b]} /\ Hand' = Hand
  BY <1>1, FrameLeavesSound
<1>3. /\ chip.txb[b] \in Pending /\ chip.txb[b] \in Frames
      /\ mcp'.arrived = mcp.arrived /\ mcp'.accepted = mcp.accepted
  BY <1>1 DEF FrameLeaves, Pending, SendsApart, WentOut, Histories
<1>4. /\ chip.txb[b] \in Seen /\ chip.txb[b] \notin canLog.arrived
      /\ chip.txb[b] \notin Hand
  BY <1>1, <1>3 DEF Seen, Sending
<1>5. /\ CanInv' /\ canLog'.arrived \subseteq canLog.arrived \cup {chip.txb[b]}
      /\ txq' = txq
  BY <1>1, <1>3, <1>4, CallbackSound, CallbackErrorSound
<1>6. Seen' = Seen /\ Sending' = Sending \ {chip.txb[b]}
  BY <1>2, <1>3, <1>4 DEF Seen, Sending
<1>7. ToSet(txq)' = ToSet(txq)
  BY <1>5
<1>8. LinkKnows'
  BY <1>1, <1>4, <1>5, <1>6, <1>7 DEF LinkKnows
<1> QED BY <1>2, <1>5, <1>8 DEF IInv

\* A frame goes out on the can2040, and the MCP2515 hears it or does not.
LEMMA CanFrameOnWireSound ==
    ASSUME IInv, CanFrameOnWire
    PROVE  IInv'
<1>1. /\ McpInv /\ CanInv /\ nextFrame \in Nat \ {0} /\ upsets \in Nat
      /\ Seen \cap ToSet(txq) = {} /\ Sending \cap canLog.arrived = {}
      /\ Seen \cup ToSet(txq) \cup canLog.arrived \subseteq 1..nextFrame-1
      /\ mcp \in Histories
      /\ TxCompletes /\ nextFrame' = nextFrame /\ upsets' = upsets
  BY DEF IInv, LinkKnows, McpInv, McpTypes, CanFrameOnWire
<1>2. /\ CanInv' /\ canLog' = canLog
      /\ Head(txq) \in ToSet(txq) /\ Head(txq) \notin ToSet(txq')
      /\ ToSet(txq') \subseteq ToSet(txq) /\ Head(txq) \in Frames
  BY <1>1, TxCompletesSound
<1>3. CASE Hears
  <2>1. FrameArrives(Head(txq))
    BY <1>3 DEF CanFrameOnWire
  <2>2. Head(txq) \notin Seen
    BY <1>1, <1>2
  <2>3. McpInv' /\ Pending' = Pending /\ Hand' = Hand
    BY <1>1, <1>2, <2>1, <2>2, FrameArrivesSound DEF Seen
  <2>4. mcp'.arrived = mcp.arrived \cup {Head(txq)} /\ mcp'.accepted = mcp.accepted
    BY <1>1, <2>1 DEF FrameArrives, Arrival, Histories
  <2>5. Sending' = Sending /\ Seen' = Seen \cup {Head(txq)}
    BY <2>3, <2>4 DEF Sending, Seen
  <2>6. ToSet(txq)' = ToSet(txq')
    OBVIOUS
  <2>7. LinkKnows'
    BY <1>1, <1>2, <2>5, <2>6 DEF LinkKnows
  <2> QED BY <1>2, <2>3, <2>7 DEF IInv
<1>4. CASE ~Hears
  <2>1. UNCHANGED mcpVars
    BY <1>4 DEF CanFrameOnWire
  <2>2. McpInv' /\ Sending' = Sending /\ Seen' = Seen
    BY <1>1, <2>1, McpKept
  <2>3. LinkKnows'
    BY <1>1, <1>2, <2>2, LinkKept
  <2> QED BY <1>2, <2>2, <2>3 DEF IInv
<1> QED BY <1>3, <1>4
LEMMA McpSendsSound ==
    ASSUME IInv, McpSends
    PROVE  IInv'
<1>1. /\ McpInv /\ CanInv /\ nextFrame \in Nat \ {0} /\ upsets \in Nat
      /\ Seen \cap ToSet(txq) = {} /\ Sending \cap canLog.arrived = {}
      /\ Seen \cup ToSet(txq) \cup canLog.arrived \subseteq 1..nextFrame-1
  BY DEF IInv, LinkKnows
<1>2. /\ nextFrame \in Frames /\ Send(nextFrame) /\ nextFrame' = nextFrame + 1
      /\ UNCHANGED canVars /\ upsets' = upsets
  BY DEF McpSends
<1>3. nextFrame \notin Seen /\ nextFrame \notin ToSet(txq) /\ nextFrame \notin canLog.arrived
  BY NextFrameIsNew
<1>4. McpInv' /\ Pending' = Pending /\ Hand' = {nextFrame} /\ mcp' = mcp
  BY <1>1, <1>2, <1>3, SendSound DEF Seen
<1>5. CanInv' /\ canLog'.arrived = canLog.arrived /\ txq' = txq
  BY <1>1, <1>2, CanKept
<1>6. Seen' \subseteq Seen \cup {nextFrame} /\ Sending' \subseteq Sending \cup {nextFrame}
  BY <1>4 DEF Seen, Sending
<1>7. ToSet(txq)' = ToSet(txq)
  BY <1>5
<1>8. LinkKnows'
  BY <1>1, <1>2, <1>3, <1>5, <1>6, <1>7 DEF LinkKnows
<1> QED BY <1>4, <1>5, <1>8 DEF IInv

LEMMA CanSendsSound ==
    ASSUME IInv, CanSends
    PROVE  IInv'
<1>1. /\ McpInv /\ CanInv /\ nextFrame \in Nat \ {0} /\ upsets \in Nat
      /\ Seen \cap ToSet(txq) = {} /\ Sending \cap canLog.arrived = {}
      /\ Seen \cup ToSet(txq) \cup canLog.arrived \subseteq 1..nextFrame-1
  BY DEF IInv, LinkKnows
<1>2. /\ nextFrame \in Frames /\ CanSend(nextFrame) /\ nextFrame' = nextFrame + 1
      /\ UNCHANGED mcpVars /\ upsets' = upsets
  BY DEF CanSends
<1>3. nextFrame \notin Seen /\ nextFrame \notin ToSet(txq) /\ nextFrame \notin canLog.arrived
  BY NextFrameIsNew
<1>4. CanInv' /\ canLog' = canLog /\ ToSet(txq') = ToSet(txq) \cup {nextFrame}
  BY <1>1, <1>2, <1>3, CanSendSound
<1>5. McpInv' /\ Sending' = Sending /\ Seen' = Seen
  BY <1>1, <1>2, McpKept
<1>6. ToSet(txq)' = ToSet(txq')
  OBVIOUS
<1>7. LinkKnows'
  BY <1>1, <1>2, <1>3, <1>4, <1>5, <1>6 DEF LinkKnows
<1> QED BY <1>4, <1>5, <1>7 DEF IInv

\* Either node by itself.
LEMMA McpNodeSound ==
    ASSUME IInv, McpMoves, UNCHANGED canVars, nextFrame' = nextFrame, upsets' \in Nat
    PROVE  IInv'
<1>1. McpInv' /\ Sending' \subseteq Sending /\ Seen' \subseteq Seen
  BY McpMovesSound DEF IInv
<1>2. CanInv' /\ canLog'.arrived = canLog.arrived /\ txq' = txq
  BY CanKept DEF IInv
<1>3. ToSet(txq') \subseteq ToSet(txq) /\ canLog'.arrived \subseteq canLog.arrived
  BY <1>2
<1> QED BY <1>1, <1>2, <1>3, LinkKept DEF IInv

LEMMA CanNodeSound ==
    ASSUME IInv, UNCHANGED mcpVars, nextFrame' = nextFrame, upsets' \in Nat,
           PopCopy \/ ReadStep \/ CanStart \/ CanStop \/ ClearReceive
    PROVE  IInv'
<1>1. McpInv' /\ Sending' = Sending /\ Seen' = Seen
  BY McpKept DEF IInv
<1>2. CanInv' /\ ToSet(txq)' \subseteq ToSet(txq) /\ canLog'.arrived \subseteq canLog.arrived
  <2>0. CanInv
    BY DEF IInv
  <2>1. CASE PopCopy
    BY <2>0, <2>1, PopCopySound
  <2>2. CASE PopRelease
    BY <2>0, <2>2, PopReleaseSound
  <2>3. CASE ClearRelease
    BY <2>0, <2>3, ClearReleaseSound
  <2>4. CASE CanStart
    BY <2>0, <2>4, CanStartSound
  <2>5. CASE CanStop
    BY <2>0, <2>5, CanStopSound
  <2>6. CASE ClearReceive
    BY <2>0, <2>6, ClearReceiveSound
  <2> QED BY <2>1, <2>2, <2>3, <2>4, <2>5, <2>6 DEF ReadStep
<1>3. ToSet(txq)' = ToSet(txq')
  OBVIOUS
<1>4. LinkKnows'
  BY <1>1, <1>2, <1>3, LinkKept
<1> QED BY <1>1, <1>2, <1>4 DEF IInv

LEMMA StepSound ==
    ASSUME IInv, [Next]_vars
    PROVE  IInv'
<1>0. upsets \in Nat /\ upsets + 1 \in Nat
  BY DEF IInv, LinkKnows
<1>1. ASSUME NEW b \in Txb, McpFrameOnWire(b) PROVE IInv'
  BY <1>0, <1>1, LeavesSound DEF McpFrameOnWire
<1>2. ASSUME NEW b \in Txb, McpFrameMissed(b) PROVE IInv'
  BY <1>0, <1>2, LeavesSound DEF McpFrameMissed
<1>3. CASE CanFrameOnWire
  BY <1>3, CanFrameOnWireSound
<1>4. CASE McpSends
  BY <1>4, McpSendsSound
<1>5. CASE CanSends
  BY <1>5, CanSendsSound
<1>6. CASE McpAlone
  BY <1>0, <1>6, McpNodeSound DEF McpAlone, McpMoves
<1>7. CASE McpUpset
  BY <1>0, <1>7, McpNodeSound DEF McpUpset, McpMoves
<1>8. CASE CanAlone
  BY <1>0, <1>8, CanNodeSound DEF CanAlone
<1>9. CASE CanUpset
  BY <1>0, <1>9, CanNodeSound DEF CanUpset
<1>10. CASE UNCHANGED vars
  <2>1. /\ UNCHANGED mcpVars /\ UNCHANGED canVars
        /\ nextFrame' = nextFrame /\ upsets' = upsets
    BY <1>10 DEF vars
  <2>2. McpInv' /\ Sending' = Sending /\ Seen' = Seen
    BY <2>1, McpKept DEF IInv
  <2>3. CanInv' /\ canLog'.arrived = canLog.arrived /\ txq' = txq
    BY <2>1, CanKept DEF IInv
  <2>4. LinkKnows'
    BY <1>0, <2>1, <2>2, <2>3, LinkKept
  <2> QED BY <2>2, <2>3, <2>4 DEF IInv
<1> QED BY <1>1, <1>2, <1>3, <1>4, <1>5, <1>6, <1>7, <1>8, <1>9, <1>10 DEF Next

\* The invariant of both nodes and of the bus between them, kept by every
\* interleaving of the two drivers' SPI transactions and ring accesses with
\* what their controllers do (mcp2515.c, can.c).
THEOREM LinkInvariant == Spec => []IInv
<1>1. Init => IInv
  BY InitSound
<1>2. IInv /\ [Next]_vars => IInv'
  BY StepSound
<1> QED BY <1>1, <1>2, PTL DEF Spec

LEMMA McpInvImplies == McpInv => McpTypeOK /\ SendsGoOutOnce /\ McpAccountsHold
<1> SUFFICES ASSUME McpInv PROVE McpTypeOK /\ SendsGoOutOnce /\ McpAccountsHold
  OBVIOUS
<1>1. /\ chip \in Chips /\ clearsOnRead \in BOOLEAN /\ bus \in Buses
      /\ call \in Calls /\ mcp \in Histories
      /\ SendsGoOutOnce /\ McpFramesAccounted /\ CountsAddUp
  BY DEF McpInv, McpTypes
<1>2. McpTypeOK
  BY <1>1 DEF McpTypeOK, Chips, Buses, Calls, Places
<1>3. StatsNeverOvercount
  <2>1. /\ Cardinality(chip.txif \ call.txif) \in Nat /\ Cardinality(mcp.lost) \in Nat
        /\ bus.transmitted \in Nat /\ bus.rx_overflow \in Nat /\ mcp.sendings \in Nat
    <3>1. mcp.lost \subseteq Frames /\ chip.txif \ call.txif \subseteq Txb
      BY <1>1 DEF Histories, Chips
    <3>2. Cardinality(mcp.lost) \in Nat /\ Cardinality(chip.txif \ call.txif) \in Nat
      BY <3>1, Counting
    <3> QED BY <1>1, <3>2 DEF Buses, Histories
  <2>2. bus.transmitted + Cardinality(chip.txif \ call.txif) <= mcp.sendings
    BY <1>1 DEF CountsAddUp
  <2>3. bus.transmitted <= mcp.sendings
    BY <2>1, <2>2
  <2>4. bus.rx_overflow <= Cardinality(mcp.lost)
    <3> DEFINE bit == IF chip.ovr /\ ~At("clear_eflg") THEN 1 ELSE 0
    <3>1. bus.rx_overflow + bit <= Cardinality(mcp.lost) /\ bit \in Nat
      BY <1>1, Zenon DEF CountsAddUp
    <3> HIDE DEF bit
    <3> QED BY <2>1, <3>1
  <2> QED BY <2>3, <2>4 DEF StatsNeverOvercount
<1> QED BY <1>1, <1>2, <1>3 DEF McpAccountsHold

\* The registers, structures and queues of both nodes keep their shape.
THEOREM TypesHold == Spec => []TypeOK
<1>1. IInv => TypeOK
  BY McpInvImplies, CanInvImplies DEF IInv, TypeOK
<1> QED BY <1>1, LinkInvariant, PTL

\* mcp2515_bus_send: a frame it accepted waits in one transmit buffer or has
\* gone out, once, whatever the controller does between loading a buffer and
\* requesting its transmission.
THEOREM SendsOnce == Spec => []SendsGoOutOnce
<1>1. IInv => SendsGoOutOnce
  BY McpInvImplies DEF IInv
<1> QED BY <1>1, LinkInvariant, PTL

\* mcp2515_bus_receive and update_stats: every frame the controller stored is
\* returned at most once and otherwise accounted for, and no flag is counted
\* twice although counting and clearing it are two transactions.
THEOREM AccountsHold == Spec => []McpAccountsHold
<1>1. IInv => McpAccountsHold
  BY McpInvImplies DEF IInv
<1> QED BY <1>1, LinkInvariant, PTL

\* can_queue_push in the interrupt against can_queue_pop and can_queue_clear
\* in the main loop: no torn record, no frame twice or out of order, and every
\* frame that arrived explained by the queue or by a counter.
THEOREM FramesAccounted == Spec => []CanFramesAccounted
<1>1. IInv => CanFramesAccounted
  BY CanInvImplies DEF IInv
<1> QED BY <1>1, LinkInvariant, PTL
-----------------------------------------------------------------------------
(***************************************************************************)
(* RingBuffer, which a CAN bus keeps its records in.  For every storage    *)
(* size: the indices count exactly what it holds, and nothing it holds is  *)
(* ever overwritten before it is given back, under any interleaving of the *)
(* two sides.                                                              *)
(***************************************************************************)

-----------------------------------------------------------------------------
(***************************************************************************)
(* Arithmetic of the indices.                                              *)
(***************************************************************************)
\* `advance' stays inside the storage.
LEMMA AdvanceType ==
    ASSUME NEW i \in 0..Size-1, NEW n \in 0..Size-1
    PROVE  Advance(i, n) \in 0..Size-1
BY SizeAssumption DEF Advance

\* Advancing twice is advancing once by the sum, within one lap.
LEMMA AdvanceAdd ==
    ASSUME NEW i \in 0..Size-1, NEW m \in 0..Size-1, NEW n \in 0..Size-1,
           m + n < Size
    PROVE  Advance(Advance(i, m), n) = Advance(i, m + n)
BY SizeAssumption DEF Advance

\* Two distances less than a lap apart reach two different slots.
LEMMA AdvanceInjective ==
    ASSUME NEW i \in 0..Size-1, NEW m \in 0..Size-1, NEW n \in 0..Size-1,
           Advance(i, m) = Advance(i, n)
    PROVE  m = n
BY SizeAssumption DEF Advance

\* The subtraction in ring_buffer_count recovers the distance from tail to
\* head, which is why one slot has to stay empty.
LEMMA CountIsDistance ==
    ASSUME NEW t \in 0..Size-1, NEW n \in 0..Size-1, NEW h, h = Advance(t, n)
    PROVE  (IF h >= t THEN h - t ELSE Size - t + h) = n
BY SizeAssumption DEF Advance

LEMMA CountRange ==
    ASSUME NEW h \in 0..Size-1, NEW t \in 0..Size-1
    PROVE  (IF h >= t THEN h - t ELSE Size - t + h) \in 0..Size-1
BY SizeAssumption

\* The converse: head is Count slots after tail.
LEMMA HeadIsTailPlusCount ==
    ASSUME head \in 0..Size-1, tail \in 0..Size-1
    PROVE  Count \in 0..Size-1 /\ head = Advance(tail, Count)
BY SizeAssumption DEF Advance, Count

-----------------------------------------------------------------------------
(***************************************************************************)
(* The inductive invariant.                                                *)
(***************************************************************************)
\* A copy in progress fits in the room left beyond what is published, and
\* what it has written so far sits just past head.
ProducerCall ==
    IF ppc = "copy"
    THEN /\ sent + pLen - taken <= Capacity
         /\ \A k \in 0..pCopied-1 : storage[Advance(head, k)] = sent + k + 1
    ELSE pLen = 0 /\ pCopied = 0

\* What a call of the consumer is about to remove has been published, and a
\* clear stores the index that lies exactly that far on.
ConsumerCall ==
    /\ cpc # "idle" => cLen <= sent - taken
    /\ cpc \in {"pop", "peek", "read"} => cCopied <= cLen
    /\ cpc = "clear" => cHead = Advance(tail, cLen)

RingIInv ==
    /\ RingTypeOK /\ CountIsExact /\ HeldBytesIntact
    /\ ProducerCall /\ ConsumerCall /\ CopiesAreOldestBytes

LEMMA RingInitIInv == RingInit => RingIInv
BY SizeAssumption DEF RingInit, RingIInv, RingTypeOK, CountIsExact, HeldBytesIntact, ProducerCall,
   ConsumerCall, CopiesAreOldestBytes, Count, Advance

\* Only the state that a step changes matters to the invariant: one step per
\* action of the ring buffer.
LEMMA RingNextIInv == RingIInv /\ [RingNext]_ringVars => RingIInv'
<1> SUFFICES ASSUME RingIInv, [RingNext]_ringVars PROVE RingIInv'
  OBVIOUS
<1> USE SizeAssumption
<1>0. /\ Count \in 0..Size-1 /\ head = Advance(tail, Count)
      /\ sent = taken + Count
  BY HeadIsTailPlusCount DEF RingIInv, RingTypeOK, CountIsExact
<1>1. ASSUME NEW n \in 1..Size-1, ppc = "idle", StartCopyIn(n),
             n <= Capacity - Count
      PROVE  RingIInv'
  BY <1>0, <1>1 DEF RingIInv, RingTypeOK, CountIsExact, HeldBytesIntact, ProducerCall, ConsumerCall,
     CopiesAreOldestBytes, StartCopyIn, cvars, Count, Capacity
<1>2. CASE PushBegin
  <2>1. 1 <= Capacity - Count
    BY <1>0, <1>2 DEF PushBegin, RingIInv, RingTypeOK, Count, Capacity, Advance
  <2> QED BY <1>1, <1>2, <2>1 DEF PushBegin
<1>3. ASSUME NEW len \in 1..Size, WriteBegin(len) PROVE RingIInv'
  BY <1>0, <1>1, <1>3 DEF WriteBegin, Free, Least, Capacity
<1>4. CASE CopyIn
  <2>1. pCopied \in 0..Size-2 /\ Count + pCopied < Size - 1
    BY <1>0, <1>4 DEF CopyIn, RingIInv, RingTypeOK, ProducerCall, Capacity
  <2>0. /\ Advance(head, pCopied) \in 0..Size-1
        /\ storage' = [storage EXCEPT ![Advance(head, pCopied)] = sent + pCopied + 1]
        /\ UNCHANGED <<head, tail, ppc, pLen, cpc, cLen, cCopied, cHead, cBuf, sent, taken>>
        /\ Count' = Count
    BY <1>4, <2>1, AdvanceType DEF CopyIn, RingIInv, RingTypeOK, cvars, Count
  <2>2. RingTypeOK' /\ CountIsExact'
    <3>1. pCopied' \in 0..pLen
      BY <1>4 DEF CopyIn, RingIInv, RingTypeOK
    <3>2. storage' \in [0..Size-1 -> Nat]
      BY <2>0, <2>1 DEF RingIInv, RingTypeOK
    <3> QED BY <2>0, <3>1, <3>2 DEF RingIInv, RingTypeOK, CountIsExact
  <2>3. Advance(head, pCopied) = Advance(tail, Count + pCopied)
    BY <1>0, <2>1, AdvanceAdd DEF RingIInv, RingTypeOK
  <2>4. \A k \in 0..Count-1 : Advance(tail, k) # Advance(head, pCopied)
    BY <1>0, <2>1, <2>3, AdvanceInjective DEF RingIInv, RingTypeOK
  <2>5. HeldBytesIntact'
    <3> SUFFICES ASSUME NEW k \in 0..Count-1
                 PROVE  storage'[Advance(tail, k)] = taken + k + 1
      BY <2>0 DEF HeldBytesIntact
    <3>0. k \in 0..Size-1 /\ tail \in 0..Size-1
      BY <1>0 DEF RingIInv, RingTypeOK
    <3>1. Advance(tail, k) \in 0..Size-1
      BY <3>0, AdvanceType
    <3> QED BY <2>0, <2>4, <3>1 DEF RingIInv, RingTypeOK, HeldBytesIntact
  <2>6. \A k \in 0..pCopied-1 : Advance(head, k) # Advance(head, pCopied)
    BY <2>1, AdvanceInjective DEF RingIInv, RingTypeOK
  <2>7. ProducerCall'
    <3> SUFFICES ASSUME NEW k \in 0..pCopied
                 PROVE  storage'[Advance(head, k)] = sent + k + 1
      BY <1>4, <2>0, <2>1 DEF CopyIn, RingIInv, RingTypeOK, ProducerCall
    <3>0. k \in 0..Size-1 /\ head \in 0..Size-1
      BY <2>1 DEF RingIInv, RingTypeOK
    <3>1. Advance(head, k) \in 0..Size-1
      BY <3>0, AdvanceType
    <3>2. CASE k = pCopied
      BY <2>0, <3>1, <3>2 DEF RingIInv, RingTypeOK
    <3>3. CASE k # pCopied
      <4>1. k \in 0..pCopied-1
        BY <2>1, <3>3
      <4> QED BY <1>4, <2>0, <2>6, <3>1, <4>1 DEF CopyIn, RingIInv, RingTypeOK, ProducerCall
    <3> QED BY <3>2, <3>3
  <2> QED BY <1>4, <2>2, <2>5, <2>7
          DEF CopyIn, RingIInv, RingTypeOK, ConsumerCall, CopiesAreOldestBytes, cvars
<1>5. CASE PublishHead
  <2>1. pLen \in 0..Size-1 /\ Count + pLen \in 0..Size-1
    BY <1>0, <1>5 DEF PublishHead, RingIInv, RingTypeOK, ProducerCall, Capacity
  <2>2. head' = Advance(tail, Count + pLen)
    BY <1>0, <1>5, <2>1, AdvanceAdd DEF PublishHead, RingIInv, RingTypeOK
  <2>3. Count' = Count + pLen
    <3>1. tail' \in 0..Size-1 /\ head' = Advance(tail', Count + pLen)
      BY <1>5, <2>2 DEF PublishHead, RingIInv, RingTypeOK
    <3> QED BY <2>1, <3>1, CountIsDistance DEF Count
  <2>4. RingTypeOK' /\ CountIsExact'
    <3>1. head' \in 0..Size-1 /\ sent' \in Nat /\ sent' = taken + Count'
      BY <1>0, <1>5, <2>1, <2>3, AdvanceType DEF PublishHead, RingIInv, RingTypeOK
    <3>2. /\ UNCHANGED <<tail, storage, cpc, cLen, cCopied, cHead, cBuf, taken>>
          /\ ppc' = "idle" /\ pLen' = 0 /\ pCopied' = 0
      BY <1>5 DEF PublishHead, cvars
    <3>3. RingTypeOK'
      BY <3>1, <3>2 DEF RingIInv, RingTypeOK
    <3>4. taken <= sent' /\ sent' - taken = Count'
      BY <2>1, <2>3, <3>1 DEF RingIInv, RingTypeOK
    <3> QED BY <3>2, <3>3, <3>4 DEF CountIsExact
  <2>5. ASSUME NEW k \in 0..Count+pLen-1
        PROVE  storage[Advance(tail, k)] = taken + k + 1
    <3>1. CASE k < Count
      BY <1>0, <3>1 DEF RingIInv, HeldBytesIntact
    <3>2. CASE k >= Count
      <4>1. k - Count \in 0..pLen-1
        BY <1>0, <2>1, <3>2
      <4>2. Advance(head, k - Count) = Advance(tail, Count + (k - Count))
        BY <1>0, <2>1, <4>1, AdvanceAdd DEF RingIInv, RingTypeOK
      <4>3. Count + (k - Count) = k
        BY <1>0
      <4>4. storage[Advance(head, k - Count)] = sent + (k - Count) + 1
        BY <1>5, <4>1 DEF PublishHead, RingIInv, ProducerCall
      <4> QED BY <1>0, <4>2, <4>3, <4>4 DEF RingIInv, RingTypeOK
    <3> QED BY <1>0, <3>1, <3>2
  <2>6. HeldBytesIntact'
    <3>1. Count' = Count + pLen /\ UNCHANGED <<tail, storage, taken>>
      BY <1>5, <2>3 DEF PublishHead
    <3> SUFFICES ASSUME NEW k \in 0..Count+pLen-1
                 PROVE  storage'[Advance(tail', k)] = taken' + k + 1
      BY <1>0, <2>1, <2>3 DEF HeldBytesIntact
    <3> QED BY <2>5, <3>1
  <2>7. ProducerCall'
    BY <1>5 DEF PublishHead, ProducerCall
  <2>8. ConsumerCall'
    <3>1. sent - taken <= sent' - taken
      BY <1>0, <1>5, <2>1 DEF PublishHead, RingIInv, RingTypeOK
    <3>2. cLen <= sent - taken => cLen <= sent' - taken
      BY <1>0, <1>5, <2>1, <3>1 DEF PublishHead, RingIInv, RingTypeOK
    <3> QED BY <1>5, <3>2 DEF PublishHead, RingIInv, ConsumerCall, cvars
  <2>9. CopiesAreOldestBytes'
    BY <1>5 DEF PublishHead, RingIInv, CopiesAreOldestBytes, cvars
  <2> QED BY <2>4, <2>6, <2>7, <2>8, <2>9 DEF RingIInv
<1>6. ASSUME NEW op \in {"pop", "peek", "read"}, NEW n \in 1..Size-1,
             cpc = "idle", StartCopyOut(op, n), n <= Count
      PROVE  RingIInv'
  <2>1. /\ UNCHANGED <<head, tail, storage, ppc, pLen, pCopied, cHead, cBuf, sent, taken>>
        /\ Count' = Count
    BY <1>6 DEF StartCopyOut, pvars, Count
  <2>2. cpc' = op /\ cLen' = n /\ cCopied' = 0 /\ n <= sent - taken
    BY <1>0, <1>6 DEF StartCopyOut, RingIInv, RingTypeOK
  <2>3. RingTypeOK'
    BY <2>1, <2>2 DEF RingIInv, RingTypeOK
  <2>4. ConsumerCall' /\ CopiesAreOldestBytes'
    BY <2>1, <2>2 DEF RingIInv, RingTypeOK, ConsumerCall, CopiesAreOldestBytes
  <2> QED BY <2>1, <2>3, <2>4 DEF RingIInv, CountIsExact, HeldBytesIntact, ProducerCall
<1>7. CASE PopBegin
  BY <1>0, <1>6, <1>7 DEF PopBegin
<1>8. ASSUME NEW len \in 1..Size, PeekBegin(len) \/ ReadBegin(len) PROVE RingIInv'
  BY <1>0, <1>6, <1>8 DEF PeekBegin, ReadBegin, Least
<1>9. CASE CopyOut
  <2>1. cCopied \in 0..Count-1 /\ cCopied + 1 \in 1..Size-1
    BY <1>0, <1>9 DEF CopyOut, RingIInv, RingTypeOK, ConsumerCall
  <2>2. storage[Advance(tail, cCopied)] = taken + cCopied + 1
    BY <2>1 DEF RingIInv, HeldBytesIntact
  <2>3. cBuf' = [cBuf EXCEPT ![cCopied + 1] = taken + cCopied + 1]
    BY <1>9, <2>2 DEF CopyOut
  <2>4. /\ UNCHANGED <<head, tail, storage, ppc, pLen, pCopied, cpc, cLen, cHead, sent, taken>>
        /\ cCopied < cLen /\ cCopied' = cCopied + 1 /\ cpc \in {"pop", "peek", "read"}
    BY <1>9 DEF CopyOut, pvars
  <2>5. RingTypeOK'
    <3>1. cBuf' \in [1..Size-1 -> Nat]
      BY <2>1, <2>3 DEF RingIInv, RingTypeOK
    <3> QED BY <2>1, <2>4, <3>1 DEF RingIInv, RingTypeOK
  <2>6. CopiesAreOldestBytes'
    <3> SUFFICES ASSUME NEW k \in 1..cCopied+1 PROVE cBuf'[k] = taken + k
      BY <2>4 DEF CopiesAreOldestBytes
    <3>1. CASE k = cCopied + 1
      BY <2>1, <2>3, <3>1 DEF RingIInv, RingTypeOK
    <3>2. CASE k # cCopied + 1
      <4>1. k \in 1..cCopied /\ cBuf'[k] = cBuf[k]
        BY <2>1, <2>3, <3>2 DEF RingIInv, RingTypeOK
      <4> QED BY <2>4, <4>1 DEF RingIInv, CopiesAreOldestBytes
    <3> QED BY <3>1, <3>2
  <2>7. ConsumerCall'
    BY <1>0, <2>1, <2>4 DEF RingIInv, RingTypeOK, ConsumerCall
  <2>8. Count' = Count
    BY <2>4 DEF Count
  <2> QED BY <2>4, <2>5, <2>6, <2>7, <2>8
          DEF RingIInv, CountIsExact, HeldBytesIntact, ProducerCall
<1>10. CASE CopyOutDone
  <2>1. /\ UNCHANGED <<head, tail, storage, ppc, pLen, pCopied, cCopied, cHead, cBuf,
                        sent, taken>>
        /\ Count' = Count /\ cpc' \in {"idle", "release"}
    BY <1>10 DEF CopyOutDone, pvars, Count
  <2>2. cLen' \in 0..Count
    BY <1>0, <1>10 DEF CopyOutDone, Least, RingIInv, RingTypeOK, ConsumerCall
  <2>3. RingTypeOK'
    BY <1>0, <2>1, <2>2 DEF RingIInv, RingTypeOK
  <2> QED BY <1>0, <2>1, <2>2, <2>3 DEF RingIInv, RingTypeOK, CountIsExact, HeldBytesIntact,
          ProducerCall, ConsumerCall, CopiesAreOldestBytes
<1>11. ASSUME NEW len \in 1..Size, DiscardBegin(len) PROVE RingIInv'
  <2>1. /\ UNCHANGED <<head, tail, storage, ppc, pLen, pCopied, cCopied, cHead, cBuf,
                        sent, taken>>
        /\ Count' = Count /\ cpc' = "release"
    BY <1>11 DEF DiscardBegin, pvars, Count
  <2>2. cLen' \in 0..Count
    BY <1>0, <1>11 DEF DiscardBegin, Least
  <2>3. RingTypeOK'
    BY <1>0, <2>1, <2>2 DEF RingIInv, RingTypeOK
  <2> QED BY <1>0, <2>1, <2>2, <2>3 DEF RingIInv, RingTypeOK, CountIsExact, HeldBytesIntact,
          ProducerCall, ConsumerCall, CopiesAreOldestBytes
<1>12. ASSUME NEW n \in 0..Count, tail' = Advance(tail, n), taken' = taken + n,
              cpc' = "idle",
              UNCHANGED <<head, storage, pvars, cLen, cCopied, cHead, cBuf, delivered, sent>>
       PROVE  RingIInv'
  <2>1. Count - n \in 0..Size-1 /\ n \in 0..Size-1 /\ n + (Count - n) = Count
    BY <1>0, <1>12
  <2>2. head' = Advance(tail', Count - n)
    BY <1>0, <1>12, <2>1, AdvanceAdd DEF RingIInv, RingTypeOK
  <2>3. Count' = Count - n
    <3>1. tail' \in 0..Size-1
      BY <1>12, <2>1, AdvanceType DEF RingIInv, RingTypeOK
    <3> QED BY <2>1, <2>2, <3>1, CountIsDistance DEF Count
  <2>4. RingTypeOK' /\ CountIsExact'
    <3>1. tail' \in 0..Size-1 /\ taken' \in Nat /\ sent = taken' + Count'
      BY <1>0, <1>12, <2>1, <2>3, AdvanceType DEF RingIInv, RingTypeOK
    <3>2. UNCHANGED <<head, storage, ppc, pLen, pCopied, cLen, cCopied, cHead, cBuf, sent>>
      BY <1>12 DEF pvars
    <3>3. RingTypeOK'
      BY <1>12, <3>1, <3>2 DEF RingIInv, RingTypeOK
    <3>4. taken' <= sent /\ sent - taken' = Count'
      BY <2>1, <2>3, <3>1
    <3> QED BY <3>2, <3>3, <3>4 DEF CountIsExact
  <2>5. ASSUME NEW k \in 0..Count-n-1
        PROVE  storage[Advance(tail', k)] = taken + n + k + 1
    <3>1. n + k \in 0..Count-1 /\ k \in 0..Size-1 /\ n + k < Size
      BY <1>0, <2>1
    <3>2. Advance(tail', k) = Advance(tail, n + k)
      BY <1>12, <2>1, <3>1, AdvanceAdd DEF RingIInv, RingTypeOK
    <3> QED BY <3>1, <3>2 DEF RingIInv, RingTypeOK, HeldBytesIntact
  <2>6. HeldBytesIntact'
    BY <1>12, <2>3, <2>5 DEF HeldBytesIntact, Advance
  <2>7. ProducerCall'
    <3>1. UNCHANGED <<head, storage, ppc, pLen, pCopied, sent>> /\ taken' = taken + n
      BY <1>12 DEF pvars
    <3>2. sent + pLen - taken <= Capacity => sent + pLen - taken' <= Capacity
      BY <1>0, <3>1 DEF RingIInv, RingTypeOK, Capacity
    <3> QED BY <3>1, <3>2 DEF RingIInv, ProducerCall
  <2> QED BY <1>12, <2>4, <2>6, <2>7 DEF RingIInv, ConsumerCall, CopiesAreOldestBytes
<1>13. CASE PublishTail
  <2>1. cLen \in 0..Count
    BY <1>0, <1>13 DEF PublishTail, RingIInv, RingTypeOK, ConsumerCall
  <2> QED BY <1>12, <1>13, <2>1 DEF PublishTail
<1>14. CASE ClearBegin
  BY <1>0, <1>14 DEF ClearBegin, RingIInv, RingTypeOK, CountIsExact, HeldBytesIntact, ProducerCall,
     ConsumerCall, CopiesAreOldestBytes, pvars, Count
<1>15. CASE ClearEnd
  <2>1. cLen \in 0..Count /\ tail' = Advance(tail, cLen)
    BY <1>0, <1>15 DEF ClearEnd, RingIInv, RingTypeOK, ConsumerCall
  <2> QED BY <1>12, <1>15, <2>1 DEF ClearEnd
<1>16. CASE UNCHANGED ringVars
  BY <1>16 DEF ringVars, pvars, cvars, RingIInv, RingTypeOK, CountIsExact, HeldBytesIntact, ProducerCall,
     ConsumerCall, CopiesAreOldestBytes, Count
<1> QED
  BY <1>2, <1>3, <1>4, <1>5, <1>7, <1>8, <1>9, <1>10, <1>11, <1>13, <1>14, <1>15, <1>16
  DEF RingNext, Producer, Consumer

-----------------------------------------------------------------------------
(***************************************************************************)
(* The results.                                                            *)
(***************************************************************************)
LEMMA RingSpecIInv == RingSpec => []RingIInv
BY RingInitIInv, RingNextIInv, PTL DEF RingSpec

\* Indices and copies in progress stay inside the storage and the buffers
\* (advance, ring_buffer_write, ring_buffer_peek_bytes).
THEOREM RingTypeCorrect == RingSpec => []RingTypeOK
BY RingSpecIInv, PTL DEF RingIInv

\* head and tail alone always tell how many bytes are held
\* (ring_buffer_count, with one slot kept empty by ring_buffer_push).
THEOREM CountCorrect == RingSpec => []CountIsExact
BY RingSpecIInv, PTL DEF RingIInv

\* No byte is overwritten before the consumer gives its slot back
\* (ring_buffer_push, ring_buffer_write against ring_buffer_discard).
THEOREM NoOverwrite == RingSpec => []HeldBytesIntact
BY RingSpecIInv, PTL DEF RingIInv

\* What pop, peek and read hand to the caller is the oldest accepted bytes in
\* order, though the producer fills slots during the copy.
THEOREM CopiesCorrect == RingSpec => []CopiesAreOldestBytes
BY RingSpecIInv, PTL DEF RingIInv
-----------------------------------------------------------------------------
(***************************************************************************)
(* What ring_buffer.h promises: every step is one of ByteFifo's, or none.  *)
(***************************************************************************)
\* A call that had nothing to move has returned before it started.
CallsMoveBytes == /\ ppc = "copy" => pLen # 0
                  /\ cpc \in {"pop", "peek", "read"} => cLen # 0

LEMMA SpecCallsMoveBytes == RingSpec => []CallsMoveBytes
<1>1. RingInit => CallsMoveBytes
  BY DEF RingInit, CallsMoveBytes
<1>2. CallsMoveBytes /\ [RingNext]_ringVars => CallsMoveBytes'
  BY DEF CallsMoveBytes, RingNext, ringVars, pvars, cvars, Producer, Consumer, StartCopyIn, PushBegin,
     WriteBegin, CopyIn, PublishHead, StartCopyOut, PopBegin, PeekBegin, ReadBegin, CopyOut,
     CopyOutDone, DiscardBegin, PublishTail, ClearBegin, ClearEnd
<1> QED BY <1>1, <1>2, PTL DEF RingSpec

\* The bytes held, oldest first: what the abstract queue is mapped to.
HeldIn(s, t, c) == [k \in 1..c |-> s[Advance(t, k - 1)]]
Held == HeldIn(storage, tail, Count)

\* Numbered bytes: the queue is known from the two counts alone.
Numbered(first, n) == [k \in 1..n |-> first + k]

InOrder(s, t, c, first) == \A k \in 0..c-1 : s[Advance(t, k)] = first + k + 1

LEMMA HeldIsNumbered ==
    ASSUME NEW s, NEW t, NEW c \in 0..Size-1, NEW first \in Nat, InOrder(s, t, c, first)
    PROVE  HeldIn(s, t, c) = Numbered(first, c)
<1>1. ASSUME NEW k \in 1..c PROVE s[Advance(t, k - 1)] = first + k
  <2>1. k - 1 \in 0..c-1 /\ (k - 1) + 1 = k
    BY SizeAssumption
  <2>2. s[Advance(t, k - 1)] = first + (k - 1) + 1
    BY <2>1 DEF InOrder
  <2> QED BY <2>1, <2>2
<1> QED BY <1>1 DEF HeldIn, Numbered

\* Appending the bytes that follow, and dropping bytes from the front.
LEMMA NumberedAccept ==
    ASSUME NEW first \in Nat, NEW c \in Nat, NEW n \in Nat
    PROVE  /\ Len(Numbered(first, c)) = c
           /\ Numbered(first, c + n)
                 = Numbered(first, c) \o [i \in 1..n |-> first + c + i]
BY DEF Numbered

LEMMA NumberedRemove ==
    ASSUME NEW first \in Nat, NEW c \in Nat, NEW n \in 1..c
    PROVE  /\ SubSeq(Numbered(first, c), 1, n) = [i \in 1..n |-> first + i]
           /\ SubSeq(Numbered(first, c), n + 1, c) = Numbered(first + n, c - n)
BY DEF Numbered

\* A difference, for any numbers: before and after a step alike.
LEMMA Difference == \A s, t, c \in Nat : s - t = c => s = t + c
OBVIOUS

\* What a step does to the abstract state, in terms of the counts.
LEMMA StepsOnCounts ==
    ASSUME RingIInv, CallsMoveBytes, RingNext
    PROVE  \/ UNCHANGED <<taken, sent, delivered>>
           \/ /\ \E n \in 1..Capacity : n <= Capacity - Count /\ sent' = sent + n
              /\ UNCHANGED <<taken, delivered>>
           \/ /\ \E n \in 1..Count : delivered' = [i \in 1..n |-> taken + i]
              /\ UNCHANGED <<taken, sent>>
           \/ /\ \E n \in 1..Count : taken' = taken + n
              /\ UNCHANGED <<sent, delivered>>
<1> DEFINE Goal ==
           \/ UNCHANGED <<taken, sent, delivered>>
           \/ /\ \E n \in 1..Capacity : n <= Capacity - Count /\ sent' = sent + n
              /\ UNCHANGED <<taken, delivered>>
           \/ /\ \E n \in 1..Count : delivered' = [i \in 1..n |-> taken + i]
              /\ UNCHANGED <<taken, sent>>
           \/ /\ \E n \in 1..Count : taken' = taken + n
              /\ UNCHANGED <<sent, delivered>>
<1>0. Count \in 0..Size-1 /\ sent = taken + Count /\ sent \in Nat /\ taken \in Nat
  BY HeadIsTailPlusCount DEF RingIInv, RingTypeOK, CountIsExact
<1>1. CASE PublishHead
  <2>1. pLen \in 1..Capacity /\ pLen <= Capacity - Count
    BY <1>0, <1>1, SizeAssumption
    DEF PublishHead, RingIInv, RingTypeOK, ProducerCall, CallsMoveBytes, Capacity
  <2> QED BY <1>1, <2>1 DEF PublishHead, cvars
<1>2. CASE CopyOutDone
  <2>1. cLen \in 1..Count /\ cCopied = cLen
    BY <1>0, <1>2 DEF CopyOutDone, RingIInv, RingTypeOK, ConsumerCall, CallsMoveBytes
  <2>2. delivered' = [i \in 1..cLen |-> taken + i]
    BY <1>2, <2>1 DEF CopyOutDone, RingIInv, CopiesAreOldestBytes
  <2> QED BY <1>2, <2>1, <2>2 DEF CopyOutDone
<1>3. CASE PublishTail \/ ClearEnd
  <2>1. cLen \in 0..Count /\ taken' = taken + cLen /\ UNCHANGED <<sent, delivered>>
    BY <1>0, <1>3 DEF PublishTail, ClearEnd, RingIInv, RingTypeOK, ConsumerCall
  <2>2. CASE cLen = 0
    BY <1>0, <2>1, <2>2
  <2>3. CASE cLen # 0
    BY <1>0, <2>1, <2>3
  <2> QED BY <2>2, <2>3
<1>4. CASE \/ PushBegin \/ CopyIn \/ PopBegin \/ CopyOut \/ ClearBegin
           \/ \E len \in 1..Size : \/ WriteBegin(len) \/ PeekBegin(len)
                                   \/ ReadBegin(len) \/ DiscardBegin(len)
  BY <1>4 DEF PushBegin, WriteBegin, StartCopyIn, CopyIn, PopBegin, PeekBegin, ReadBegin,
     StartCopyOut, CopyOut, DiscardBegin, ClearBegin, pvars, cvars
<1> QED BY <1>1, <1>2, <1>3, <1>4 DEF RingNext, Producer, Consumer

\* Each change of the counts is the abstract operation of the same size.
LEMMA StepImplementsFifo ==
    ASSUME RingIInv, RingIInv', CallsMoveBytes, [RingNext]_ringVars
    PROVE  [Fifo!Next]_<<Held, sent, delivered>>
<1>1. /\ Count \in 0..Size-1 /\ sent = taken + Count /\ sent \in Nat /\ taken \in Nat
      /\ Held = Numbered(taken, Count)
  <2>1. Count \in 0..Size-1 /\ sent = taken + Count /\ sent \in Nat /\ taken \in Nat
    BY HeadIsTailPlusCount DEF RingIInv, RingTypeOK, CountIsExact
  <2>2. InOrder(storage, tail, Count, taken)
    BY DEF RingIInv, HeldBytesIntact, InOrder
  <2> QED BY <2>1, <2>2, HeldIsNumbered DEF Held
<1>2. /\ Count' \in 0..Size-1 /\ Count' \in Nat /\ sent' = taken' + Count'
      /\ sent' \in Nat /\ taken' \in Nat /\ Held' = Numbered(taken', Count')
  <2>1. /\ head' \in 0..Size-1 /\ tail' \in 0..Size-1
        /\ sent' \in Nat /\ taken' \in Nat
    BY DEF RingIInv, RingTypeOK
  <2>2. Count' \in 0..Size-1
    BY <2>1, CountRange, Zenon DEF Count
  <2>3. Count' \in Nat
    BY <2>2, SizeAssumption
  <2>4. sent' - taken' = Count'
    BY Zenon DEF RingIInv, CountIsExact
  <2>5. sent' = taken' + Count'
    BY <2>1, <2>3, <2>4, Difference, Zenon
  <2>6. InOrder(storage', tail', Count', taken')
    BY Zenon DEF RingIInv, HeldBytesIntact, InOrder
  <2>7. Held' = Numbered(taken', Count')
    <3>1. Held' = HeldIn(storage', tail', Count')
      BY Zenon DEF Held
    <3>2. HeldIn(storage', tail', Count') = Numbered(taken', Count')
      BY <2>1, <2>2, <2>6, HeldIsNumbered, Zenon
    <3> QED BY <3>1, <3>2, Zenon
  <2> QED BY <2>1, <2>2, <2>3, <2>5, <2>7, Zenon
<1>0. Count \in Nat /\ Len(Held) = Count
  <2>1. Count \in Nat
    BY <1>1, SizeAssumption
  <2> QED BY <1>1, <2>1, NumberedAccept
<1>3. CASE UNCHANGED <<taken, sent, delivered>>
  <2>1. Count' = Count
    <3>1. \A d \in Nat : sent = taken + d => d = Count
      BY <1>0, <1>1
    <3> QED BY <1>2, <1>3, <3>1, Zenon
  <2> QED BY <1>1, <1>2, <1>3, <2>1, Zenon
<1>4. ASSUME NEW n \in 1..Capacity, n <= Capacity - Count, sent' = sent + n,
             UNCHANGED <<taken, delivered>>
      PROVE  Fifo!Accept(n)
  <2>0. n \in Nat
    BY SizeAssumption DEF Capacity
  <2>1. Count' = Count + n
    <3>1. sent + n = taken + Count'
      BY <1>2, <1>4, Zenon
    <3>2. \A d \in Nat : sent + n = taken + d => d = Count + n
      BY <1>0, <1>1, <2>0
    <3> QED BY <1>2, <3>1, <3>2, Zenon
  <2>2. Numbered(taken, Count + n) = Numbered(taken, Count) \o [i \in 1..n |-> taken + Count + i]
    BY <1>0, <1>1, <2>0, NumberedAccept
  <2>3. Held' = Held \o [i \in 1..n |-> sent + i]
    BY <1>1, <1>2, <1>4, <2>1, <2>2, Zenon
  <2> QED BY <1>0, <1>4, <2>3, Zenon DEF Fifo!Accept, Held, HeldIn
<1>5. ASSUME NEW n \in 1..Count, delivered' = [i \in 1..n |-> taken + i],
             UNCHANGED <<taken, sent>>
      PROVE  Fifo!Deliver(n)
  <2>1. Count' = Count
    <3>1. \A d \in Nat : sent = taken + d => d = Count
      BY <1>0, <1>1
    <3> QED BY <1>2, <1>5, <3>1, Zenon
  <2>2. n <= Len(Held) /\ SubSeq(Held, 1, n) = [i \in 1..n |-> taken + i]
    BY <1>0, <1>1, NumberedRemove
  <2>3. Held' = Held
    BY <1>1, <1>2, <1>5, <2>1, Zenon
  <2> QED BY <1>5, <2>2, <2>3, Zenon DEF Fifo!Deliver, Held, HeldIn
<1>6. ASSUME NEW n \in 1..Count, taken' = taken + n, UNCHANGED <<sent, delivered>>
      PROVE  Fifo!Remove(n)
  <2>0. n \in Nat
    BY <1>0
  <2>1. Count' = Count - n
    <3>1. sent = (taken + n) + Count'
      BY <1>2, <1>6, Zenon
    <3>2. \A d \in Nat : sent = (taken + n) + d => d = Count - n
      BY <1>0, <1>1, <2>0
    <3> QED BY <1>2, <3>1, <3>2, Zenon
  <2>2. n <= Len(Held) /\ SubSeq(Held, n + 1, Len(Held)) = Numbered(taken + n, Count - n)
    BY <1>0, <1>1, NumberedRemove
  <2>3. Held' = SubSeq(Held, n + 1, Len(Held))
    BY <1>2, <1>6, <2>1, <2>2, Zenon
  <2> QED BY <1>6, <2>2, <2>3, Zenon DEF Fifo!Remove, Held, HeldIn
<1>7. CASE UNCHANGED ringVars
  BY <1>3, <1>7 DEF ringVars, cvars
<1>8. CASE RingNext
  <2>1. 1..Count \subseteq 1..Capacity
    BY <1>1, SizeAssumption DEF Capacity
  <2> QED BY <1>3, <1>4, <1>5, <1>6, <1>8, <2>1, StepsOnCounts DEF Fifo!Next
<1> QED BY <1>7, <1>8

\* The lock-free ring buffer is a byte FIFO of capacity Size - 1: under every
\* interleaving of the two sides, each call takes effect at one instant as the
\* abstract operation ring_buffer.h names.
THEOREM RingImplementsFifo == RingSpec => ImplementsFifo
<1>1. RingInit => Fifo!Init
  BY SizeAssumption DEF RingInit, Fifo!Init, Count
<1>2. RingIInv /\ RingIInv' /\ CallsMoveBytes /\ [RingNext]_ringVars => [Fifo!Next]_<<Held, sent, delivered>>
  BY StepImplementsFifo
<1> QED BY <1>1, <1>2, RingSpecIInv, SpecCallsMoveBytes, PTL
        DEF RingSpec, ImplementsFifo, Fifo!Spec, Held, HeldIn

\* ring_buffer_discard, called inside ring_buffer_read, removes just what was
\* copied out, though it counts again after the producer may have published.
THEOREM ReadsRemoveWhatTheyReturn == RingSpec => ReadRemovesWhatItReturns
<1>1. RingIInv /\ [RingNext]_ringVars
        => [cpc = "read" /\ cpc' = "release" => cLen' = Len(delivered')]_ringVars
  <2> SUFFICES ASSUME RingIInv, RingNext, cpc = "read", cpc' = "release"
               PROVE  cLen' = Len(delivered')
    OBVIOUS
  <2>1. CopyOutDone
    BY DEF RingNext, Producer, Consumer, StartCopyIn, PushBegin, WriteBegin, CopyIn, PublishHead,
       StartCopyOut, PopBegin, PeekBegin, ReadBegin, CopyOut, DiscardBegin, PublishTail,
       ClearBegin, ClearEnd, cvars, RingIInv, RingTypeOK
  <2>2. Count \in 0..Size-1 /\ cLen \in 0..Count
    BY HeadIsTailPlusCount, <2>1 DEF CopyOutDone, RingIInv, RingTypeOK, CountIsExact, ConsumerCall
  <2>3. cLen' = cLen
    BY <2>1, <2>2, SizeAssumption DEF CopyOutDone, Least
  <2> QED BY <2>1, <2>2, <2>3, SizeAssumption DEF CopyOutDone
<1> QED BY <1>1, RingSpecIInv, PTL DEF RingSpec, ReadRemovesWhatItReturns
=============================================================================
