------------------------------ MODULE BtConsole ------------------------------
(***************************************************************************)
(* bt_console.c and bt_stream.c: the console over one RFCOMM channel.      *)
(* BTstack allows one channel (btstack_config.h) and grants each request   *)
(* to send once, unless the channel is gone by then.  A byte is the        *)
(* connection it was written in and its number there.                      *)
(***************************************************************************)
EXTENDS Integers, Sequences

CONSTANTS
    OutCapacity, InCapacity,   \* of the two rings
    Mtus,                      \* what a link takes in one packet
    MaxWrite,                  \* bytes of one write, and of one packet received
    MaxBytes,                  \* bytes written and received in one connection, at most
    MaxConnections             \* channels opened, at most

ASSUME BtAssumption ==
    /\ OutCapacity \in Nat \ {0} /\ InCapacity \in Nat \ {0} /\ Mtus \subseteq Nat \ {0}
    /\ MaxWrite \in Nat \ {0} /\ MaxBytes \in Nat /\ MaxConnections \in Nat

VARIABLES
    stream,        \* bt_stream_t
    channel,       \* the RFCOMM channel: g_rfcomm_channel_id, and a request to send
    peer           \* what the peer of this connection has sent and been sent

btVars == <<stream, channel, peer>>

Least(a, b) == IF a < b THEN a ELSE b
Numbered(first, n) == [i \in 1..n |-> <<channel.number, first + i - 1>>]
-----------------------------------------------------------------------------
(* bt_stream.c *)

\* bt_stream_set_connected, with the output kept for the next peer.
DisconnectedKept == [stream EXCEPT !.incoming = <<>>, !.connected = FALSE]

Disconnected == [stream EXCEPT !.incoming = <<>>, !.outgoing = <<>>, !.connected = FALSE]

\* bt_stream_write: the tail of what does not fit is dropped, and counted.
Buffered(data) ==
    LET fits == IF stream.connected
                  THEN Least(Len(data), OutCapacity - Len(stream.outgoing)) ELSE 0
    IN  [stream EXCEPT !.outgoing = @ \o SubSeq(data, 1, fits),
                       !.dropped_outgoing = @ + Len(data) - fits]

\* bt_stream_on_received
Stored(data) ==
    LET fits == Least(Len(data), InCapacity - Len(stream.incoming))
    IN  [stream EXCEPT !.incoming = @ \o SubSeq(data, 1, fits),
                       !.dropped_incoming = @ + Len(data) - fits]

-----------------------------------------------------------------------------
(* bt_console.c *)

\* RFCOMM_EVENT_CHANNEL_OPENED, well or not.
ChannelOpened ==
    /\ ~channel.open /\ channel.number < MaxConnections
    /\ channel' = [channel EXCEPT !.open = TRUE, !.number = @ + 1]
    /\ stream' = [stream EXCEPT !.connected = TRUE]
    /\ peer' = [sent |-> 0, told |-> 0, heard |-> <<>>, base |-> stream.dropped_outgoing]

ChannelFailed ==
    /\ ~channel.open
    /\ stream' = Disconnected
    /\ UNCHANGED <<channel, peer>>

\* RFCOMM_EVENT_CHANNEL_CLOSED; a request goes with its channel.
ChannelClosed ==
    /\ channel.open
    /\ channel' = [channel EXCEPT !.open = FALSE, !.asked = FALSE]
    /\ stream' = Disconnected
    /\ UNCHANGED peer

\* stream_write: buffered, and a credit asked for.
StreamWrite ==
    /\ peer.told < MaxBytes
    /\ \E n \in 1..Least(MaxWrite, MaxBytes - peer.told) :
         /\ stream' = Buffered(Numbered(peer.told + 1, n))
         /\ peer' = IF channel.open THEN [peer EXCEPT !.told = @ + n] ELSE peer
    /\ stream.dropped_outgoing < MaxBytes
    /\ channel' = [channel EXCEPT !.asked = channel.open /\ (@ \/ stream'.outgoing # <<>>)]

\* RFCOMM_EVENT_CAN_SEND_NOW and bt_stream_on_can_send: rfcomm_send takes a
\* packet whole or not at all, and what it has not taken stays first.
CanSendNow ==
    /\ channel.open /\ channel.asked
    /\ \E mtu \in Mtus, taken \in BOOLEAN :
         LET room == Least(mtu, Len(stream.outgoing))
             n    == IF taken THEN room ELSE 0
         IN  /\ peer' = [peer EXCEPT !.heard = @ \o SubSeq(stream.outgoing, 1, n)]
             /\ stream' = [stream EXCEPT !.outgoing = SubSeq(@, n + 1, Len(@))]
             /\ channel' = [channel EXCEPT !.asked = stream'.outgoing # <<>>]

\* bt_console_poll asks again for what nobody asked for.
ConsolePoll ==
    /\ channel.open /\ stream.outgoing # <<>>
    /\ channel' = [channel EXCEPT !.asked = TRUE]
    /\ UNCHANGED <<stream, peer>>

\* RFCOMM_DATA_PACKET
DataPacket ==
    /\ channel.open /\ peer.sent < MaxBytes
    /\ \E n \in 1..Least(MaxWrite, MaxBytes - peer.sent) :
         /\ stream' = Stored(Numbered(peer.sent + 1, n))
         /\ peer' = [peer EXCEPT !.sent = @ + n]
    /\ UNCHANGED channel

\* stream_read, bt_stream_read
StreamRead ==
    /\ stream.incoming # <<>>
    /\ stream' = [stream EXCEPT !.incoming = Tail(@)]
    /\ UNCHANGED <<channel, peer>>

BtInit ==
    /\ stream = [incoming |-> <<>>, outgoing |-> <<>>, connected |-> FALSE,
                 dropped_outgoing |-> 0, dropped_incoming |-> 0]
    /\ channel = [open |-> FALSE, number |-> 0, asked |-> FALSE]
    /\ peer = [sent |-> 0, told |-> 0, heard |-> <<>>, base |-> 0]

BtNext ==
    \/ ChannelOpened \/ ChannelFailed \/ ChannelClosed
    \/ StreamWrite \/ CanSendNow \/ ConsolePoll \/ DataPacket \/ StreamRead

BtSpec == BtInit /\ [][BtNext]_btVars
-----------------------------------------------------------------------------
(* Properties *)

Ascending(bytes) ==
    /\ \A i \in 1..Len(bytes) : bytes[i][1] = channel.number
    /\ \A i \in 1..Len(bytes) - 1 : bytes[i][2] < bytes[i + 1][2]

\* A peer hears only what was written while it was connected, in order and
\* nothing twice, and what it does not hear is counted as dropped; the console
\* reads only what this peer sent, in order; and output that waits on an open
\* channel has asked to be sent (bt_stream_set_connected, bt_stream_on_can_send,
\* stream_write).
PeerHearsItsOwn ==
    channel.open =>
        /\ Ascending(peer.heard \o stream.outgoing) /\ Ascending(stream.incoming)
        /\ Len(peer.heard) + Len(stream.outgoing) + stream.dropped_outgoing - peer.base
             = peer.told
        /\ stream.outgoing # <<>> => channel.asked
=============================================================================
