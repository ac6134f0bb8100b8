------------------------------ MODULE UdpSocket ------------------------------
(***************************************************************************)
(* udp.c: one socket, opened, rebound and closed over lwIP's control       *)
(* blocks, and datagrams in both directions.  lwIP runs inside the poll,   *)
(* so a datagram arrives between two calls or, from a callback that calls  *)
(* back, after the last thing on_recv does.                                *)
(***************************************************************************)
EXTENDS Integers, FiniteSets

CONSTANTS
    Pcbs,          \* lwIP's UDP control blocks (MEMP_NUM_UDP_PCB)
    MaxDatagrams   \* datagrams in each direction, at most

ASSUME UdpAssumption == IsFiniteSet(Pcbs) /\ MaxDatagrams \in Nat

VARIABLES
    socket,        \* udp_socket_t
    lwip,         \* the blocks lwIP has given out, and who is told of what arrives
    names,         \* lwIP's cache: what is known of the one host name
    wire           \* what has arrived for the socket and what has left it

udpVars == <<socket, lwip, names, wire>>

NoPcb == 0
Sizes == {"fits", "too_long"}    \* UDP_MAX_DATAGRAM, UDP_MAX_PAYLOAD
Hosts == {"unicast", "multicast", "broadcast", "name"}
-----------------------------------------------------------------------------
(* Opening and closing *)

\* The socket and the stack after a close.
Closed == [socket EXCEPT !.open = FALSE, !.pcb = NoPcb]
StackClosed == [given |-> lwip.given \ {socket.pcb}, told |-> lwip.told \ {socket.pcb}]

\* A second open takes a block and leaves the one it had.
UdpOpenAgain(broadcast) ==
    /\ UNCHANGED <<names, wire>>
    /\ \/ /\ Pcbs \ lwip.given # {}
          /\ LET pcb == CHOOSE p \in Pcbs \ lwip.given : TRUE
             IN  /\ lwip' = [given |-> lwip.given \cup {pcb}, told |-> lwip.told \cup {pcb}]
                 /\ socket' = [Closed EXCEPT !.open = TRUE, !.pcb = pcb, !.broadcast = broadcast]
       \/ socket' = Closed /\ lwip' = StackClosed

\* udp_socket_open: closed first; then no block is left, or the port is refused
\* and the block given back, or the socket is open.
UdpOpen(broadcast) ==
    /\ UNCHANGED <<names, wire>>
    /\ \/ /\ Pcbs \ StackClosed.given # {}
          /\ LET pcb == CHOOSE p \in Pcbs \ StackClosed.given : TRUE
             IN  /\ lwip' = [given |-> StackClosed.given \cup {pcb},
                              told |-> StackClosed.told \cup {pcb}]
                 /\ socket' = [Closed EXCEPT !.open = TRUE, !.pcb = pcb, !.broadcast = broadcast]
       \/ socket' = Closed /\ lwip' = StackClosed

\* udp_socket_close, udp_socket_deinit
UdpClose ==
    /\ socket' = Closed /\ lwip' = StackClosed
    /\ UNCHANGED <<names, wire>>

-----------------------------------------------------------------------------
(* on_recv *)

\* Counted, not truncated; a chain shorter than it says is dropped too.
Datagram ==
    /\ wire.arrived < MaxDatagrams
    /\ \E pcb \in lwip.told, whole \in BOOLEAN, size \in Sizes :
         /\ wire' = [wire EXCEPT !.arrived = @ + 1]
         /\ socket' = IF size = "too_long" \/ ~whole THEN [socket EXCEPT !.dropped = @ + 1]
                      ELSE [socket EXCEPT !.received = @ + 1]
    /\ UNCHANGED <<lwip, names>>

-----------------------------------------------------------------------------
(* Sending *)

\* send_datagram: lwIP may have no buffer, or refuse it.
SendDatagram(host, size) ==
    \/ UNCHANGED socket /\ UNCHANGED wire
    \/ /\ size = "fits" /\ host # "multicast"
       /\ socket' = [socket EXCEPT !.sent = @ + 1]
       /\ wire' = [wire EXCEPT !.left = @ + 1, !.everyone = @ \/ host = "broadcast"]

\* udp_socket_send_to: a name that is not known yet is only asked for.
SendTo(host, size) ==
    /\ socket.open /\ wire.left < MaxDatagrams
    /\ IF host = "name" /\ names # "known"
         THEN names' \in {names, "asked"} /\ UNCHANGED <<socket, wire>>
       ELSE SendDatagram(host, size) /\ UNCHANGED names
    /\ UNCHANGED lwip

\* udp_socket_send_to_endpoint, udp_socket_broadcast
SendToEndpoint(host, size) ==
    /\ socket.open /\ wire.left < MaxDatagrams
    /\ host = "broadcast" => socket.broadcast
    /\ SendDatagram(host, size)
    /\ UNCHANGED <<lwip, names>>

\* The answer goes to lwIP's cache, whatever became of the socket.
NameAnswered ==
    /\ names = "asked"
    /\ names' \in {"unknown", "known"}
    /\ UNCHANGED <<socket, lwip, wire>>

UdpInit ==
    /\ socket = [open |-> FALSE, pcb |-> NoPcb, broadcast |-> FALSE, received |-> 0,
                 dropped |-> 0, sent |-> 0]
    /\ lwip = [given |-> {}, told |-> {}]
    /\ names = "unknown"
    /\ wire = [arrived |-> 0, left |-> 0, everyone |-> FALSE]

UdpNext ==
    \/ \E broadcast \in BOOLEAN : UdpOpen(broadcast)
    \/ UdpClose \/ Datagram \/ NameAnswered
    \/ \E host \in Hosts, size \in Sizes : SendTo(host, size)
    \/ \E host \in Hosts \ {"name"}, size \in Sizes : SendToEndpoint(host, size)

UdpSpec == UdpInit /\ [][UdpNext]_udpVars
-----------------------------------------------------------------------------
(* Properties *)

\* However often the socket is opened again, refused and closed, it holds one
\* control block while it is open and none otherwise, and lwIP calls back for
\* that one only; every datagram that came is counted as received or as
\* dropped, and the count of those sent is what left, a lookup under way
\* notwithstanding (udp_socket_open: "rebinds rather than leaking").
DatagramsAreAccounted ==
    /\ lwip.given = IF socket.open THEN {socket.pcb} ELSE {}
    /\ lwip.told = lwip.given
    /\ socket.received + socket.dropped = wire.arrived
    /\ socket.sent = wire.left
=============================================================================
