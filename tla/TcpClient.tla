------------------------------ MODULE TcpClient ------------------------------
(***************************************************************************)
(* One tcp_client_t (components/tcp: tcp.c over tcp_stream.c, with the     *)
(* retry budget of wifi_policy.c), the lwIP protocol control blocks it     *)
(* owns, the resolver, and the peer at the other end.                      *)
(*                                                                         *)
(* Everything runs on one core: the main loop calls the API and            *)
(* tcp_client_poll, and lwIP's callbacks run while the main loop polls the *)
(* link, so a call and a callback never overlap and each is one action.    *)
(* What interleaves is the order in which they come.                       *)
(*                                                                         *)
(* Time is abstracted: a timer that runs may have expired at any poll.     *)
(* A byte is the pair <<session, position>> in which it was written.       *)
(*                                                                         *)
(* Some definitions are preceded by a faulty variant of theirs that no     *)
(* specification here uses: the slip a property below would catch.         *)
(***************************************************************************)
EXTENDS Integers, Sequences, FiniteSets

CONSTANTS
    Pcbs,          \* lwIP's pool of TCP control blocks
    NoPcb,         \* client->pcb == NULL
    RxCapacity,    \* what the caller's receive ring holds
    TxCapacity,    \* what the caller's transmit ring holds
    ChunkMax,      \* TCP_STREAM_SEGMENT_MAX
    SndBuf,        \* TCP_SND_BUF
    SegmentMax,    \* the longest segment a peer sends (TCP_MSS)
    Configs,       \* [auto, budget]: auto_reconnect and retry.max_attempts
    LateAnswers,   \* may the resolver answer a lookup nobody waits for?
    MaxLookups,    \* requests the resolver's table takes
    MaxSessions,   \* bound: connections in a behaviour
    MaxInput,      \* bound: bytes a peer sends in a session
    MaxOutput,     \* bound: bytes accepted for sending in a session
    MaxAttempts    \* bound: where the count of attempts saturates

ASSUME PcbAssumption == NoPcb \notin Pcbs
ASSUME SizeAssumption ==
    /\ RxCapacity \in Nat \ {0} /\ TxCapacity \in Nat \ {0}
    /\ ChunkMax \in Nat \ {0} /\ SndBuf \in Nat \ {0}
    /\ SegmentMax \in Nat \ {0}
ASSUME BoundAssumption ==
    /\ MaxLookups \in Nat /\ MaxSessions \in Nat
    /\ MaxInput \in Nat /\ MaxOutput \in Nat /\ MaxAttempts \in Nat \ {0}
ASSUME ConfigAssumption ==
    /\ Configs # {}
    /\ Configs \subseteq [auto : BOOLEAN, budget : 0..MaxAttempts]
ASSUME LateAssumption == LateAnswers \in BOOLEAN

VARIABLES
    client,     \* the tcp_client_t and the tcp_stream_t inside it
    net,        \* lwIP: each control block, and what its peer has in flight
    lookups,    \* on_dns callbacks lwIP still owes
    log         \* history no code reads: the session, the bytes accepted in it,
                \* the last byte read, the sessions whose end was reported or
                \* decided here, and whether a connection is wanted

vars == <<client, net, lookups, log>>

States == {"idle", "resolving", "connecting", "connected", "waiting", "gave_up"}

Byte == (1..MaxSessions) \X (1..(MaxInput + MaxOutput))

\* A control block nobody uses.
Unused == [status |-> "free", mine |-> FALSE, session |-> 0, sent |-> 0,
           toClient |-> <<>>, fin |-> FALSE, wire |-> <<>>, unacked |-> 0]

\* What a handler starts from, and the shape of each of its outcomes.
World == [client |-> client, net |-> net, lookups |-> lookups, log |-> log]

Becomes(w) == /\ client' = w.client
              /\ net' = w.net
              /\ lookups' = w.lookups
              /\ log' = w.log

\* Run F on every outcome in S: the statement after.
Then(S, F(_)) == UNION {F(w) : w \in S}

-----------------------------------------------------------------------------
(* tcp_stream.c *)

Least(a, b) == IF a < b THEN a ELSE b

\* The memset of tcp_client_init and of tcp_stream_init.
StreamCleared(c) == [c EXCEPT !.ready = FALSE, !.streamUp = FALSE,
                              !.incoming = <<>>, !.outgoing = <<>>]

\* tcp_stream_init on buffers it can use: both rings empty, no connection.
StreamInit(c) == [StreamCleared(c) EXCEPT !.ready = TRUE]

\* A new session that does not discard what the last one left.
StreamUpKeepsInput(c) == [c EXCEPT !.streamUp = c.ready]

StreamUp(c) == IF c.ready THEN [c EXCEPT !.streamUp = TRUE, !.incoming = <<>>] ELSE c

\* On a stream never set up there is nothing to take down.
StreamDown(c) == [c EXCEPT !.streamUp = FALSE, !.outgoing = <<>>]

\* Off by one, in each direction.
CanAcceptOneMore(c, length) == c.ready /\ RxCapacity - Len(c.incoming) + 1 >= length
CanAcceptOneFewer(c, length) == c.ready /\ RxCapacity - Len(c.incoming) > length

CanAccept(c, length) == c.ready /\ RxCapacity - Len(c.incoming) >= length

\* tcp_stream_flush hands over chunk after chunk.  Of what there is room for it
\* gets rid of all, unless the link refuses one of the chunks.
Flushed(full) == {full} \cup {n \in 0..full : n % ChunkMax = 0}

-----------------------------------------------------------------------------
(* tcp.c, the static helpers *)

\* A budget of 0 taken for no attempts at all.
ExhaustedAtZero(c) == c.attempts >= c.config.budget

Exhausted(c) == c.config.budget # 0 /\ c.attempts >= c.config.budget

\* handle_failure.
Failed(c) ==
    LET d == StreamDown(c)
    IN  IF ~c.config.auto /\ c.sessions > 0 THEN [d EXCEPT !.state = "idle"]
        ELSE IF Exhausted(c) THEN [d EXCEPT !.state = "gave_up"]
        ELSE [d EXCEPT !.state = "waiting",
                       !.attempts = Least(c.attempts + 1, MaxAttempts)]

HandleFailure(w) == {[w EXCEPT !.client = Failed(@)]}

\* release_pcb.  A graceful close leaves the block with lwIP until the peer
\* has answered, unless there is no memory for the FIN and it is aborted.
Release(w, graceful) ==
    IF w.client.pcb = NoPcb THEN {w}
    ELSE {[w EXCEPT !.client.pcb = NoPcb,
                    !.net[w.client.pcb] = [Unused EXCEPT !.status = s]]
            : s \in IF graceful THEN {"closing", "free"} ELSE {"free"}}

\* The first n buffered bytes go to lwIP.
Handed(w, n) ==
    LET c == w.client
        b == w.net[c.pcb]
    IN  [w EXCEPT !.client = [c EXCEPT !.outgoing = SubSeq(@, n + 1, Len(@))],
                  !.net[c.pcb] = [b EXCEPT !.wire = @ \o SubSeq(c.outgoing, 1, n),
                                           !.unacked = @ + n]]

\* pump_output: everything there is room for, unless tcp_write refuses one of
\* the pieces it is offered.
Pump(w) ==
    LET c == w.client
        room == SndBuf - w.net[c.pcb].unacked
    IN  IF c.state # "connected" \/ c.pcb = NoPcb \/ c.outgoing = <<>> \/ ~c.streamUp
        THEN {w}
        ELSE {Handed(w, n) : n \in Flushed(Least(room, Len(c.outgoing)))}

\* n more bytes wait to be sent.
Buffered(w, n) ==
    LET bytes == [i \in 1..n |-> <<w.log.session, w.log.written + i>>] IN
    [w EXCEPT !.client = [w.client EXCEPT !.outgoing = @ \o bytes],
              !.log = [w.log EXCEPT !.written = @ + n]]

\* tcp_client_write: the tail that does not fit is dropped.
WriteBytes(w, length) ==
    LET c == w.client
        taken == IF c.streamUp THEN Least(length, TxCapacity - Len(c.outgoing)) ELSE 0
    IN  IF taken > 0 THEN Pump(Buffered(w, taken)) ELSE {w}

\* A block of lwIP's, set up to call the client back.
Opened(w, p) == [w EXCEPT !.client = [@ EXCEPT !.pcb = p, !.state = "connecting"],
                          !.net[p] = [Unused EXCEPT !.status = "connecting",
                                                    !.mine = TRUE]]

\* start_connect, and the handle_failure each of its callers adds when it fails.
StartConnect(w) ==
    LET opened == {Opened(w, p) : p \in {q \in Pcbs : w.net[q].status = "free"}}
    IN  IF opened = {} THEN HandleFailure(w)
        ELSE opened
                \cup Then(Then(opened, LAMBDA x : Release(x, FALSE)), HandleFailure)

\* begin_attempt: the name is known, is being looked up, or cannot be.
BeginAttempt(w) ==
    StartConnect(w)
        \cup HandleFailure(w)
        \cup IF w.lookups < MaxLookups
             THEN {[w EXCEPT !.client.state = "resolving", !.lookups = @ + 1]}
             ELSE {}

\* lwIP has no call that takes a lookup back.  With LateAnswers FALSE the
\* answer to one that the client stopped waiting for never comes.
Abandon(w) == IF LateAnswers THEN w ELSE [w EXCEPT !.lookups = 0]

-----------------------------------------------------------------------------
(* The application *)

Init == /\ client = [initialised |-> FALSE, state |-> "idle", pcb |-> NoPcb,
                     attempts |-> 0, sessions |-> 0, config |-> CHOOSE k \in Configs : TRUE,
                     ready |-> FALSE, streamUp |-> FALSE, incoming |-> <<>>, outgoing |-> <<>>]
        /\ net = [p \in Pcbs |-> Unused]
        /\ lookups = 0
        /\ log = [wanted |-> FALSE, session |-> 0, written |-> 0, read |-> <<0, 0>>,
                  reported |-> 0, ended |-> 0]

\* tcp_client_init, on an instance that is not in use.
InitClient ==
    /\ ~client.initialised
    /\ client' = [StreamCleared(client) EXCEPT !.initialised = TRUE, !.state = "idle",
                                               !.pcb = NoPcb, !.attempts = 0,
                                               !.sessions = 0]
    /\ log' = [log EXCEPT !.reported = 0, !.ended = 0]
    /\ UNCHANGED <<net, lookups>>

\* A connection is up.  After an open that was refused the state may say so
\* with no block behind it.
Live(c) == c.state = "connected" /\ c.pcb # NoPcb

\* The connection, if there is one, is ended from this side.
EndedHere(w) == [w EXCEPT !.log.ended = @ + IF Live(w.client) THEN 1 ELSE 0]

Ended(w) == [EndedHere(w) EXCEPT !.log.wanted = FALSE]

\* tcp_client_deinit.
Deinit ==
    /\ client.initialised
    /\ \E w \in Release(Abandon(Ended(World)), TRUE) :
          Becomes([w EXCEPT !.client = [StreamDown(@) EXCEPT !.initialised = FALSE,
                                                             !.state = "idle"]])

\* tcp_client_open.
Open(config) ==
    /\ client.initialised
    /\ \E w \in Then(Release(Abandon(World), TRUE),
           LAMBDA x : BeginAttempt([x EXCEPT
               !.client = [StreamInit(@) EXCEPT !.config = config, !.attempts = 0,
                                                !.sessions = 0],
               !.log = [@ EXCEPT !.wanted = TRUE, !.reported = 0, !.ended = 0]])) :
          Becomes(w)

\* tcp_client_open whose buffers tcp_stream_init refuses: the block has gone
\* and the stream been cleared by then; all else is left as it was, the state
\* and the configuration of the connection before it included.
OpenRefused ==
    /\ client.initialised
    /\ \E w \in Release(EndedHere(World), TRUE) :
          Becomes([w EXCEPT !.client = StreamCleared(@)])

\* A close that goes through handle_failure.
CloseBacksOff ==
    /\ client.initialised
    /\ \E w \in Then(Release(Abandon(Ended(World)), TRUE), HandleFailure) : Becomes(w)

\* tcp_client_close.
Close ==
    /\ client.initialised
    /\ \E w \in Release(Abandon(Ended(World)), TRUE) :
          Becomes([w EXCEPT !.client = [StreamDown(@) EXCEPT !.attempts = 0,
                                                             !.state = "idle"]])

\* tcp_client_write.
Write(length) ==
    /\ client.initialised
    /\ log.written + length <= MaxOutput
    /\ \E w \in WriteBytes(World, length) : Becomes(w)

\* tcp_client_read and tcp_client_read_bytes.
Read(length) ==
    /\ client.initialised
    /\ client.incoming # <<>>
    /\ LET n == Least(length, Len(client.incoming)) IN
          /\ client' = [client EXCEPT !.incoming = SubSeq(@, n + 1, Len(@))]
          /\ log' = [log EXCEPT !.read = client.incoming[n]]
    /\ UNCHANGED <<net, lookups>>

-----------------------------------------------------------------------------
(* tcp_client_poll, one action for each of its cases *)

PollTimeout ==
    /\ client.initialised
    /\ client.state \in {"resolving", "connecting"}
    /\ \E w \in Then(Release(Abandon(World), FALSE), HandleFailure) : Becomes(w)

PollRetry ==
    /\ client.initialised
    /\ client.state = "waiting"
    /\ \E w \in BeginAttempt(World) : Becomes(w)

PollOutput ==
    /\ client.initialised
    /\ client.state = "connected"
    /\ \E w \in Pump(World) : Becomes(w)

-----------------------------------------------------------------------------
(* lwIP's callbacks *)

\* on_dns, with an address or without.
LookupAnswered ==
    /\ lookups > 0
    /\ \E w \in StartConnect([World EXCEPT !.lookups = @ - 1]) : Becomes(w)

LookupFailed ==
    /\ lookups > 0
    /\ \E w \in HandleFailure([World EXCEPT !.lookups = @ - 1]) : Becomes(w)

\* A connection is up: a new session, in which nothing was written yet.
Established(w, p) ==
    [w EXCEPT !.client = [StreamUp(w.client) EXCEPT !.attempts = 0, !.state = "connected",
                                                    !.sessions = @ + 1],
              !.net[p] = [w.net[p] EXCEPT !.status = "open", !.session = w.log.session + 1],
              !.log = [w.log EXCEPT !.session = @ + 1, !.written = 0]]

\* on_connected, the on_connect it calls, which writes a greeting, and the
\* pump_output after it.
Connected(p, greeting) ==
    /\ net[p].status = "connecting" /\ net[p].mine
    /\ log.session < MaxSessions
    /\ greeting <= MaxOutput
    /\ \E w \in Then(WriteBytes(Established(World, p), greeting), Pump) : Becomes(w)

\* The pointer to the block lwIP freed is kept.
ConnectFailedKeepsBlock(p) ==
    /\ net[p].status = "connecting" /\ net[p].mine
    /\ \E w \in HandleFailure([World EXCEPT !.net[p] = Unused]) : Becomes(w)

\* on_connected with an error: lwIP has freed the block.
ConnectFailed(p) ==
    /\ net[p].status = "connecting" /\ net[p].mine
    /\ \E w \in HandleFailure([World EXCEPT !.client.pcb = NoPcb, !.net[p] = Unused]) :
          Becomes(w)

\* on_closed called for an attempt that never connected.
ConnectionLostAlwaysReported(p) ==
    /\ net[p].status \in {"connecting", "open"} /\ net[p].mine
    /\ \E w \in HandleFailure([World EXCEPT
            !.client.pcb = NoPcb, !.net[p] = Unused, !.log.reported = @ + 1]) : Becomes(w)

\* on_error: lwIP has freed the block.  on_closed is only called for a
\* connection that was up.
ConnectionLost(p) ==
    /\ net[p].status \in {"connecting", "open"} /\ net[p].mine
    /\ \E w \in HandleFailure([World EXCEPT
            !.client.pcb = NoPcb,
            !.net[p] = Unused,
            !.log.reported = @ + IF client.state = "connected" THEN 1 ELSE 0]) :
          Becomes(w)

\* on_recv with data.  A segment that does not fit is declined (ERR_MEM) and
\* changes nothing: lwIP keeps it and offers it again.
Receive(p) ==
    /\ net[p].status = "open" /\ net[p].mine
    /\ net[p].toClient # <<>>
    /\ CanAccept(client, Len(Head(net[p].toClient)))
    /\ client' = [client EXCEPT !.incoming = @ \o Head(net[p].toClient)]
    /\ net' = [net EXCEPT ![p].toClient = Tail(@)]
    /\ UNCHANGED <<lookups, log>>

\* on_recv without data: the peer has closed.
ReceiveClose(p) ==
    /\ net[p].status = "open" /\ net[p].mine
    /\ net[p].toClient = <<>> /\ net[p].fin
    /\ \E w \in Then(Release(World, TRUE), LAMBDA x : HandleFailure([x EXCEPT
            !.client.state = "idle",
            !.log.reported = @ + 1])) :
          Becomes(w)

\* on_sent.
Sent(p, count) ==
    /\ net[p].status = "open" /\ net[p].mine
    /\ count \in 1..net[p].unacked
    /\ \E w \in Pump([World EXCEPT !.net[p].unacked = @ - count]) : Becomes(w)

-----------------------------------------------------------------------------
(* lwIP on its own, and the peer *)

Reclaim(p) ==
    /\ net[p].status = "closing"
    /\ net' = [net EXCEPT ![p] = Unused]
    /\ UNCHANGED <<client, lookups, log>>

PeerSends(p, length) ==
    /\ net[p].status = "open" /\ ~net[p].fin
    /\ net[p].sent + length <= MaxInput
    /\ LET segment == [i \in 1..length |-> <<net[p].session, net[p].sent + i>>] IN
          net' = [net EXCEPT ![p] = [net[p] EXCEPT !.toClient = Append(@, segment),
                                                   !.sent = @ + length]]
    /\ UNCHANGED <<client, lookups, log>>

PeerCloses(p) ==
    /\ net[p].status = "open" /\ ~net[p].fin
    /\ net' = [net EXCEPT ![p].fin = TRUE]
    /\ UNCHANGED <<client, lookups, log>>

Application ==
    \/ InitClient
    \/ Deinit
    \/ \E k \in Configs : Open(k)
    \/ OpenRefused
    \/ Close
    \/ \E n \in 1..(TxCapacity + 1) : Write(n)
    \/ \E n \in 1..RxCapacity : Read(n)

Poll == PollTimeout \/ PollRetry \/ PollOutput

Network(p) ==
    \/ \E n \in 0..1 : Connected(p, n)
    \/ ConnectFailed(p)
    \/ ConnectionLost(p)
    \/ Receive(p)
    \/ ReceiveClose(p)
    \/ \E n \in 1..SndBuf : Sent(p, n)
    \/ Reclaim(p)
    \/ \E n \in 1..SegmentMax : PeerSends(p, n)
    \/ PeerCloses(p)

Next ==
    \/ Application
    \/ Poll
    \/ LookupAnswered
    \/ LookupFailed
    \/ \E p \in Pcbs : Network(p)

Spec == Init /\ [][Next]_vars

(***************************************************************************)
(* Fairness.  The main loop polls for ever, so an expired timer is acted   *)
(* on and buffered output is offered again; lwIP reclaims and acknowledges *)
(* and offers declined segments again; the application reads.  The network *)
(* is down at times but not for ever: a lookup, a connection and a         *)
(* tcp_write that keep being tried succeed at last.  Nothing makes the     *)
(* application open, close or write, or the peer send or close.            *)
(***************************************************************************)
Fairness ==
    /\ WF_vars(PollTimeout)
    /\ SF_vars(PollRetry /\ client'.state = "resolving")
    /\ SF_vars(LookupAnswered /\ client'.state = "connecting")
    /\ SF_vars(PollOutput /\ Len(client'.outgoing) < Len(client.outgoing))
    /\ WF_vars(Read(1))
    /\ \A p \in Pcbs :
          /\ WF_vars(Reclaim(p))
          /\ SF_vars(Connected(p, 0))
          /\ WF_vars(Receive(p))
          /\ WF_vars(\E n \in 1..SndBuf : Sent(p, n))

FairSpec == Spec /\ Fairness

-----------------------------------------------------------------------------
(* Properties *)

Label == Seq(Byte)

\* Every variable has the type the C structures give it, and no buffer holds
\* more than it has room for.
TypeOK ==
    /\ client.initialised \in BOOLEAN
    /\ client.ready \in BOOLEAN /\ client.streamUp \in BOOLEAN
    /\ client.state \in States
    /\ client.pcb \in Pcbs \cup {NoPcb}
    /\ client.attempts \in 0..MaxAttempts /\ client.sessions \in 0..MaxSessions
    /\ client.config \in Configs
    /\ client.incoming \in Label /\ Len(client.incoming) <= RxCapacity
    /\ client.outgoing \in Label /\ Len(client.outgoing) <= TxCapacity
    /\ \A p \in Pcbs :
          /\ net[p].status \in {"free", "connecting", "open", "closing"}
          /\ net[p].mine \in BOOLEAN /\ net[p].fin \in BOOLEAN
          /\ net[p].session \in 0..MaxSessions
          /\ net[p].unacked \in 0..SndBuf
    /\ lookups \in 0..MaxLookups

\* release_pcb and the rule that every other path forgets the pointer: the
\* control blocks whose callbacks point at the client are exactly the one it
\* points at, it points at one only while it connects or is connected, and
\* then always, unless the last open was refused, which leaves the state of a
\* connection it has released (tcp.c:448-455).  A block it forgot would be
\* leaked, and would still call it; one it kept after lwIP freed it would be
\* used after that.
OneControlBlock ==
    /\ {p \in Pcbs : net[p].mine} = {client.pcb} \ {NoPcb}
    /\ client.pcb # NoPcb => client.state \in {"connecting", "connected"}
    /\ client.ready /\ client.state \in {"connecting", "connected"} => client.pcb # NoPcb
    /\ client.pcb # NoPcb =>
          net[client.pcb].status = IF client.state = "connecting" THEN "connecting" ELSE "open"

\* on_closed: each connection that came up since the last open is still up, was
\* reported exactly once, by on_recv or on_error, or was ended from this side
\* without a report, by close, open or deinit; an attempt that failed is not
\* reported.
EveryLossIsReported ==
    client.sessions = log.reported + log.ended + IF Live(client) THEN 1 ELSE 0

\* What tcp.h says of on_closed: it is called when an established connection
\* ends, whichever side ended it.  False of the ends from this side, as
\* MCTcpClientOwnClose.cfg shows.
EveryEndIsReported ==
    client.sessions = log.reported + IF Live(client) THEN 1 ELSE 0

\* Every byte of s follows the one before it: the next of the same session,
\* or the first of a later one.
Contiguous(s) ==
    \A i \in 2..Len(s) :
        \/ s[i] = <<s[i - 1][1], s[i - 1][2] + 1>>
        \/ s[i][1] > s[i - 1][1] /\ s[i][2] = 1

\* tcp_stream_on_received, tcp_stream_set_connected and lwIP's back-pressure:
\* from the byte the application read last through those waiting for it there
\* is no hole, no repetition and no reordering, and while a connection is up nothing waits
\* that came from the one before.
InputIsIntact ==
    /\ Contiguous(<<log.read>> \o client.incoming)
    /\ Live(client) =>
          \A i \in 1..Len(client.incoming) :
              client.incoming[i][1] = net[client.pcb].session

\* tcp_stream_flush and tcp_stream_set_connected: what goes to the peer of a
\* connection is what was accepted for it since it came up, in that order,
\* none of it skipped or sent twice, and nothing meant for an earlier peer.
OutputIsIntact ==
    /\ Live(client) =>
          net[client.pcb].wire \o client.outgoing =
              [i \in 1..log.written |-> <<net[client.pcb].session, i>>]
    /\ ~Live(client) => client.outgoing = <<>>

\* What a connection carries is what was written into it, either way: whole, in
\* order and once, and nothing of the connection before it (tcp_stream.c).
StreamsAreIntact == InputIsIntact /\ OutputIsIntact

\* tcp_client_close: after it, and until the next open, the client stays idle
\* and owns nothing, whatever the network does.
ClosedStaysClosed ==
    ~log.wanted => client.state = "idle" /\ client.pcb = NoPcb

\* tcp_client_poll: a client that is to reconnect for ever does get connected
\* whenever it is not, unless the application closes or reopens it or has an
\* open refused.
KeepsTrying ==
    LET Persistent == /\ client.initialised /\ client.ready /\ log.wanted
                      /\ client.config.auto /\ client.config.budget = 0
    IN  Persistent ~> \/ Live(client)
                      \/ ~Persistent
                      \/ log.session = MaxSessions

\* on_recv: a segment the client declines is taken later, once the application
\* has read what was in its way, or its connection ends.  A stream whose
\* buffers were refused declines for ever what a connection then brings it.
SegmentsAreTaken ==
    LET Offered == client.ready /\ \E p \in Pcbs : net[p].mine /\ net[p].toClient # <<>>
    IN  Offered ~> ~Offered

\* tcp_client_write: buffered output is not left lying: it is handed to lwIP
\* or its connection ends.
OutputLeaves == client.outgoing # <<>> ~> client.outgoing = <<>>

\* While the loop polls, neither direction of a connection gets stuck: a
\* declined segment is taken and buffered output leaves (tcp.c:255).
StreamsMove == SegmentsAreTaken /\ OutputLeaves
=============================================================================
