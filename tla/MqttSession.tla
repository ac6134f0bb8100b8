----------------------------- MODULE MqttSession -----------------------------
(***************************************************************************)
(* One mqtt_t (components/mqtt/mqtt.c), lwIP's MQTT client and resolver    *)
(* under it, and the broker.  lwIP's callbacks run while the main loop     *)
(* polls the link, so a call and a callback never overlap.                 *)
(*                                                                         *)
(* What lwIP has accepted and the broker not yet acknowledged is `wire`;   *)
(* a session that ends loses it.  How an incoming publish is put together  *)
(* is in MqttMessages.                                                     *)
(***************************************************************************)
EXTENDS WifiLink, Sequences

CONSTANTS
    MaxInFlight,   \* lwIP's MQTT_REQ_MAX_IN_FLIGHT
    MaxLookups     \* lwIP's table of lookups

ASSUME MqttAssumption == MaxInFlight \in Nat \ {0} /\ MaxLookups \in Nat \ {0}

VARIABLES
    mqtt,      \* the mqtt_t: state, attempts; and lwIP's client: "idle" (or
               \* NULL), "connecting", or "up"; and its wire
    lookups    \* on_dns callbacks lwIP still owes

MqttStates == {"idle", "resolving", "connecting", "connected", "waiting", "gave_up"}

MqttInit ==
    /\ mqtt = [state |-> "idle", attempts |-> 0, client |-> "idle", wire |-> <<>>]
    /\ lookups = 0

-----------------------------------------------------------------------------
(* Connecting.  Each operator says what becomes of m. *)

\* start_connect: lwIP refuses a client that is not idle (ERR_ISCONN), or without
\* a route, and may be out of memory.
StartConnect(m) ==
    \/ mqtt' = AfterFailure(m)
    \/ /\ m.client = "idle" /\ link = "up"
       /\ mqtt' = [m EXCEPT !.client = "connecting", !.state = "connecting"]

\* begin_attempt: the address is cached, is being looked up, or cannot be.
MqttAttempt(m) ==
    \/ StartConnect(m) /\ UNCHANGED lookups
    \/ /\ lookups < MaxLookups
       /\ mqtt' = [m EXCEPT !.state = "resolving"]
       /\ lookups' = lookups + 1
    \/ mqtt' = AfterFailure(m) /\ UNCHANGED lookups

MqttConnectCall == MqttAttempt([mqtt EXCEPT !.attempts = 0])

\* lwIP's client without a connection: requests and output are gone.
Unconnected(m) == [m EXCEPT !.client = "idle", !.wire = <<>>]

\* mqtt_close: lwIP does not report a disconnection it was asked for.
MqttCloseCall ==
    /\ mqtt' = [Unconnected(mqtt) EXCEPT !.state = "idle", !.attempts = 0]
    /\ UNCHANGED lookups

MqttPollDue ==
    /\ mqtt.state = "waiting"
    /\ MqttAttempt(mqtt)

-----------------------------------------------------------------------------
(* lwIP's callbacks. *)

\* on_dns, which reads no state.
LookupAnswered ==
    /\ lookups > 0 /\ lookups' = lookups - 1
    /\ StartConnect(mqtt)

LookupFailed ==
    /\ lookups > 0 /\ lookups' = lookups - 1
    /\ mqtt' = AfterFailure(mqtt)

\* mqtt_connection_status_handler with MQTT_CONNECT_ACCEPTED, up to on_connect.
AcceptedMqtt ==
    [mqtt EXCEPT !.state = "connected", !.attempts = 0, !.client = "up"]

\* The same handler for a connection that could not be made, and for a session
\* that broke.
SessionRefused ==
    /\ mqtt.client = "connecting"
    /\ mqtt' = AfterFailure(Unconnected(mqtt))
    /\ UNCHANGED lookups

SessionLost ==
    /\ mqtt.client = "up"
    /\ mqtt' = AfterFailure(Unconnected(mqtt))
    /\ UNCHANGED lookups

-----------------------------------------------------------------------------
(* mqtt_publish_message and mqtt_subscribe_topic: refused without a session *)
(* or a request slot, and when the output ring is too full for this one: it *)
(* takes any message when it is empty, and small ones with them.            *)

\* A message counted as sent, whatever lwIP answers.
CanSendUnchecked(m) == m.state = "connected" /\ m.client = "up"

CanSend(m) == m.state = "connected" /\ m.client = "up" /\ Len(m.wire) < MaxInFlight

MayRefuse(m, small) == ~CanSend(m) \/ (~small /\ m.wire # <<>>)

Sent(m, message) == [m EXCEPT !.wire = Append(@, message)]
=============================================================================
