---------------------------- MODULE MqttMessages ----------------------------
(***************************************************************************)
(* mqtt.c's reassembly of incoming messages: lwIP announces a publish and  *)
(* hands its payload over in pieces, the last one marked; the session may  *)
(* be lost between any two.  A payload byte is the number of its publish   *)
(* and its place in it.                                                    *)
(***************************************************************************)
EXTENDS Integers, Sequences

CONSTANTS
    Topics,        \* model values
    MaxMessage,    \* MQTT_MAX_MESSAGE_LENGTH
    MaxPayload,    \* of what is published
    MaxPublishes   \* publishes, at most

ASSUME MessageAssumption ==
    /\ "none" \notin Topics
    /\ MaxMessage \in Nat \ {0} /\ MaxPayload \in Nat /\ MaxPublishes \in Nat \ {0}

VARIABLES
    publish,       \* the publish on its way, as the broker sent it
    message,       \* the fields of mqtt_t that hold one
    handed         \* the messages handed to on_message, and what was ended

messageVars == <<publish, message, handed>>

NoTopic == "none"
NoPublish == [number |-> 0, topic |-> NoTopic, size |-> 0, given |-> 0]
NoMessage == [topic |-> NoTopic, data |-> <<>>]
Bytes(p, first, to) == [i \in 1..to - first + 1 |-> <<p.number, first + i - 1>>]
-----------------------------------------------------------------------------
(* on_incoming_publish *)

\* The buffer is emptied when a message has ended, and only then.
BeginTopic(topic) == [message EXCEPT !.topic = topic]

Begin(topic) == [message EXCEPT !.topic = topic, !.buffer = <<>>, !.overflowed = FALSE]

IncomingPublish ==
    /\ publish.topic = NoTopic /\ handed.number < MaxPublishes
    /\ \E topic \in Topics, size \in 0..MaxPayload :
         /\ publish' = [number |-> handed.number + 1, topic |-> topic, size |-> size, given |-> 0]
         /\ message' = Begin(topic)
    /\ handed' = [handed EXCEPT !.number = @ + 1]

(* on_incoming_data *)

Copied(data) ==
    LET space == MaxMessage - Len(message.buffer)
    IN  [message EXCEPT !.buffer = @ \o SubSeq(data, 1, IF Len(data) < space THEN Len(data)
                                                        ELSE space),
                        !.overflowed = @ \/ Len(data) > space]

\* The last piece: handed over, or dropped and counted.
Ended(full) ==
    [handed EXCEPT !.ended = publish,
                   !.last = IF full.overflowed THEN NoMessage
                            ELSE [topic |-> full.topic, data |-> full.buffer],
                   !.tooLong = IF publish.size > MaxMessage THEN @ + 1 ELSE @]

Emptied(full) ==
    [full EXCEPT !.buffer = <<>>, !.overflowed = FALSE,
                 !.dropped = IF full.overflowed THEN @ + 1 ELSE @]

IncomingData ==
    /\ publish.topic # NoTopic
    /\ \E given \in publish.given..publish.size :
         LET full == Copied(Bytes(publish, publish.given + 1, given))
         IN  /\ given = publish.given => publish.size = 0
             /\ IF given < publish.size
                  THEN /\ publish' = [publish EXCEPT !.given = given]
                       /\ message' = full /\ UNCHANGED handed
                ELSE /\ publish' = NoPublish
                     /\ message' = Emptied(full) /\ handed' = Ended(full)

\* The session ends; the next one begins with a publish of its own.
MessageCut ==
    /\ publish.topic # NoTopic
    /\ publish' = NoPublish
    /\ UNCHANGED <<message, handed>>

MessageInit ==
    /\ publish = NoPublish
    /\ message = [topic |-> NoTopic, buffer |-> <<>>, overflowed |-> FALSE, dropped |-> 0]
    /\ handed = [number |-> 0, tooLong |-> 0, ended |-> NoPublish,
                 last |-> NoMessage]

MessageNext == IncomingPublish \/ IncomingData \/ MessageCut

MessageSpec == MessageInit /\ [][MessageNext]_messageVars
-----------------------------------------------------------------------------
(* Properties *)

\* A publish that came to its end is handed over whole and under its own topic
\* if it fits the buffer, and otherwise dropped whole and counted; a session
\* lost in the middle of one leaves nothing of it in the next
\* (on_incoming_publish, on_incoming_data).
MessagesAreWhole ==
    LET p == handed.ended
    IN  /\ p.topic # NoTopic =>
             handed.last = IF p.size <= MaxMessage
                             THEN [topic |-> p.topic, data |-> Bytes(p, 1, p.size)]
                           ELSE NoMessage
        /\ message.dropped = handed.tooLong
=============================================================================
