------------------------------- MODULE HomeLed -------------------------------
(***************************************************************************)
(* The home_led application: main.c, net.c, settings.c and the commands of *)
(* console.c, over its Wi-Fi link, its MQTT session, its lamp and its      *)
(* flash; and the broker through which Home Assistant sees it.             *)
(*                                                                         *)
(* A pass of the main loop is a command of the console or none, lwIP's     *)
(* callbacks (which run in the poll of the link), the polls of the link    *)
(* and of the session, and the rest, up to the bookkeeping of generations. *)
(* Power may be cut; a save is atomic, as PersistentConfig shows.          *)
(***************************************************************************)
EXTENDS MqttSession, Lamp

CONSTANTS
    LightCommands,   \* what a controller or the console asks of the light
    RangeCommands,   \* records [end |-> "first" or "last", value |-> n]
    Careless,        \* may `connect` be typed while there is a session?
    MaxCommands,     \* bounds what is asked of the lamp
    MaxMishaps       \* bounds failed attempts, losses, cuts, failed saves and what is typed

\* Three subscriptions fit into lwIP's table, which is left at its four.
ASSUME HomeAssumption ==
    /\ Careless \in BOOLEAN /\ MaxCommands \in Nat /\ MaxMishaps \in Nat
    /\ MaxInFlight >= 3
    /\ \A c \in RangeCommands : c.end \in {"first", "last"} /\ c.value \in Int

VARIABLES
    pc,        \* what comes next: "boot", "console", or "link"
    lamp,      \* [light, range]
    app,       \* the rest of app_t
    flash,     \* what a save wrote last
    broker,    \* what it retains, and who is subscribed in this session
    used       \* how many there were of both

vars == <<pc, wifi, link, mqtt, lookups, lamp, app, flash, broker, used>>

Entities == {"light", "first", "last"}

Generations(l) == <<l.light.generation, l.range.generation>>

-----------------------------------------------------------------------------
(* Starting up. *)

Boot(stored) == [light |-> RestoredLight(stored), range |-> RestoredRange(stored)]

\* main() up to its loop: nothing is published or saved, and nothing is due.
BootApp == [announcing |-> FALSE, step |-> 0,
            publishing |-> FALSE, part |-> 0, captured |-> <<0, 0>>,
            published |-> <<1, 1>>, saved |-> <<1, 1>>, seen |-> <<1, 1>>]

Init ==
    /\ WifiInit /\ MqttInit
    /\ pc = "boot"
    /\ flash = Stored(LightInit, RangeInit)
    /\ lamp = Boot(flash)
    /\ app = BootApp
    /\ broker = [online |-> FALSE, docs |-> {}, subs |-> {},
                 shown |-> [e \in Entities |-> <<>>]]
    /\ used = [commands |-> 0, mishaps |-> 0]

ACommand == used.commands < MaxCommands /\ used' = [used EXCEPT !.commands = @ + 1]
AMishap == used.mishaps < MaxMishaps /\ used' = [used EXCEPT !.mishaps = @ + 1]

\* net_start_if_configured, and the two calls of cmd_connect.
ConnectBoth ==
    /\ WifiConnectCall
    /\ \/ WifiConnectAccepted /\ MqttConnectCall
       \/ ~WifiConnectAccepted /\ UNCHANGED <<mqtt, lookups>>

NetStart ==
    /\ pc = "boot" /\ pc' = "console"
    /\ ConnectBoth
    /\ UNCHANGED <<lamp, app, flash, broker, used>>

-----------------------------------------------------------------------------
(* Sending.  A function from a session's mqtt to those it may become, with    *)
(* whether the message was taken.                                             *)

Outcomes(m, message) ==
    (IF CanSend(m) THEN {[m |-> Sent(m, message), taken |-> TRUE]} ELSE {})
    \cup (IF MayRefuse(m, message.kind \in {"sub", "online"}) THEN {[m |-> m, taken |-> FALSE]} ELSE {})

Document(entity) == [kind |-> "doc", of |-> entity, value |-> <<>>]
Subscription(entity) == [kind |-> "sub", of |-> entity, value |-> <<>>]
Online == [kind |-> "online", of |-> "device", value |-> <<>>]

Value(entity) == CASE entity = "light" -> <<StateDocument(lamp.light)>>
                   [] entity = "first" -> <<RangeFirst(lamp.range)>>
                   [] entity = "last" -> <<RangeLast(lamp.range)>>
StateOf(entity) == [kind |-> "state", of |-> entity, value |-> Value(entity)]

EntityAt == <<"light", "first", "last">>

\* net_announce subscribes to the three command topics, whatever comes of it.
SubscribeAll(m) ==
    {r3.m : r3 \in UNION {Outcomes(r2.m, Subscription("last")) :
        r2 \in UNION {Outcomes(r1.m, Subscription("first")) :
            r1 \in Outcomes(m, Subscription("light"))}}}

\* An announcement that lets a cycle begun in an earlier session go on.
AnnouncingKeepsCycle(a) == [a EXCEPT !.announcing = TRUE, !.step = 0]

Announcing(a) == [a EXCEPT !.announcing = TRUE, !.step = 0, !.publishing = FALSE]

NetAnnounce(m) == mqtt' \in SubscribeAll(m) /\ app' = Announcing(app)

\* net_publish_state on a.  What the cycle promises is captured when it begins.
PublishState(a) ==
    IF mqtt.state # "connected" \/ a.publishing THEN a
    ELSE [a EXCEPT !.publishing = TRUE, !.part = 0, !.captured = Generations(lamp)]

-----------------------------------------------------------------------------
(* cli_poll *)

ApplyRange(c, r) == IF c.end = "first" THEN RangeSetFirst(r, c.value)
                    ELSE RangeSetLast(r, c.value)

\* A command that was read: from the console, or by on_broker_message.
Apply(c) ==
    lamp' = IF c \in RangeCommands THEN [lamp EXCEPT !.range = ApplyRange(c, @)]
            ELSE [lamp EXCEPT !.light = ApplyCommand(c, @)]

Command == LightCommands \cup RangeCommands

ConsoleLamp ==
    /\ pc = "console" /\ pc' = "link"
    /\ ACommand
    /\ \E c \in Command : Apply(c)
    /\ UNCHANGED <<wifi, link, mqtt, lookups, app, flash, broker>>

ConsoleConnect ==
    /\ pc = "console" /\ pc' = "link"
    /\ AMishap
    /\ Careless \/ (mqtt.client = "idle" /\ lookups = 0)
    /\ ConnectBoth
    /\ UNCHANGED <<lamp, app, flash, broker>>

\* The broker publishes the will when a client has gone.
Gone(b) == [b EXCEPT !.online = FALSE, !.subs = {}]

ConsoleDisconnect ==
    /\ pc = "console" /\ pc' = "link"
    /\ AMishap
    /\ MqttCloseCall /\ WifiDisconnectCall
    /\ broker' = Gone(broker)
    /\ UNCHANGED <<lamp, app, flash>>

ConsoleAnnounce ==
    /\ pc = "console" /\ pc' = "link"
    /\ AMishap
    /\ mqtt.state = "connected"
    /\ NetAnnounce(mqtt)
    /\ UNCHANGED <<wifi, link, lookups, lamp, flash, broker>>

\* cmd_save, and the save of main's loop on a: app_t after a save that worked.
Saved(a) == [a EXCEPT !.saved = Generations(lamp)]

ConsoleSave ==
    /\ pc = "console" /\ pc' = "link"
    /\ AMishap
    /\ \/ flash' = Stored(lamp.light, lamp.range) /\ app' = Saved(app)
       \/ UNCHANGED <<flash, app>>
    /\ UNCHANGED <<wifi, link, mqtt, lookups, lamp, broker>>

-----------------------------------------------------------------------------
(* wifi_poll: the radio and lwIP's callbacks, then the switch on the state. *)

Linking == pc \in {"console", "link"} /\ pc' = "link"

Radio ==
    /\ Linking
    /\ \/ RadioJoins /\ UNCHANGED used
       \/ (RadioStalls \/ RadioFails \/ RadioDrops) /\ AMishap
    /\ UNCHANGED <<mqtt, lookups, lamp, app, flash, broker>>

Lookup ==
    /\ Linking
    /\ LookupAnswered \/ LookupFailed
    /\ UNCHANGED <<wifi, link, lamp, app, flash, broker, used>>

\* on_broker_session announces on the session that has just been accepted.
SessionAccepted ==
    /\ Linking /\ link = "up"
    /\ mqtt.client = "connecting"
    /\ NetAnnounce(AcceptedMqtt)
    /\ UNCHANGED <<wifi, link, lookups, lamp, flash, broker, used>>

SessionFails ==
    /\ Linking
    /\ SessionRefused
    /\ UNCHANGED <<wifi, link, lamp, app, flash, broker, used>>

\* What messages say of an entity last; without one, what was said before.
Newest(messages, entity, before) ==
    LET same == {i \in DOMAIN messages :
                   messages[i].kind = "state" /\ messages[i].of = entity}
    IN  IF same = {} THEN before
        ELSE messages[CHOOSE i \in same : \A j \in same : j <= i].value

Named(messages, kind) ==
    {messages[i].of : i \in {j \in DOMAIN messages : messages[j].kind = kind}}

\* The broker takes requests, which acknowledges them, and retains the newest state.
ReceivedAll(b, messages) ==
    [online |-> b.online \/ Named(messages, "online") # {},
     docs |-> b.docs \cup Named(messages, "doc"),
     subs |-> b.subs \cup Named(messages, "sub"),
     shown |-> [e \in Entities |-> Newest(messages, e, b.shown[e])]]

\* A session that breaks, after any part of what was under way.
SessionBreaks ==
    /\ Linking /\ AMishap
    /\ SessionLost
    /\ \E n \in 0..Len(mqtt.wire) :
         broker' = Gone(ReceivedAll(broker, SubSeq(mqtt.wire, 1, n)))
    /\ UNCHANGED <<wifi, link, lamp, app, flash>>

Deliver ==
    /\ Linking /\ link = "up"
    /\ mqtt.wire # <<>>
    /\ broker' = ReceivedAll(broker, mqtt.wire)
    /\ mqtt' = [mqtt EXCEPT !.wire = <<>>]
    /\ UNCHANGED <<wifi, link, lookups, lamp, app, flash, used>>

\* A controller publishes a command to a topic with a subscription; it can be
\* read, and on_broker_message applies it, or it is dropped.
CommandArrives ==
    /\ Linking /\ link = "up" /\ mqtt.client = "up" /\ ACommand
    /\ \/ /\ "light" \in broker.subs /\ \E c \in LightCommands : Apply(c)
       \/ \E c \in RangeCommands : c.end \in broker.subs /\ Apply(c)
    /\ UNCHANGED <<wifi, link, mqtt, lookups, app, flash, broker>>

-----------------------------------------------------------------------------
(* The rest of net_poll.  A step maps [m |-> mqtt, a |-> app] to what may     *)
(* become of it.                                                              *)

Announced(a, taken) == IF taken THEN [a EXCEPT !.step = @ + 1] ELSE a

\* poll_announcement.
PollAnnouncement(s) ==
    IF ~s.a.announcing \/ s.m.state # "connected" THEN {s}
    ELSE IF s.a.step < 4
         THEN LET message == IF s.a.step = 3 THEN Online ELSE Document(EntityAt[s.a.step + 1])
              IN  {[m |-> r.m, a |-> Announced(s.a, r.taken)] : r \in Outcomes(s.m, message)}
    ELSE IF s.a.step = 4 THEN {[s EXCEPT !.a = [PublishState(@) EXCEPT !.step = 5]]}
    ELSE {[s EXCEPT !.a.announcing = s.a.publishing]}

\* The generations of the end of a cycle, in place of those of its beginning.
CycleDoneNow(a) == [a EXCEPT !.publishing = FALSE, !.published = Generations(lamp)]

CycleDone(a) == [a EXCEPT !.publishing = FALSE, !.published = a.captured]

\* poll_state_publish.
PollStatePublish(s) ==
    IF ~s.a.publishing \/ s.m.state # "connected" THEN {s}
    ELSE IF s.a.part < 3
         THEN {[m |-> r.m, a |-> [s.a EXCEPT !.part = IF r.taken THEN @ + 1 ELSE @]] :
                 r \in Outcomes(s.m, StateOf(EntityAt[s.a.part + 1]))}
    ELSE {[s EXCEPT !.a = CycleDone(@)]}

-----------------------------------------------------------------------------
(* The end of a pass of main's loop.  The quiet period begins again with every *)
(* change it notes, so it cannot be over in the pass that notes one.           *)

Moved == app.seen # Generations(lamp)

\* A save that failed taken for one that worked.
FailedSaveMarked(a) == Saved(a)

FailedSave(a) == a

\* The interval between publications may be over, and so may the quiet period.
LoopEnd(a) ==
    LET seen == [a EXCEPT !.seen = Generations(lamp)]
        due == a.published # Generations(lamp)
        unsaved == a.saved # Generations(lamp) /\ ~Moved
    IN  \E told \in {seen} \cup (IF due THEN {PublishState(seen)} ELSE {}) :
          \/ app' = told /\ UNCHANGED <<flash, used>>
          \/ /\ unsaved /\ app' = Saved(told)
             /\ flash' = Stored(lamp.light, lamp.range) /\ UNCHANGED used
          \/ /\ unsaved /\ app' = FailedSave(told)
             /\ AMishap /\ UNCHANGED flash

\* The switch of wifi_poll, mqtt_poll, the announcement, the state, and the end.
\* A session whose retry is due is not connected: there is nothing to send.
Pass ==
    /\ pc \in {"console", "link"} /\ pc' = "console"
    /\ \/ \E late \in {FALSE, TimedOut} : WifiPollConnecting(late)
       \/ WifiPollConnected
       \/ \E due \in BOOLEAN : WifiPollWaiting(due)
       \/ WifiPollIdle
    /\ \/ MqttPollDue /\ LoopEnd(app)
       \/ /\ \E s \in UNION {PollStatePublish(t) : t \in PollAnnouncement([m |-> mqtt, a |-> app])} :
                mqtt' = s.m /\ LoopEnd(s.a)
          /\ UNCHANGED lookups
    /\ UNCHANGED <<lamp, broker>>

-----------------------------------------------------------------------------

PowerCut ==
    /\ pc = "link" /\ pc' = "boot"
    /\ AMishap
    /\ wifi' = [state |-> "idle", attempts |-> 0] /\ link' = "down"
    /\ mqtt' = [state |-> "idle", attempts |-> 0, client |-> "idle", wire |-> <<>>]
    /\ lookups' = 0
    /\ lamp' = Boot(flash) /\ app' = BootApp
    /\ broker' = Gone(broker)
    /\ UNCHANGED flash

Console == \/ ConsoleLamp \/ ConsoleConnect \/ ConsoleDisconnect
           \/ ConsoleAnnounce \/ ConsoleSave

Loop == NetStart \/ Pass

World == \/ Radio \/ Lookup \/ SessionAccepted \/ SessionFails \/ SessionBreaks
         \/ Deliver \/ CommandArrives \/ PowerCut

Next == Loop \/ Console \/ World

Spec == Init /\ [][Next]_vars

\* The loop runs for ever.  Strong fairness stands for a network that is not
\* down for ever, timers that run out, and flash that does not fail for ever.
FairSpec ==
    /\ Spec /\ WF_vars(Loop)
    /\ SF_vars(wifi.state = "connecting" /\ Pass /\ wifi'.state # "connecting")
    /\ SF_vars(wifi.state = "waiting" /\ Pass /\ wifi'.state = "connecting")
    /\ SF_vars(Radio /\ wifi.state = "connecting" /\ link' = "up")
    /\ SF_vars(mqtt.state = "waiting" /\ Pass /\ mqtt'.state = "resolving")
    /\ WF_vars(Lookup)
    /\ SF_vars(Lookup /\ mqtt'.state = "connecting")
    /\ SF_vars(SessionAccepted)
    /\ SF_vars(Deliver)
    /\ SF_vars(~app.publishing /\ Pass /\ app'.publishing)
    /\ SF_vars(Pass /\ app'.saved = Generations(lamp) /\ app'.saved # app.saved)

-----------------------------------------------------------------------------

TypeOK ==
    /\ pc \in {"boot", "console", "link"}
    /\ WifiTypeOK
    /\ mqtt.state \in MqttStates /\ mqtt.client \in {"idle", "connecting", "up"}
    /\ Len(mqtt.wire) <= MaxInFlight
    /\ lookups \in 0..MaxLookups
    /\ app.step \in 0..5 /\ app.part \in 0..3
    /\ broker.subs \subseteq Entities /\ broker.docs \subseteq Entities
    /\ \A i \in 1..2 : app.published[i] <= Generations(lamp)[i]
                       /\ app.saved[i] <= Generations(lamp)[i]

\* What the broker retains once everything under way has reached it.
Arrived(entity) == Newest(mqtt.wire, entity, broker.shown[entity])

\* Home Assistant is told the lamp is there only after it was told what it is and
\* can reach it; and in a session that has been announced, what main counts as
\* published is on its way or shown, for all three entities, whatever changed, was
\* refused or was lost with a session before (net.c).
BrokerIsTold ==
    /\ broker.online => broker.docs = Entities /\ broker.subs = Entities
    /\ (mqtt.state = "connected" /\ ~app.announcing /\ ~app.publishing
        /\ app.published = Generations(lamp)) =>
           \A e \in Entities : Arrived(e) = Value(e)

Shown == /\ broker.online
         /\ \A e \in Entities : broker.shown[e] = Value(e)

\* The last change is shown in the end.  Wi-Fi that stays idle is excused: the user
\* has disconnected for good, or the radio would not start when net_start_if_configured
\* or `connect` asked it to, which nothing tries again (wifi.c, begin_attempt).
LampIsReported == <>[](wifi.state = "idle" \/ Shown)

\* A restart would bring back the last change in the end.
LampIsSaved ==
    <>[](/\ lamp.light.brightness = flash.brightness /\ lamp.light.color = flash.color
         /\ RangeFirst(lamp.range) = flash.first /\ RangeLast(lamp.range) = flash.last)

\* apps/home_led/README.md: once it is configured the board needs no console to get
\* its light shown.  False of a radio that does not start, as
\* MCHomeLedFirstConnect.cfg shows.
NeedsNoConsole == <>Shown

\* mqtt.h: mqtt_state is where the outcome of mqtt_connect is to be read.  A
\* session that is up is taken for one in the end.
LiveSessionIsUsed == mqtt.client = "up" ~> (mqtt.state = "connected" \/ mqtt.client # "up")
=============================================================================
