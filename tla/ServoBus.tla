------------------------------ MODULE ServoBus ------------------------------
(***************************************************************************)
(* The half-duplex servo bus: half_duplex_uart.c's write and read_exact,   *)
(* servo_bus.c's transactions, and the calls of feetech.c and ax12.c that  *)
(* take several of them.  A packet is two pieces, so that a reply can be   *)
(* cut; a reply that is late comes before the next packet is sent, since   *)
(* the protocol numbers nothing.  The wire echoes what the host sends      *)
(* (HALF_DUPLEX_UART_ECHO_DISCARD).  Calls and faults have no bound.       *)
(***************************************************************************)
EXTENDS Integers, Sequences, FiniteSets

CONSTANTS
    Servos,        \* the servos, 1..n: each starts with its number as ID
    Ids,           \* the IDs in use, 1..m; one more is the broadcast ID
    Rates,         \* the rates of the table the host can be clocked at
    DefaultRate, DefaultId,   \* the factory settings
    Retries        \* max_retries

ASSUME ServoAssumption ==
    /\ Servos \subseteq Ids /\ DefaultId \in Ids /\ 0 \notin Ids
    /\ DefaultRate \in Rates
    /\ Retries \in Nat

VARIABLES
    family,      \* "feetech", which locks its EEPROM, or "ax12"
    servo,       \* what each servo has in its registers
    bus,         \* the host: servo_bus_t and its receive FIFO
    late,        \* pieces still on their way
    call,        \* the call under way
    last         \* the last call that returned

servoVars == <<family, servo, bus, late, call, last>>

Broadcast == 0     \* SERVO_PROTOCOL_BROADCAST_ID
Values == 0..1     \* of a register, told apart

NoCall == [op |-> "idle", id |-> Broadcast, arg |-> 0, result |-> "none", value |-> 0,
           rate |-> DefaultRate, found |-> {}, there |-> {}]

Idle == [op |-> "idle", id |-> Broadcast, arg |-> 0, step |-> "none", sent |-> FALSE,
         tries |-> 0, result |-> "none", rate |-> DefaultRate, found |-> {}, there |-> {}]
-----------------------------------------------------------------------------
(* Packets *)

Packet(to, inst, reg, value) == [to |-> to, inst |-> inst, reg |-> reg, value |-> value]
Unit(from, kind, value) == [from |-> from, kind |-> kind, value |-> value]
Pieces(unit) == [i \in 1..2 |-> [unit |-> unit, part |-> i]]

\* A ping that comes back reads as a status packet without an error.
Echo(p) == Pieces(Unit(p.to, IF p.inst = "ping" THEN "ack" ELSE "request", 0))

Eeprom == {"id", "rate", "mode"}

\* The packet of each step of a call.
PacketOf(c) ==
    CASE c.step \in {"ping", "probe"} -> Packet(c.id, "ping", "none", 0)
      [] c.step = "poll"       -> Packet(DefaultId, "ping", "none", 0)
      [] c.step = "read"       -> Packet(c.id, "read", "goal", 0)
      [] c.step = "goal"       -> Packet(c.id, "write", "goal", c.arg)
      [] c.step = "unlock"     -> Packet(c.id, "write", "locked", FALSE)
      [] c.step \in {"relock", "relock_old"} -> Packet(c.id, "write", "locked", TRUE)
      [] c.step = "relock_new" -> Packet(c.arg, "write", "locked", TRUE)
      [] c.step = "id"         -> Packet(c.id, "write", "id", c.arg)
      [] c.step = "rate"       -> Packet(c.id, "write", "rate", c.arg)
      [] c.step = "mode"       -> Packet(c.id, "write", "mode", c.arg)
      [] c.step = "reset"      -> Packet(c.id, "reset", "none", 0)

-----------------------------------------------------------------------------
(* The servos, as the drivers use them *)

Hears(s, p) == /\ servo[s].awake /\ servo[s].rate = bus.rate
               /\ p.to \in {servo[s].id, Broadcast}

\* A change of the ID or of the rate is immediate; a reset reboots the servo.
Obeyed(r, p) ==
    CASE p.inst = "write" ->
            IF p.reg \in Eeprom /\ r.locked THEN r
            ELSE IF p.reg = "locked" /\ family = "ax12" THEN r
            ELSE [r EXCEPT ![p.reg] = p.value]
      [] p.inst = "reset" ->
            [r EXCEPT !.id = DefaultId, !.rate = DefaultRate, !.mode = 0, !.goal = 0,
                      !.locked = (family = "feetech"), !.awake = FALSE]
      [] OTHER -> r

Answer(r, p) ==
    IF p.inst = "read" THEN Unit(r.id, "value", r[p.reg]) ELSE Unit(r.id, "ack", 0)

-----------------------------------------------------------------------------
(* half_duplex_uart.c *)

\* What came too late for the last packet is left in the FIFO.
ClearedNot(rx) == rx

Cleared(rx) == <<>>

\* write: the FIFO cleared, the packet sent, as many pieces consumed as it has.
AfterWrite(p) ==
    LET fifo == Cleared(bus.rx) \o Echo(p) IN SubSeq(fifo, 3, Len(fifo))

Fates == {"prompt", "unheard", "unanswered", "garbled", "cut", "late"}

Noise(p) == Pieces(Unit(p.to, "noise", 0))

\* What the servos that heard it send: two at once are noise.
Answers(p, heard) ==
    IF heard = {} \/ p.to = Broadcast THEN <<>>
    ELSE IF Cardinality(heard) > 1 THEN Noise(p)
    ELSE LET s == CHOOSE t \in heard : TRUE IN Pieces(Answer(servo[s], p))

\* One packet on the wire, and what becomes of the answer.
Send(fate) ==
    LET p     == PacketOf(call)
        heard == IF fate = "unheard" THEN {} ELSE {s \in Servos : Hears(s, p)}
        all   == Answers(p, heard)
        now   == CASE fate = "prompt"  -> all
                   [] fate = "garbled" -> Noise(p)
                   [] fate = "cut"     -> SubSeq(all, 1, 1)
                   [] OTHER            -> <<>>
    IN  /\ call.op # "idle" /\ ~call.sent /\ late = <<>>
        /\ fate \in {"unanswered", "garbled", "cut", "late"} => all # <<>>
        /\ servo' = [s \in Servos |-> IF s \in heard THEN Obeyed(servo[s], p) ELSE servo[s]]
        /\ bus' = [bus EXCEPT !.rx = AfterWrite(p) \o now]
        /\ late' = CASE fate = "late" -> all [] fate = "cut" -> SubSeq(all, 2, 2)
                     [] OTHER -> <<>>
        /\ call' = [call EXCEPT !.sent = TRUE]
        /\ UNCHANGED <<family, last>>

\* The rest arrives, before the next packet is sent.
LateArrives ==
    /\ late # <<>> /\ ~call.sent
    /\ bus' = [bus EXCEPT !.rx = @ \o late]
    /\ late' = <<>>
    /\ UNCHANGED <<family, servo, call, last>>

-----------------------------------------------------------------------------
(* servo_bus.c *)

\* attempt: what was read exactly, parsed and compared with what was asked.
Attempt(p, rx) ==
    IF p.to = Broadcast THEN "ok"
    ELSE IF Len(rx) < 2 THEN "timeout"
    ELSE LET u == rx[1].unit IN
         IF rx[2].unit # u \/ <<rx[1].part, rx[2].part>> # <<1, 2>>
            \/ u.kind \in {"noise", "request"}
           THEN "checksum"
         ELSE IF (u.kind = "value") # (p.inst = "read") THEN "malformed"
         ELSE IF u.from # p.to THEN "wrong_id"
         ELSE "ok"

\* transact: a retry starts from a quiet line.
Retry ==
    /\ call.sent
    /\ Attempt(PacketOf(call), bus.rx) # "ok"
    /\ call.tries < bus.retries
    /\ bus' = [bus EXCEPT !.rx = <<>>]
    /\ call' = [call EXCEPT !.tries = @ + 1, !.sent = FALSE]
    /\ UNCHANGED <<family, servo, late, last>>

-----------------------------------------------------------------------------
(* feetech.c and ax12.c: a call goes from step to step *)

\* A step with one try: scan, the new rate, the reset.
OneTry == {"probe", "rate", "reset"}
TriesOf(step) == IF step \in OneTry THEN 0 ELSE Retries

\* A speed changed by an answer clears the FIFO too.
AtRate(rate) == [bus EXCEPT !.rate = rate, !.rx = <<>>]

StartAt(c, step, b) ==
    /\ last' = NoCall
    /\ call' = [c EXCEPT !.step = step, !.sent = FALSE, !.tries = 0]
    /\ bus' = [b EXCEPT !.retries = TriesOf(step)]
    /\ UNCHANGED <<family, servo, late>>

Return(c, result, value, b) ==
    /\ last' = [op |-> c.op, id |-> c.id, arg |-> c.arg, result |-> result,
                value |-> value, rate |-> c.rate, found |-> c.found, there |-> c.there]
    /\ call' = Idle
    /\ bus' = [b EXCEPT !.retries = Retries]
    /\ UNCHANGED <<family, servo, late>>

\* The outcome of a transaction: what is left in the FIFO after it.
Outcome == Attempt(PacketOf(call), bus.rx)
Concluded == call.sent /\ (Outcome = "ok" \/ call.tries = bus.retries)
Rest == [bus EXCEPT !.rx = IF Outcome = "ok" THEN SubSeq(bus.rx, 3, Len(bus.rx)) ELSE <<>>]
Ok == Outcome = "ok"

Locks == family = "feetech"

FirstStep(op) ==
    CASE op = "ping" -> "ping" [] op = "read" -> "read" [] op = "write" -> "goal"
      [] op = "scan" -> "probe"
      [] op = "set_id"   -> IF Locks THEN "unlock" ELSE "id"
      [] op = "set_rate" -> IF Locks THEN "unlock" ELSE "rate"
      [] op = "set_mode" -> IF Locks THEN "unlock" ELSE "mode"
      [] op = "reset"    -> IF Locks THEN "unlock" ELSE "reset"

\* A read and a reset are refused for the broadcast ID, and a rate not
\* in the table, or that the host cannot have, before anything is sent.
RegisterCalls ==
    [op : {"ping"}, id : Ids \cup {Broadcast}, arg : {0}]
    \cup [op : {"read"}, id : Ids, arg : {0}]
    \cup [op : {"write"}, id : Ids \cup {Broadcast}, arg : Values]
    \cup [op : {"scan"}, id : {1}, arg : {0}]

EepromCalls ==
    [op : {"reset"}, id : Ids, arg : {0}]
    \cup [op : {"set_mode"}, id : Ids \cup {Broadcast}, arg : Values]
    \cup [op : {"set_id"}, id : Ids, arg : Ids]
    \cup [op : {"set_rate"}, id : Ids \cup {Broadcast}, arg : Rates]

AtFactory == {s \in Servos : servo[s].id = DefaultId /\ servo[s].rate = DefaultRate}

\* The call keeps who is at the factory settings before it; no step asks.
ServoCall ==
    /\ call.op = "idle"
    /\ \E c \in RegisterCalls \cup EepromCalls :
         StartAt([Idle EXCEPT !.op = c.op, !.id = c.id, !.arg = c.arg, !.rate = bus.rate,
                              !.there = AtFactory],
                 FirstStep(c.op), bus)

\* An unlock that is not acknowledged ends the call where it is.
UnlockDone ==
    /\ call.step = "unlock" /\ Concluded
    /\ IF Ok THEN StartAt(call, CASE call.op = "set_id" -> "id" [] call.op = "set_rate" -> "rate"
                                  [] call.op = "set_mode" -> "mode" [] OTHER -> "reset", Rest)
       ELSE Return(call, Outcome, 0, Rest)

\* servo_bus_ping, read_value, write_value.
TransactionDone ==
    /\ call.op \in {"ping", "read", "write"} /\ Concluded
    /\ Return(call, Outcome, IF Ok /\ call.op = "read" THEN bus.rx[1].unit.value ELSE 0, Rest)

\* scan: one ID after the other.
ProbeDone ==
    /\ call.step = "probe" /\ Concluded
    /\ LET c == [call EXCEPT !.found = IF Ok THEN @ \cup {call.id} ELSE @]
       IN  IF call.id + 1 \in Ids THEN StartAt([c EXCEPT !.id = @ + 1], "probe", Rest)
           ELSE Return(c, "ok", 0, Rest)

IdDone ==
    /\ call.step = "id" /\ Concluded
    /\ IF ~Locks THEN Return(call, Outcome, 0, Rest)
       ELSE IF Ok THEN StartAt(call, "relock_new", Rest)
       ELSE StartAt([call EXCEPT !.result = Outcome], "relock_old", Rest)

\* The acknowledgement decides nothing: the ping at the new rate does.
RateDone ==
    /\ call.step = "rate" /\ Concluded
    /\ IF call.id = Broadcast THEN Return(call, "ok", 0, AtRate(call.arg))
       ELSE StartAt(call, "ping", AtRate(call.arg))

\* A ping that failed leaves the host at the new rate.
RatePingDoneStays ==
    /\ call.op = "set_rate" /\ call.step = "ping" /\ Concluded
    /\ IF Ok THEN IF Locks THEN StartAt(call, "relock", Rest) ELSE Return(call, "ok", 0, Rest)
       ELSE IF Locks THEN StartAt([call EXCEPT !.result = Outcome], "relock_old", Rest)
       ELSE Return(call, Outcome, 0, Rest)

RatePingDone ==
    /\ call.op = "set_rate" /\ call.step = "ping" /\ Concluded
    /\ IF Ok THEN IF Locks THEN StartAt(call, "relock", Rest) ELSE Return(call, "ok", 0, Rest)
       ELSE IF Locks
         THEN StartAt([call EXCEPT !.result = Outcome], "relock_old", AtRate(call.rate))
       ELSE Return(call, Outcome, 0, AtRate(call.rate))

ModeDone ==
    /\ call.step = "mode" /\ Concluded
    /\ IF ~Locks THEN Return(call, Outcome, 0, Rest)
       ELSE IF Ok THEN StartAt(call, "relock", Rest)
       ELSE StartAt([call EXCEPT !.result = Outcome], "relock_old", Rest)

\* relock: its own result is the call's, unless that failed before.
RelockDone ==
    /\ call.step \in {"relock", "relock_new", "relock_old"} /\ Concluded
    /\ Return(call, IF call.step = "relock_old" THEN call.result ELSE Outcome, 0, Rest)

ResetDone ==
    /\ call.step = "reset" /\ Concluded
    /\ StartAt(call, "poll", AtRate(DefaultRate))

\* The factory ID is polled until it answers or the deadline has passed.
PollDone ==
    /\ call.step = "poll" /\ Concluded
    /\ \/ Ok /\ Return(call, "ok", 0, Rest)
       \/ ~Ok /\ StartAt(call, "poll", Rest)
       \/ ~Ok /\ IF Locks
                   THEN StartAt([call EXCEPT !.result = "timeout"], "relock_old", AtRate(call.rate))
                 ELSE Return(call, "timeout", 0, AtRate(call.rate))

\* A servo that was reset is back after its reboot.
ServoWakes ==
    /\ \E s \in Servos : /\ ~servo[s].awake
                         /\ servo' = [servo EXCEPT ![s].awake = TRUE]
    /\ UNCHANGED <<family, bus, late, call, last>>

ServoInit ==
    /\ family \in {"feetech", "ax12"}
    /\ \E rate \in Rates :
         /\ servo = [s \in Servos |-> [id |-> s, rate |-> rate, mode |-> 0, goal |-> 0,
                                       locked |-> family = "feetech", awake |-> TRUE]]
         /\ bus = [rate |-> rate, retries |-> Retries, rx |-> <<>>]
    /\ late = <<>> /\ call = Idle
    /\ last = NoCall

ServoNext ==
    \/ ServoCall \/ (\E fate \in Fates : Send(fate)) \/ LateArrives \/ Retry
    \/ UnlockDone \/ TransactionDone \/ ProbeDone \/ IdDone \/ RateDone \/ RatePingDone
    \/ ModeDone \/ RelockDone \/ ResetDone \/ PollDone \/ ServoWakes

ServoSpec == ServoInit /\ [][ServoNext]_servoVars
-----------------------------------------------------------------------------
(* Properties *)

Reached(id) == {s \in Servos : servo[s].id = id /\ servo[s].rate = bus.rate}

FactorySet(r) == r.mode = 0 /\ r.goal = 0 /\ (Locks => r.locked)

\* A call that reports success has done what it was asked, whatever was lost,
\* cut or late: a servo with the ID that was meant, at the rate the host is at,
\* holds what was written, or held what was read, and its EEPROM is closed
\* again (transact, feetech_set_id, set_baudrate, set_mode); after a reset one
\* answers at the factory settings, and whoever came to them in the call has
\* its other registers reset and its EEPROM closed (factory_reset).  Only what
\* is broadcast is not confirmed, and a servo that was at the factory settings
\* before confirms the reset of another.
OkIsHonest ==
    last.result = "ok" /\ call.op = "idle" /\ last.id # Broadcast =>
        CASE last.op = "scan" -> \A id \in last.found : Reached(id) # {}
          [] last.op = "reset" ->
               /\ Reached(DefaultId) # {}
               /\ \A s \in Reached(DefaultId) \ last.there : FactorySet(servo[s])
          [] OTHER ->
               \E s \in Reached(IF last.op = "set_id" THEN last.arg ELSE last.id) :
                 /\ last.op = "read" => servo[s].goal = last.value
                 /\ last.op = "write" => servo[s].goal = last.arg
                 /\ last.op = "set_mode" => servo[s].mode = last.arg
                 /\ last.op = "set_rate" => bus.rate = last.arg
                 /\ last.op \in {"set_id", "set_rate", "set_mode"} /\ Locks => servo[s].locked

\* A call gives the bus back with the retries its caller chose, and at another
\* rate only when a servo of the ID it was about is there too (or nobody was
\* asked, the ID being the broadcast one): a failure leaves the host with the
\* servos it could talk to (set_baudrate, factory_reset, scan).
BusIsPutBack ==
    call.op = "idle" =>
        /\ bus.retries = Retries
        /\ last.op # "idle" /\ bus.rate # last.rate /\ last.id # Broadcast =>
              Reached(IF last.op = "reset" THEN DefaultId ELSE last.id) # {}

\* Both, after every call, with the faults of the wire anywhere in it (transact,
\* and the calls of feetech.c and ax12.c that take several transactions).  What a
\* failed change of rate or ID does to the servo is the next two properties'.
ServoCallsHold == OkIsHonest /\ BusIsPutBack

\* feetech_set_baudrate: the servo that acknowledged the unlock, and then did not
\* answer at the new rate, is where the host goes back to, to lock it again.
\* False of one that moved and could not be heard (MCServoBusSetRate.cfg).
RateFailureStrandsNobody ==
    call.op = "set_rate" /\ call.step = "relock_old" => Reached(call.id) # {}

\* feetech_set_id: a write of the ID that failed left the old one.
IdIsUnchanged ==
    call.op = "set_id" /\ call.step = "relock_old" => Reached(call.id) # {}
=============================================================================
