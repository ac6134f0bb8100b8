----------------------------- MODULE Algorithms -----------------------------
(***************************************************************************)
(* The pure algorithms of the components, one section for each file:       *)
(* numbers and addresses read from text, CAN identifiers, the timeouts of  *)
(* the distance sensor, the dividers of the PWM and of the half-duplex     *)
(* UART, the back-off of the Wi-Fi, the checksums, the registers of the    *)
(* CAN controller, the bytes of the servo bus, colours, and Intel HEX.     *)
(*                                                                         *)
(* A text is the sequence of its digits, a word of flags the set of its    *)
(* bits, a colour a sequence of three channels.                            *)
(***************************************************************************)
EXTENDS Integers, Sequences, SequencesExt

CONSTANTS
    Word,                      \* 2^32, the range of a uint32_t
    Product,                   \* 2^32, where the products of vl53l0x_timing.c wrap
    StandardBits, ExtendedBits,\* 11 and 29, the widths of a CAN identifier
    MinDiv, MaxDiv, MaxCounts, \* PWM_TIMING_MIN_DIV16, MAX_DIV16, MAX_PERIOD_COUNTS
    Fraction,                  \* DIVIDER_FRACTION_STEPS
    MaxParams                  \* SERVO_PROTOCOL_MAX_PARAMS

ASSUME NumbersAssumption ==
    /\ {Word, Product, StandardBits, ExtendedBits, MinDiv, MaxDiv, MaxCounts, Fraction,
        MaxParams} \subseteq Nat \ {0}
    /\ Word % 2 = 0 /\ StandardBits <= ExtendedBits /\ MinDiv <= MaxDiv

NotANumber == -1     \* the call returned false

-----------------------------------------------------------------------------
(* cli.c *)

\* A whole token, in digits of up to sixteen values; a value past the width
\* wraps.
ParseU32(digits, base) ==
    IF digits = <<>> \/ \E i \in DOMAIN digits : digits[i] >= base THEN NotANumber
    ELSE FoldLeft(LAMBDA value, digit : (value * base + digit) % Word, 0, digits)

NextU32(token) == ParseU32(token.digits, IF token.hex THEN 16 ELSE 10)

NextHex32(token) == ParseU32(token.digits, 16)

\* The number, or nothing.
NextI32(token) ==
    LET magnitude == NextU32(token)
        most == IF token.negative THEN Word \div 2 ELSE Word \div 2 - 1
    IN  IF magnitude = NotANumber \/ magnitude > most THEN <<>>
        ELSE <<IF token.negative THEN -magnitude ELSE magnitude>>

(* udp_policy.c: the four groups of digits of an address.                   *)

Octet(digits) ==
    LET value == FoldLeft(LAMBDA v, digit : v * 10 + digit, 0, digits)
    IN  IF Len(digits) \notin 1..3 \/ (digits[1] = 0 /\ Len(digits) > 1) \/ value > 255
        THEN NotANumber ELSE value

ParseIpv4(groups) ==
    LET octets == [i \in DOMAIN groups |-> Octet(groups[i])]
    IN  IF Len(groups) # 4 \/ \E i \in DOMAIN octets : octets[i] = NotANumber THEN <<>>
        ELSE octets

-----------------------------------------------------------------------------
(* can_frame.c *)

ExtendedFlag == 31
RemoteFlag == 30
IdBits(extended) == 0..(IF extended THEN ExtendedBits ELSE StandardBits) - 1

IdPack(id, extended, remote) ==
    (id \cap IdBits(extended)) \cup (IF extended THEN {ExtendedFlag} ELSE {})
                               \cup (IF remote THEN {RemoteFlag} ELSE {})

IdValue(packed) == packed \cap IdBits(ExtendedFlag \in packed)

FilterMatches(filter, packed) == packed \cap filter.mask = filter.id \cap filter.mask

FiltersAccept(filters, packed) ==
    filters = {} \/ \E filter \in filters : FilterMatches(filter, packed)

-----------------------------------------------------------------------------
(* vl53l0x_timing.c *)

EncodeTimeout(mclks) ==
    LET fits(e) == (mclks - 1) \div 2^e < 256
        least   == CHOOSE e \in 0..16 : fits(e) /\ (e = 0 \/ ~fits(e - 1))
    IN  IF mclks = 0 THEN [mantissa |-> 0, exponent |-> 0]
        ELSE [mantissa |-> (mclks - 1) \div 2^least, exponent |-> least]

DecodeTimeout(register) == register.mantissa * 2^register.exponent + 1

MacroPeriod(pclks) == (2304 * pclks * 1655 + 500) \div 1000

\* Both multiply in 32 bits, and the product of a time past 4.29 s wraps.
MclksToMicros(mclks, pclks) == ((mclks * MacroPeriod(pclks) + 500) % Product) \div 1000

MicrosToMclks(micros, pclks) ==
    ((micros * 1000 + MacroPeriod(pclks) \div 2) % Product) \div MacroPeriod(pclks)

-----------------------------------------------------------------------------
(* pwm_timing.c, half_duplex_uart_timing.c *)

Rounded(a, b) == (a + b \div 2) \div b

\* `total` is the period asked for, in fractions of a clock tick.
TimingFor(total) ==
    LET least == (total + MaxCounts - 1) \div MaxCounts
        div   == IF least < MinDiv THEN MinDiv ELSE least
    IN  IF total < MinDiv THEN [result |-> "too fast"]
        ELSE IF div > MaxDiv THEN [result |-> "too slow"]
        ELSE [result |-> "ok", div |-> div,
              period |-> IF Rounded(total, div) > MaxCounts THEN MaxCounts
                         ELSE Rounded(total, div)]

UartDivider(clock, baudrate) == Rounded(clock * Fraction, 8 * baudrate)

\* The rate obtained, and how far it is from the one asked for in thousandths.
UartTiming(clock, baudrate) ==
    LET divider == UartDivider(clock, baudrate)
        actual  == Rounded(clock * Fraction, divider * 8)
        error   == (actual - baudrate) * 1000
    IN  IF divider < Fraction \/ divider > 65536 * Fraction THEN [result |-> "refused"]
        ELSE [result |-> "ok", divider |-> divider, actual |-> actual,
              error |-> IF error < 0 THEN -((-error) \div baudrate) ELSE error \div baudrate]

\* The time that `bytes` take on the wire, in units of which a second has `second`.
FrameTime(baudrate, bytes, second) == (bytes * 10 * second + baudrate - 1) \div baudrate

-----------------------------------------------------------------------------
(* wifi_policy.c *)

RetryDelay(first, ceiling, attempt) ==
    LET delay[i \in 1..attempt] ==
            IF i = 1 THEN first
            ELSE IF delay[i - 1] >= ceiling \/ delay[i - 1] > Word - 1 - delay[i - 1]
            THEN ceiling ELSE 2 * delay[i - 1]
    IN  IF delay[attempt] < ceiling THEN delay[attempt] ELSE ceiling

RetryDue(now, next) == (now - next) % Word < Word \div 2

-----------------------------------------------------------------------------
(* crc.c: a register and a byte are sets of bits.                           *)

Xor(a, b) == (a \ b) \cup (b \ a)
Bits(byte) == {i \in 0..7 : (byte \div 2^i) % 2 = 1}

Poly32 == {0, 1, 2, 4, 5, 7, 8, 10, 11, 12, 16, 22, 23, 26}   \* not reflected
Crc32Step(s) ==
    LET down == {i - 1 : i \in s \ {0}}
    IN  IF 0 \in s THEN Xor(down, {31 - i : i \in Poly32}) ELSE down

\* Each byte enters at the low end and is shifted out bit by bit.
Crc32Update(state, bytes) ==
    LET shift[k \in 0..8, s \in SUBSET (0..31)] == IF k = 0 THEN s ELSE shift[k - 1, Crc32Step(s)]
        after[i \in 0..Len(bytes)] ==
            IF i = 0 THEN state ELSE shift[8, Xor(after[i - 1], Bits(bytes[i]))]
    IN  after[Len(bytes)]

Crc16Step(s) ==
    LET up == {i + 1 : i \in s \ {15}}
    IN  IF 15 \in s THEN Xor(up, {0, 5, 12}) ELSE up

\* Each byte enters at the high end.
Crc16Update(state, bytes) ==
    LET shift[k \in 0..8, s \in SUBSET (0..15)] == IF k = 0 THEN s ELSE shift[k - 1, Crc16Step(s)]
        after[i \in 0..Len(bytes)] ==
            IF i = 0 THEN state ELSE shift[8, Xor(after[i - 1], {b + 8 : b \in Bits(bytes[i])})]
    IN  after[Len(bytes)]

-----------------------------------------------------------------------------
(* mcp2515.c: the header of a frame (mcp2515_frame.c), the acceptance        *)
(* filters (mcp2515_filters.c) and the bit timing (mcp2515_timing.c).  A     *)
(* packed identifier and a register are sets of bits; a header is the        *)
(* sequence of its registers.                                                *)

\* Bits low..high of a word, moved to begin at `to`.
Field(bits, low, high, to) == {b - low + to : b \in bits \cap (low..high)}

Exide == 3      \* in SIDL
Rtr == 6        \* in DLC

\* mcp2515_frame_pack_id: SIDH, SIDL, EID8, EID0
PackId(packed) ==
    LET id == IdValue(packed)
    IN  IF ExtendedFlag \in packed
        THEN <<Field(id, 21, 28, 0),
               Field(id, 18, 20, 5) \cup {Exide} \cup Field(id, 16, 17, 0),
               Field(id, 8, 15, 0), Field(id, 0, 7, 0)>>
        ELSE <<Field(id, 3, 10, 0), Field(id, 0, 2, 5), {}, {}>>

\* The layout that the flag in the mask asks for, which is set in every mask.
PackMaskAsFlagged(mask, extended) == PackId(mask)

\* mcp2515_frame_pack_mask: the layout is that of the bank's filters.
PackMask(mask, extended) ==
    PackId(IF extended THEN mask \cup {ExtendedFlag} ELSE mask \ {ExtendedFlag})

\* mcp2515_frame_pack_header
PackHeader(message) ==
    Append(PackId(IdPack(message.id, message.extended, message.remote)),
           Field(Bits(message.length), 0, 3, 0) \cup (IF message.remote THEN {Rtr} ELSE {}))

\* can_dlc_to_length
DlcToLength(dlc) == IF dlc > 8 THEN 8 ELSE dlc

\* mcp2515_frame_unpack_header
UnpackHeader(header) ==
    LET extended == Exide \in header[2]
        standard == Field(header[1], 0, 7, 3) \cup Field(header[2], 5, 7, 0)
        low == Field(header[2], 0, 1, 16) \cup Field(header[3], 0, 7, 8) \cup header[4]
        dlc(bit) == IF bit \in header[5] THEN 2^bit ELSE 0
    IN  [extended |-> extended,
         id |-> IF extended THEN {b + 18 : b \in standard} \cup low ELSE standard,
         remote |-> Rtr \in header[5],
         length |-> DlcToLength(dlc(0) + dlc(1) + dlc(2) + dlc(3))]

-----------------------------------------------------------------------------
FilterSlots == 6          \* MCP2515_FILTER_SLOTS
Bank0Slots == 2           \* MCP2515_BANK0_SLOTS; the other four are RXB1's

\* mcp2515_filters_are_valid
FiltersAreValid(filters) ==
    /\ Len(filters) <= FilterSlots
    /\ \A i \in DOMAIN filters :
         LET leader == filters[IF i <= Bank0Slots THEN 1 ELSE Bank0Slots + 1]
         IN  /\ ExtendedFlag \in filters[i].mask /\ RemoteFlag \notin filters[i].mask
             /\ filters[i].mask = leader.mask
             /\ (ExtendedFlag \in filters[i].id) = (ExtendedFlag \in leader.id)

\* One bank's registers: its filters, repeated until every slot has one.
Bank(slots, filters) ==
    LET extended == ExtendedFlag \in filters[1].id
    IN  [slots |-> [i \in 1..slots |-> PackId(filters[1 + ((i - 1) % Len(filters))].id)],
         mask  |-> PackMask(filters[1].mask, extended)]

Taking(filters, first, last) ==
    SubSeq(filters, first, IF last < Len(filters) THEN last ELSE Len(filters))

\* The second bank left as it was reset when no filter is left for it.
FilterPlanOpen(filters) ==
    [acceptAll |-> filters = <<>>,
     banks |-> IF filters = <<>> THEN <<>>
               ELSE <<Bank(Bank0Slots, Taking(filters, 1, Bank0Slots)),
                      IF Len(filters) > Bank0Slots
                        THEN Bank(FilterSlots - Bank0Slots,
                                  Taking(filters, Bank0Slots + 1, FilterSlots))
                      ELSE [slots |-> <<<<{}, {}, {}, {}>>>>, mask |-> <<{}, {}, {}, {}>>]>>]

\* mcp2515_filter_plan, as configure_filters writes it: with no filter left for
\* it, the second bank repeats the first.
FilterPlan(filters) ==
    [acceptAll |-> filters = <<>>,
     banks |-> IF filters = <<>> THEN <<>>
               ELSE <<Bank(Bank0Slots, Taking(filters, 1, Bank0Slots)),
                      Bank(FilterSlots - Bank0Slots,
                           IF Len(filters) > Bank0Slots
                             THEN Taking(filters, Bank0Slots + 1, FilterSlots)
                           ELSE filters)>>]

\* The controller: a buffer takes a frame when one of its filters agrees with
\* it under the mask of the bank and is of the frame's type.
ControllerAccepts(plan, header) ==
    \/ plan.acceptAll
    \/ \E b \in DOMAIN plan.banks :
         LET bank == plan.banks[b]
         IN  \E slot \in DOMAIN bank.slots :
               /\ (Exide \in bank.slots[slot][2]) = (Exide \in header[2])
               /\ \A r \in 1..4 : LET looked == bank.mask[r] \ (IF r = 2 THEN {Exide} ELSE {})
                                  IN  bank.slots[slot][r] \cap looked = header[r] \cap looked

-----------------------------------------------------------------------------
\* split_segments
Segments(quanta) ==
    LET rest    == quanta - 1
        quarter == rest \div 4
        wanted  == IF quarter < 2 THEN 2 ELSE IF quarter > 8 THEN 8 ELSE quarter
        before  == IF rest - wanted > 16 THEN 16 ELSE rest - wanted
        half    == IF before \div 2 < 1 THEN 1 ELSE before \div 2
    IN  [prseg |-> half, phseg1 |-> before - half, phseg2 |-> rest - before]

\* find_ntq_and_brp: of the numbers of quanta that give the exact rate, the
\* first of those nearest to sixteen.
Quanta(target) ==
    {q \in 8..25 : target % q = 0 /\ target \div q \in 1..64}

FromSixteen(q) == IF q > 16 THEN q - 16 ELSE 16 - q

\* mcp2515_compute_bit_timing, in units of which the oscillator has `clock`.
BitTiming(clock, bitrate) ==
    LET target == clock \div (2 * bitrate)
        q == CHOOSE n \in Quanta(target) :
                 \A m \in Quanta(target) : \/ FromSixteen(n) < FromSixteen(m)
                                           \/ FromSixteen(n) = FromSixteen(m) /\ n <= m
    IN  IF clock = 0 \/ bitrate = 0 \/ clock % (2 * bitrate) # 0 \/ Quanta(target) = {}
        THEN [result |-> "refused"]
        ELSE [result |-> "ok", quanta |-> q, prescaler |-> target \div q,
              segments |-> Segments(q)]

\* mcp2515_reset_delay_us, `second` being 1000000 and its bounds 1 and 100 MHz.
ResetDelay(clock, second) ==
    LET hz == IF clock < second THEN second
              ELSE IF clock > 100 * second THEN 100 * second ELSE clock
    IN  2 * ((128 * second + hz - 1) \div hz)

OneByte == 0..255

-----------------------------------------------------------------------------
(* servo_protocol.c, i2c_bytes.c *)

Checksum(bytes) == 255 - (FoldLeft(+, 0, bytes) % 256)

PacketSize(count) == count + 6

Build(id, instruction, params) ==
    LET body == <<id, Len(params) + 2, instruction>> \o params
    IN  IF Len(params) > MaxParams THEN [result |-> "too many params", bytes |-> <<>>]
        ELSE [result |-> "ok", bytes |-> <<255, 255>> \o body \o <<Checksum(body)>>]

\* The byte order is that of the data sheet: `little` puts the low byte first.
Encode(value, width, little) ==
    LET low == [i \in 1..width |-> (value \div 256^(i - 1)) % 256]
    IN  IF little THEN low ELSE Reverse(low)

Decode(bytes, little) ==
    FoldLeft(LAMBDA value, byte : 256 * value + byte, 0,
             IF little THEN Reverse(bytes) ELSE bytes)

BuildSyncWrite(reg, width, targets, little) ==
    LET each(t) == <<t.id>> \o Encode(t.value, width, little)
        params  == <<reg, width>> \o FlattenSeq([i \in DOMAIN targets |-> each(targets[i])])
    IN  Build(254, 131, params)

ParseStatus(data) ==
    LET count == data[4] - 2
        size  == PacketSize(count)
        body  == SubSeq(data, 3, size - 1)
    IN  IF Len(data) < 2 THEN [result |-> "incomplete"]
        ELSE IF data[1] # 255 \/ data[2] # 255 THEN [result |-> "bad header"]
        ELSE IF Len(data) <= 3 THEN [result |-> "incomplete"]
        ELSE IF data[4] < 2 THEN [result |-> "bad header"]
        ELSE IF count > MaxParams THEN [result |-> "too many params"]
        ELSE IF Len(data) < size THEN [result |-> "incomplete"]
        ELSE IF Checksum(body) # data[size] THEN [result |-> "bad checksum"]
        ELSE [result |-> "ok", id |-> data[3], error |-> data[5],
              params |-> SubSeq(data, 6, 5 + count), size |-> size]

SignExtend(value, bits) ==
    LET magnitude == value % 2^bits
    IN  IF magnitude >= 2^(bits - 1) THEN magnitude - 2^bits ELSE magnitude

-----------------------------------------------------------------------------
(* ax12_registers.c, feetech_registers.c *)

ServoModels == {"ax12", "feetech"}
PositionMax(model) == IF model = "ax12" THEN 1023 ELSE 4095
Range360(model)    == IF model = "ax12" THEN 300000 ELSE 360000

Millidegrees(model, position) ==
    LET top == PositionMax(model)
        p   == IF position > top THEN top ELSE position
    IN  (p * Range360(model) + top \div 2) \div top

Position(model, millidegrees) ==
    IF millidegrees >= Range360(model) THEN PositionMax(model)
    ELSE (millidegrees * PositionMax(model) + Range360(model) \div 2) \div Range360(model)

SignedMagnitude(model, raw) ==
    LET sign == IF model = "ax12" THEN 1024 ELSE 32768
        magnitude == raw % sign
    IN  IF (raw \div sign) % 2 = 1 THEN -magnitude ELSE magnitude

BaudValues == 1..254
BaudRate(value) == IF value \in BaudValues THEN 2000000 \div (value + 1) ELSE 0

BaudTable == <<1000000, 500000, 250000, 128000, 115200, 76800, 57600, 38400>>

Apart(a, b) == IF a > b THEN a - b ELSE b - a
Within3Percent(rate, candidate) == Apart(rate, candidate) * 100 <= rate * 3

\* What the register is set to for a rate, or 255 when no value comes within 3%.
BaudValue(model, rate) ==
    LET divisor == (2000000 + rate \div 2) \div rate
        entry == SelectInSeq(BaudTable, LAMBDA c : Within3Percent(rate, c))
    IN  IF model = "feetech" THEN IF entry = 0 THEN 255 ELSE entry - 1
        ELSE IF divisor - 1 \notin BaudValues THEN 255
        ELSE IF ~Within3Percent(rate, BaudRate(divisor - 1)) THEN 255
        ELSE divisor - 1

-----------------------------------------------------------------------------
(* ws2812_color.c: arithmetic on the channels of a colour.                   *)

ChannelValue == 0..255

\* C's division, which rounds towards zero.
TowardsZero(a, b) == IF a < 0 THEN -((-a) \div b) ELSE a \div b

ScaleChannel(value, numerator) == (value * numerator + 127) \div 255

ScaleBiased(value, numerator, offset) == (value * numerator + offset) \div 255

\* The frame permutes the thresholds of the block instead of complementing
\* them.
DitherBiasMoved(x, y, frame) ==
    LET index == (x % 2) + 2 * (y % 2)
    IN  <<0, 2, 3, 1>>[1 + IF frame % 2 = 1 THEN 3 - index ELSE index]

DitherBias(x, y, frame) ==
    LET bias == <<0, 2, 3, 1>>[1 + (x % 2) + 2 * (y % 2)]
    IN  IF frame % 2 = 1 THEN 3 - bias ELSE bias

ScaleDither(value, brightness, bias) ==
    ScaleBiased(value, brightness, 32 + 64 * (bias % 4))

LerpChannel(from, to, t) ==
    LET delta == to - from
    IN  from + TowardsZero(delta * t + (IF delta >= 0 THEN 127 ELSE -127), 255)

FromHsv(h, s, v) ==
    LET sector == h \div 43
        offset == (h - sector * 43) * 6
        p == (v * (255 - s)) \div 255
        q == (v * (255 - (s * offset) \div 255)) \div 255
        t == (v * (255 - (s * (255 - offset)) \div 255)) \div 255
    IN  IF s = 0 THEN <<v, v, v>>
        ELSE << <<v, t, p>>, <<q, v, p>>, <<p, v, t>>, <<p, q, v>>,
                <<t, p, v>>, <<v, p, q>> >>[1 + sector]

FromHue16(hue) ==
    LET wrapped  == hue % 1536
        position == wrapped % 256
        inverse  == 255 - position
    IN  << <<255, position, 0>>, <<inverse, 255, 0>>, <<0, 255, position>>,
           <<0, inverse, 255>>, <<position, 0, 255>>, <<255, 0, inverse>> >>
        [1 + wrapped \div 256]

-----------------------------------------------------------------------------
(* light.c: the black-body curve, sampled every 25 mireds from 150.         *)

MiredsTable ==
    << <<255, 250, 255>>, <<255, 241, 229>>, <<255, 228, 206>>, <<255, 216, 185>>,
       <<255, 206, 166>>, <<255, 196, 148>>, <<255, 188, 131>>, <<255, 180, 115>>,
       <<255, 172, 100>>, <<255, 165, 85>>, <<255, 159, 70>>, <<255, 153, 56>>,
       <<255, 147, 42>>, <<255, 142, 28>>, <<255, 137, 14>> >>

Interpolate(from, to, position, span) == from + TowardsZero((to - from) * position, span)

FromMireds(mireds) ==
    LET m      == IF mireds < 153 THEN 153 ELSE IF mireds > 500 THEN 500 ELSE mireds
        index  == (m - 150) \div 25
        place  == (m - 150) % 25
        low    == MiredsTable[index + 1]
        high   == MiredsTable[index + 2]
    IN  IF index >= 14 THEN MiredsTable[15]
        ELSE [c \in 1..3 |-> Interpolate(low[c], high[c], place, 25)]

-----------------------------------------------------------------------------
(* hex_parser.c: one line of an Intel HEX file at a time.  A line is the     *)
(* sequence of its characters between the ':' and the trailing white space,  *)
(* each the value of a hexadecimal digit or NotADigit.  A 32-bit address is  *)
(* the pair of its halves.                                                   *)

NotADigit == 16
Half == 65536

\* hex_record_type_t
HexData == 0
HexEof == 1
HexSegment == 2
HexStartSegment == 3
HexLinear == 4
HexStartLinear == 5

HexReset == [base |-> <<0, 0>>, start |-> <<>>, eof |-> FALSE]

\* The offset stays in its half, as the 8086 would have it.
PlusWithinHalf(base, offset) == <<base[1], (base[2] + offset) % Half>>

\* The 16-bit offset of a data record carries into the upper half.
Plus(base, offset) ==
    LET low == base[2] + offset
    IN  <<(base[1] + low \div Half) % Half, low % Half>>

BaseOf(type, value) ==
    IF type = HexLinear THEN <<value, 0>> ELSE <<value \div 4096, (value * 16) % Half>>

BytesOf(line) == [i \in 1..Len(line) \div 2 |-> 16 * line[2 * i - 1] + line[2 * i]]

SumOf(bytes) == FoldLeft(LAMBDA sum, byte : (sum + byte) % 256, 0, bytes)

\* What an accepted line does: the parser it leaves and the record it gives.
Applied(parser, type, offset, data) ==
    LET give == [result |-> "ok", parser |-> parser,
                 record |-> [type |-> type, address |-> <<0, 0>>, data |-> data]]
        refuse(why) == [result |-> why, parser |-> parser]
    IN  CASE type = HexData -> [give EXCEPT !.record.address = Plus(parser.base, offset)]
          [] type = HexEof ->
               IF data # <<>> THEN refuse("malformed") ELSE [give EXCEPT !.parser.eof = TRUE]
          [] type \in {HexSegment, HexLinear} ->
               IF Len(data) # 2 THEN refuse("malformed")
               ELSE [give EXCEPT !.parser.base = BaseOf(type, 256 * data[1] + data[2])]
          [] type \in {HexStartSegment, HexStartLinear} ->
               IF Len(data) # 4 THEN refuse("malformed")
               ELSE [give EXCEPT !.parser.start = data]
          [] OTHER -> refuse("unknown type")

\* hex_parser_feed
Feed(parser, line) ==
    LET bytes == BytesOf(line)
        refuse(why) == [result |-> why, parser |-> parser]
    IN  IF Len(line) \notin 10..520 \/ Len(line) % 2 # 0 THEN refuse("bad length")
        ELSE IF \E i \in DOMAIN line : line[i] = NotADigit THEN refuse("bad character")
        ELSE IF Len(bytes) # bytes[1] + 5 THEN refuse("bad length")
        ELSE IF SumOf(bytes) # 0 THEN refuse("bad checksum")
        ELSE IF parser.eof THEN refuse("after end of file")
        ELSE Applied(parser, bytes[4], 256 * bytes[2] + bytes[3],
                     SubSeq(bytes, 5, 4 + bytes[1]))
=============================================================================
