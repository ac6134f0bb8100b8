-------------------------------- MODULE Codecs --------------------------------
(***************************************************************************)
(* The operators of Algorithms, and the layout of the flash, next to what  *)
(* they are for.  `at` counts the inputs walked through: each claim takes  *)
(* it as one input, as far as its range goes, and quantifies over the      *)
(* others.                                                                 *)
(***************************************************************************)
EXTENDS Algorithms

-----------------------------------------------------------------------------
(* flash_layout.c: how the flash is divided and which offsets a region allows *)
(* to erase and to program.  Sizes are uint32_t, taken modulo Word.           *)

CONSTANTS SectorSize, PageSize   \* FLASH_LAYOUT_SECTOR_SIZE, FLASH_LAYOUT_PAGE_SIZE

ASSUME LayoutAssumption ==
    /\ {SectorSize, PageSize} \subseteq Nat \ {0}
    /\ SectorSize % PageSize = 0 /\ Word % SectorSize = 0

ManifestSectors == 1       \* FLASH_LAYOUT_MANIFEST_SECTORS

SectorAligned(offset) == offset % SectorSize = 0
PageAligned(offset) == offset % PageSize = 0

Region(offset, size) == [offset |-> offset, size |-> size]

\* flash_layout_compute
Layout(flashSize, dataSectors) ==
    LET sectors == flashSize \div SectorSize
        image   == (((sectors - dataSectors) % Word) \div 2) * SectorSize % Word
        data    == (2 * image + ManifestSectors * SectorSize) % Word
    IN  IF ~SectorAligned(flashSize) THEN [result |-> "invalid"]
        ELSE IF dataSectors < ManifestSectors + 1 \/ sectors < (dataSectors + 2) % Word
          THEN [result |-> "too small"]
        ELSE [result |-> "ok",
              application |-> Region(0, image),
              staging     |-> Region(image, image),
              manifest    |-> Region(2 * image % Word, ManifestSectors * SectorSize),
              data        |-> Region(data, (flashSize - data) % Word)]

\* The end of the range is added up in the same word.
RegionContainsEnd(region, offset, size) ==
    /\ region.size # 0
    /\ (offset + size) % Word <= region.size

\* flash_region_contains: no sum that could wrap.
RegionContains(region, offset, size) ==
    /\ region.size # 0
    /\ offset <= region.size
    /\ size # 0 => size <= region.size - offset

CheckErase(region, offset, size) ==
    IF ~RegionContains(region, offset, size) THEN "out of range"
    ELSE IF ~(SectorAligned(region.offset) /\ SectorAligned(offset) /\ SectorAligned(size))
      THEN "unaligned"
    ELSE "ok"

CheckProgram(region, offset, size) ==
    IF ~RegionContains(region, offset, size) THEN "out of range"
    ELSE IF ~(PageAligned(region.offset) /\ PageAligned(offset) /\ PageAligned(size))
      THEN "unaligned"
    ELSE "ok"

-----------------------------------------------------------------------------
(* The inputs *)

CONSTANT LastInput

ASSUME CodecsAssumption == LastInput \in Nat

VARIABLE at

CodecsInit == at = 0
CodecsNext == at <= LastInput /\ at' = at + 1
CodecsSpec == CodecsInit /\ [][CodecsNext]_at

Near(a, b, most) == Apart(a, b) <= most

-----------------------------------------------------------------------------
(* The bytes of the servo bus *)

\* A packet is read back as it was built whatever follows it, no part of it
\* is taken for anything but the beginning of a packet, and with one byte
\* changed it is never taken for a packet of its size (servo_protocol.h:222-224).
PacketsSurvive(byte) ==
    \A id \in {1, 254}, error \in {0, 32}, params \in {<<>>, <<7>>, <<255, 0, 255>>} :
        LET packet == Build(id, error, params).bytes
            n      == Len(packet)
            whole  == ParseStatus(packet \o <<byte>>)
            Taken(data) == LET s == ParseStatus(data) IN s.result = "ok" /\ s.size = n
        IN  /\ Taken(packet) /\ whole = ParseStatus(packet)
            /\ whole.id = id /\ whole.error = error /\ whole.params = params
            /\ \A k \in 0..n - 1 : ParseStatus(SubSeq(packet, 1, k)).result = "incomplete"
            /\ \A i \in 1..n : byte # packet[i] => ~Taken([packet EXCEPT ![i] = byte])

\* A register value comes back in either byte order, and each servo that a
\* sync write names finds its own value where the width says it is.
ValuesSurvive(value) ==
    \A little \in BOOLEAN, width \in {1, 2, 4} : (width > 1 \/ value < 256) =>
        LET targets == <<[id |-> 1, value |-> value], [id |-> 2, value |-> value \div 2]>>
            sent    == ParseStatus(BuildSyncWrite(42, width, targets, little).bytes).params
            Share(k) == SubSeq(sent, 3 + (k - 1) * (width + 1), 2 + k * (width + 1))
        IN  /\ Decode(Encode(value, width, little), little) = value
            /\ \A k \in 1..2 : /\ Share(k)[1] = targets[k].id
                               /\ Decode(Tail(Share(k)), little) = targets[k].value

\* An angle read from a servo and written back is the same position, and a
\* further position is a wider angle.
PositionsSurvive(position) ==
    \A model \in ServoModels : position <= PositionMax(model) =>
        /\ Position(model, Millidegrees(model, position)) = position
        /\ position > 0 => Millidegrees(model, position - 1) < Millidegrees(model, position)

\* A sign and a magnitude are a number: the two halves of the range mirror
\* each other; a two's complement that is sign-extended keeps its low bits.
SignsSurvive(raw) ==
    /\ \A model \in ServoModels :
           LET sign == IF model = "ax12" THEN 1024 ELSE 32768
           IN  SignedMagnitude(model, (raw % sign) + sign) = -SignedMagnitude(model, raw % sign)
    /\ \A bits \in {8, 12} : /\ SignExtend(raw, bits) % 2^bits = raw % 2^bits
                             /\ SignExtend(raw, bits) \in -(2^(bits - 1))..2^(bits - 1) - 1

\* A rate that a register can hold is found again; a rate that is near enough
\* gets the entry of the table that is nearest, and never one more than 3% off.
BaudsSurvive(n) ==
    /\ n \in BaudValues => BaudValue("ax12", BaudRate(n)) = n
    /\ n \in DOMAIN BaudTable => BaudValue("feetech", BaudTable[n]) = n - 1
    /\ LET rate == (n + 1) * 250
           ax == BaudValue("ax12", rate)
           ft == BaudValue("feetech", rate)
       IN  /\ ax # 255 => Within3Percent(rate, BaudRate(ax))
           /\ ft # 255 => \A i \in DOMAIN BaudTable :
                              Apart(rate, BaudTable[ft + 1]) <= Apart(rate, BaudTable[i])

-----------------------------------------------------------------------------
(* Colours *)

\* Brightness scales to the nearest step; the four thresholds of the dither
\* average to the exact value, a block of four pixels has each of them once
\* and a pixel's even and odd frames even out (ws2812_color.c:172-195).
ScalesEvenly(value) ==
    \A brightness \in ChannelValue :
        LET dithered == [bias \in 0..3 |-> ScaleDither(value, brightness, bias)]
            total    == dithered[0] + dithered[1] + dithered[2] + dithered[3]
        IN  /\ Near(255 * ScaleChannel(value, brightness), value * brightness, 127)
            /\ Near(255 * total, 4 * value * brightness, 4 * 33)

DitherIsEven(frame) ==
    /\ {DitherBias(x, y, frame) : x, y \in {4, 5}} = 0..3
    /\ \A x, y \in 0..1 : DitherBias(x, y, frame) + DitherBias(x, y, frame + 1) = 3

\* A fade between two colours starts and ends on them, stays between, and is
\* the same either way.
LerpIsBetween(from) ==
    \A to \in {0, 1, 100, 254, 255}, t \in ChannelValue :
        LET x == LerpChannel(from, to, t)
        IN  /\ (from <= x /\ x <= to) \/ (to <= x /\ x <= from)
            /\ t = 0 => x = from
            /\ t = 255 => x = to
            /\ x = LerpChannel(to, from, 255 - t)

\* One step of hue is one step of one channel, all the way round.
HueIsContinuous(hue) ==
    LET a == FromHue16(hue)
        b == FromHue16(hue + 1)
    IN  Apart(a[1], b[1]) + Apart(a[2], b[2]) + Apart(a[3], b[3]) <= 1

\* The brightest channel of a hue is its value, whatever the saturation.
HsvKeepsValue(h) ==
    \A s \in {0, 1, 128, 255}, v \in {0, 1, 100, 255} :
        LET c == FromHsv(h, s, v)
        IN  /\ \A i \in 1..3 : c[i] \in 0..v
            /\ \E i \in 1..3 : c[i] = v

\* A warmer white has no more green or blue than a cooler one.
WarmthIsMonotone(mireds) ==
    \A c \in 1..3 : /\ FromMireds(mireds + 1)[c] <= FromMireds(mireds)[c]
                    /\ FromMireds(mireds)[c] \in ChannelValue

-----------------------------------------------------------------------------
(* Numbers *)

Digits(n, base) ==
    LET digit(i) == (n \div base^(i - 1)) % base
        count    == CHOOSE k \in 1..12 : n < base^k /\ (k = 1 \/ n >= base^(k - 1))
    IN  Reverse([i \in 1..count |-> digit(i)])

\* A number that fits a word is read as written, in either base, a signed one
\* when its sign can hold it and not at all otherwise; no letter passes in a
\* decimal number.
NumbersSurvive(n) ==
    n < Word =>
        \A hex, negative \in BOOLEAN :
            LET base  == IF hex THEN 16 ELSE 10
                token == [negative |-> negative, hex |-> hex, digits |-> Digits(n, base)]
                value == IF negative THEN -n ELSE n
            IN  /\ NextU32(token) = n
                /\ NextHex32([token EXCEPT !.digits = Digits(n, 16)]) = n
                /\ NextI32(token) = IF value \in -(Word \div 2)..(Word \div 2) - 1
                                    THEN <<value>> ELSE <<>>
                /\ ~hex => NextI32([token EXCEPT !.digits = @ \o <<11>>]) = <<>>

\* An octet reads as itself and has no other spelling.
AddressesSurvive(n) ==
    \A place \in 1..4 :
        LET group  == Digits(n, 10)
            Parsed(g) == ParseIpv4([i \in 1..4 |-> IF i = place THEN g ELSE <<9>>])
        IN  /\ Parsed(group) = IF n <= 255 THEN [i \in 1..4 |-> IF i = place THEN n ELSE 9]
                               ELSE <<>>
            /\ Parsed(<<0>> \o group) = <<>>

\* Identifiers around one bit.
Samples(extended, bit) ==
    {ids \cap IdBits(extended) : ids \in {{}, {bit}, {0, bit}, {1, bit}, {2},
                                         0..ExtendedFlag, (0..ExtendedFlag) \ {bit}}}

Frames(bit) == {[id |-> id, extended |-> TRUE, remote |-> remote] :
                  id \in Samples(TRUE, bit), remote \in BOOLEAN}
         \cup {[id |-> id, extended |-> FALSE, remote |-> remote] :
                  id \in Samples(FALSE, bit), remote \in BOOLEAN}

\* A valid identifier is read back from its word, and no two frames have the
\* same word: a filter that looks at every bit lets one of them through.
IdentifiersSurvive(bit) ==
    LET Pack(f) == IdPack(f.id, f.extended, f.remote)
    IN  \A f \in Frames(bit) :
            /\ IdValue(Pack(f)) = f.id
            /\ \A g \in Frames(bit) :
                   /\ FilterMatches([id |-> Pack(f), mask |-> 0..ExtendedFlag], Pack(g)) <=> f = g
                   /\ FiltersAccept({[id |-> Pack(f), mask |-> {}]}, Pack(g))
                   /\ FiltersAccept({}, Pack(g))

\* A timeout is never longer than what was asked, short by less than a 128th,
\* and exact while it fits a byte (vl53l0x_timing.h:105-109); a time survives
\* its conversion to macro periods within half a period, up to the last whose
\* product fits the word: past that the code takes it modulo the word.
TimeoutsSurvive(n) ==
    /\ \A mclks \in {n + 1, 16 * (n + 1)} :
           LET kept == DecodeTimeout(EncodeTimeout(mclks))
           IN  /\ kept <= mclks /\ (mclks - kept) * 128 < mclks
               /\ mclks <= 256 => kept = mclks
    /\ \A pclks \in {8, 10, 12, 14, 16, 18} :
           \A micros \in {8 * n, Product \div 1000 - 36 - 8 * n} :
               Near(1000 * MclksToMicros(MicrosToMclks(micros, pclks), pclks), 1000 * micros,
                    MacroPeriod(pclks) \div 2 + 500)

\* The divider is the smallest that leaves the period within its counter, and
\* the period the nearest that it can make (pwm_timing.h:78-84).
PeriodsAreNearest(total) ==
    LET t == TimingFor(total)
    IN  /\ (t.result = "ok") = (total \in MinDiv..MaxDiv * MaxCounts)
        /\ t.result = "ok" =>
               /\ t.period \in 1..MaxCounts /\ t.div \in MinDiv..MaxDiv
               /\ t.div > MinDiv => (t.div - 1) * MaxCounts < total
               /\ Near(2 * t.div * t.period, 2 * total, t.div)

\* The divider is the nearest there is, and a frame's time is never too short.
BitsAreNearest(clock) ==
    \A baudrate \in 1..12 :
        LET t == UartTiming(clock, baudrate)
        IN  /\ t.result = "ok" => Near(2 * t.divider * 8 * baudrate, 2 * clock * Fraction,
                                       8 * baudrate)
            /\ \A bytes \in 0..5 :
                   LET exact == bytes * 10 * 100
                       taken == FrameTime(baudrate, bytes, 100)
                   IN  exact <= taken * baudrate /\ taken * baudrate < exact + baudrate

\* The delay doubles up to its ceiling and never comes back round the word;
\* an attempt is due exactly when its delay has passed, wherever the counter
\* wraps (wifi_policy.c:66-71, 128-134).
BackOffHolds(n) ==
    /\ n \in 1..20 =>
           \A first \in {1, 3, 100}, ceiling \in {100, 200, Word - 1} :
               LET doubled == first * 2^(n - 1)
               IN  RetryDelay(first, ceiling, n) = IF doubled < ceiling THEN doubled ELSE ceiling
    /\ n < Word =>
           \A delay \in {0, 1, 60, Word \div 2 - 1}, passed \in 0..Word \div 2 - 1 :
               RetryDue((n + passed) % Word, (n + delay) % Word) = (passed >= delay)

\* The two published check values, and no error of one or two bits in three
\* bytes goes unnoticed.
ChecksumsNotice(n) ==
    LET digits  == <<49, 50, 51, 52, 53, 54, 55, 56, 57>>
        Number(s, low, high) == FoldLeft(LAMBDA v, i : 2 * v + (IF i \in s THEN 1 ELSE 0), 0,
                                         Reverse([i \in 1..high - low + 1 |-> low + i - 1]))
        crc32   == (0..31) \ Crc32Update(0..31, digits)
        crc16   == Crc16Update(0..15, digits)
        sample == <<18, 0, 255>>
        Flip(bytes, b) == [i \in DOMAIN bytes |->
                              IF i = 1 + b \div 8
                              THEN IF (bytes[i] \div 2^(b % 8)) % 2 = 1
                                   THEN bytes[i] - 2^(b % 8) ELSE bytes[i] + 2^(b % 8)
                              ELSE bytes[i]]
    IN  /\ n = 0 => /\ Number(crc32, 16, 31) = 52212 /\ Number(crc32, 0, 15) = 14630
                    /\ Number(crc16, 0, 15) = 10673
        /\ n < 24 => \A b \in n..23 :
               LET wrong == IF b = n THEN Flip(sample, n) ELSE Flip(Flip(sample, n), b)
               IN  /\ Crc32Update(0..31, wrong) # Crc32Update(0..31, sample)
                   /\ Crc16Update(0..15, wrong) # Crc16Update(0..15, sample)

-----------------------------------------------------------------------------
(* The registers of the CAN controller *)

\* A header comes back from its registers as it was, with eight bytes for any
\* greater length that a node sends.
HeadersSurvive(bit) ==
    \A f \in Frames(bit), length \in 0..15 :
        UnpackHeader(PackHeader([id |-> f.id, extended |-> f.extended, remote |-> f.remote,
                                 length |-> length]))
            = [id |-> f.id, extended |-> f.extended, remote |-> f.remote,
               length |-> IF length > 8 THEN 8 ELSE length]

\* However many filters there are and whatever type each bank has, the
\* controller takes exactly the frames that the filters take in software: no
\* slot or bank is left open (mcp2515_filters.h:19-25).
FiltersArePlanned(bit) ==
    \A count \in 0..FilterSlots, ext1, ext2 \in BOOLEAN,
       mask1, mask2 \in {{}, {bit}, 0..28, (0..28) \ {bit}} :
        LET ids == <<{bit}, {}, {0}, {1, bit}, 0..28, {2}>>
            filters == [i \in 1..count |->
                          [id |-> IdPack(ids[i], IF i <= 2 THEN ext1 ELSE ext2, FALSE),
                           mask |-> {ExtendedFlag} \cup (IF i <= 2 THEN mask1 ELSE mask2)]]
            plan == FilterPlan(filters)
        IN  /\ FiltersAreValid(filters)
            /\ \A f \in Frames(bit) :
                 ControllerAccepts(plan, PackId(IdPack(f.id, f.extended, f.remote)))
                   = FiltersAccept({filters[i] : i \in DOMAIN filters},
                                   IdPack(f.id, f.extended, f.remote))

\* The bit rate is the one asked for, exactly, whenever the controller can make
\* it; every segment fits its field, the second is no longer than the two
\* before it, and the sample point is about three quarters through the bit. The
\* reset wait is never too short (mcp2515_timing.c:5-20, 60-66).
BitTimesAreExact(clock) ==
    /\ \A bitrate \in {1, 2, 5} :
         LET t == BitTiming(clock, bitrate)
             s == t.segments
             before == 1 + s.prseg + s.phseg1
         IN  /\ (t.result = "ok") = (\E q \in 8..25, p \in 1..64 : clock = 2 * bitrate * q * p)
             /\ t.result = "ok" =>
                  /\ clock = 2 * bitrate * t.quanta * t.prescaler /\ t.prescaler \in 1..64
                  /\ {s.prseg, s.phseg1, s.phseg2} \subseteq 1..8
                  /\ before + s.phseg2 = t.quanta
                  /\ s.phseg2 >= 2 /\ s.prseg + s.phseg1 >= s.phseg2
                  /\ 3 * before >= 2 * t.quanta /\ 6 * before <= 5 * t.quanta
    /\ clock \in 30..3000 => ResetDelay(clock, 30) * clock >= 128 * 30

-----------------------------------------------------------------------------
(* Intel HEX *)

\* The line a linker writes for a record.
HexLine(type, offset, data) ==
    LET bytes == <<Len(data), offset \div 256, offset % 256, type>> \o data
        all   == Append(bytes, (256 - SumOf(bytes)) % 256)
    IN  [i \in 1..2 * Len(all) |-> IF i % 2 = 1 THEN all[(i + 1) \div 2] \div 16
                                   ELSE all[i \div 2] % 16]

\* A byte is placed at its base and offset, with the carry between the halves
\* of the address, until the end-of-file record and not after it; a line with
\* one character changed, two neighbours exchanged or its end missing is
\* refused and changes nothing.
HexLinesAreRead(n) ==
    LET line == HexLine(HexData, 258, <<n>>)
        Refused(text) == LET got == Feed(HexReset, text)
                         IN  got.result # "ok" /\ got.parser = HexReset
    IN  /\ \A linear \in BOOLEAN, offset \in {0, n, 65280 + n, 65535} :
             LET value == 256 * n + 255 - n
                 based == Feed(HexReset, HexLine(IF linear THEN HexLinear ELSE HexSegment, 0,
                                                 <<n, 255 - n>>)).parser
                 read  == Feed(based, HexLine(HexData, offset, <<n, 7>>))
                 sum   == 16 * value + offset
                 ended == Feed(read.parser, HexLine(HexEof, 0, <<>>))
             IN  /\ read.result = "ok" /\ read.parser = based
                 /\ read.record.data = <<n, 7>>
                 /\ read.record.address = IF linear THEN <<value, offset>>
                                          ELSE <<sum \div Half, sum % Half>>
                 /\ ended.parser.eof
                 /\ \A type \in 0..5 : Feed(ended.parser, HexLine(type, 0, <<n, 0>>)).result
                                          = "after end of file"
        /\ \A i \in DOMAIN line :
             /\ \A c \in 0..NotADigit : c # line[i] => Refused([line EXCEPT ![i] = c])
             /\ Refused(SubSeq(line, 1, i - 1))
             /\ i > 1 /\ line[i] # line[i - 1] =>
                  Refused([line EXCEPT ![i] = line[i - 1], ![i - 1] = line[i]])

-----------------------------------------------------------------------------
(* The layout of the flash *)

\* The chip is divided without a gap or an overlap into whole sectors, both
\* images have the same size, and what does not divide evenly goes to the data.
FlashIsDivided(size) ==
    \A sectors \in 0..40 :
        LET l == Layout(size, sectors)
            regions == <<l.application, l.staging, l.manifest, l.data>>
        IN  /\ (l.result = "ok") = /\ SectorAligned(size) /\ sectors >= 2
                                   /\ size \div SectorSize >= sectors + 2
            /\ l.result = "ok" =>
                 /\ l.application.offset = 0 /\ l.data.offset + l.data.size = size
                 /\ \A i \in 1..3 : regions[i + 1].offset = regions[i].offset + regions[i].size
                 /\ \A i \in 1..4 : regions[i].size > 0 /\ SectorAligned(regions[i].size)
                 /\ l.application.size = l.staging.size
                 /\ l.data.size >= (sectors - 1) * SectorSize

\* No range that reaches outside its region or into a part of a sector is
\* erased, nor programmed across a part of a page, even when its end wraps.
RangesStayInside(offset) ==
    \A size \in 0..Word - 1, start \in {0, SectorSize, PageSize, 1}, length \in {0, 2 * SectorSize} :
        LET region == Region(start, length)
            inside == length > 0 /\ offset + size <= length
            Whole(unit) == {start, offset, size} \subseteq {k * unit : k \in 0..Word \div unit}
        IN  /\ (CheckErase(region, offset, size) = "ok") = (inside /\ Whole(SectorSize))
            /\ (CheckProgram(region, offset, size) = "ok") = (inside /\ Whole(PageSize))

-----------------------------------------------------------------------------
\* Each algorithm does what its callers rely on, for every input of its range.
CodecsAgree ==
    at > 0 =>
        LET n == at - 1
        IN  /\ n < 256 => /\ PacketsSurvive(n) /\ ScalesEvenly(n) /\ LerpIsBetween(n)
                          /\ HsvKeepsValue(n)
            /\ n < 2 => DitherIsEven(n)
            /\ n < 1536 => HueIsContinuous(n) /\ AddressesSurvive(n)
            /\ n < 600 => WarmthIsMonotone(n)
            /\ n < ExtendedBits => /\ IdentifiersSurvive(n) /\ HeadersSurvive(n)
                                   /\ FiltersArePlanned(n)
            /\ n < 256 => HexLinesAreRead(n)
            /\ n < Word => FlashIsDivided(n) /\ RangesStayInside(n)
            /\ BitTimesAreExact(n)
            /\ ValuesSurvive(n) /\ PositionsSurvive(n) /\ SignsSurvive(n) /\ BaudsSurvive(n)
            /\ NumbersSurvive(n) /\ TimeoutsSurvive(n) /\ PeriodsAreNearest(n)
            /\ BitsAreNearest(n) /\ BackOffHolds(n) /\ ChecksumsNotice(n)
===============================================================================
