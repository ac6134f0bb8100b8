-------------------------------- MODULE Strip --------------------------------
(***************************************************************************)
(* ws2812.c: a frame on its way from the application's pixels, through the *)
(* wire buffer and the DMA channel or straight through the FIFO, to the    *)
(* line.  A picture is a number, a word says which picture its pixel is    *)
(* of.  One tick is the time a word takes on the line (30 us); the copying *)
(* of words takes none.                                                    *)
(***************************************************************************)
EXTENDS Integers, Sequences

CONSTANTS
    Length,        \* pixels of the strip
    FifoDepth,     \* words in the FIFO and in the shift register
    ResetTicks,    \* WS2812_RESET_US
    Pictures       \* what the application draws, told apart modulo this

ASSUME StripAssumption ==
    /\ Length \in Nat \ {0} /\ FifoDepth \in Nat \ {0}
    /\ ResetTicks \in Nat \ {0} /\ Pictures \in Nat \ {0}

VARIABLES
    strip,         \* ws2812_strip_t and its buffers
    feed,          \* DMA channel, FIFO, state machine and line
    show           \* a blocking show under way: how far it is

stripVars == <<strip, feed, show>>

NoDeadline == -1
Capped(n) == IF n > ResetTicks THEN ResetTicks ELSE n
-----------------------------------------------------------------------------
(* The hardware *)

\* A word enters the FIFO.
Fed(f, word) == [f EXCEPT !.fifo = Append(@, word), !.sent = Append(@, word), !.since = 0]

HasRoom == Len(feed.fifo) < FifoDepth

DmaMoves ==
    /\ feed.dma > 0 /\ HasRoom
    /\ feed' = [Fed(feed, strip.wire[Length + 1 - feed.dma]) EXCEPT !.dma = @ - 1]
    /\ UNCHANGED <<strip, show>>

\* A machine that is blocked on an empty FIFO raises its flag again and again.
MachineStalls ==
    /\ feed.fifo = <<>> /\ ~feed.stalled
    /\ feed' = [feed EXCEPT !.stalled = TRUE]
    /\ UNCHANGED <<strip, show>>

Elapsed(deadline) == IF deadline > 0 THEN deadline - 1 ELSE deadline

Tick ==
    /\ ~(feed.dma > 0 /\ HasRoom)
    /\ feed' = [feed EXCEPT !.fifo = IF @ = <<>> THEN @ ELSE Tail(@),
                            !.stalled = @ \/ feed.fifo = <<>>,
                            !.quiet = IF feed.fifo = <<>> THEN Capped(@ + 1) ELSE 0,
                            !.since = Capped(@ + 1)]
    /\ strip' = [strip EXCEPT !.latch_ready = Elapsed(@)]
    /\ show' = [show EXCEPT !.sleep = Elapsed(@)]

-----------------------------------------------------------------------------
(* ws2812_is_busy and what calls it *)

\* A stalled machine is taken for a frame that is over.
QuietOnceStalled == feed.stalled

\* The channel is done, and the machine has run dry.
Quiet == feed.dma = 0 /\ feed.stalled

\* The deadline is set by the first look at a machine that has gone quiet.
Look(s) ==
    [s EXCEPT !.latch_ready = IF Quiet /\ @ = NoDeadline THEN ResetTicks ELSE @]

Busy(s) == ~Quiet \/ Look(s).latch_ready > 0

\* ws2812_is_busy, ws2812_wait
IsBusy ==
    /\ strip.dma
    /\ strip' = Look(strip)
    /\ UNCHANGED <<feed, show>>

\* set_pixel, fill and clear, while nothing of this thread encodes them.
Draw ==
    /\ show.step = "idle"
    /\ strip' = [strip EXCEPT !.picture = (@ + 1) % Pictures]
    /\ UNCHANGED <<feed, show>>

\* What a new frame finds of the one before it.
Begun(f) ==
    [f EXCEPT !.cut = Len(f.sent) < Length, !.tight = f.since < ResetTicks, !.sent = <<>>]

ShowAsync ==
    /\ strip.dma
    /\ IF Busy(strip)
         THEN strip' = Look(strip) /\ UNCHANGED feed
       ELSE /\ strip' = [strip EXCEPT !.wire = [i \in 1..Length |-> strip.picture],
                                      !.frame = strip.picture, !.latch_ready = NoDeadline]
            /\ feed' = [Begun(feed) EXCEPT !.stalled = FALSE, !.dma = Length]
    /\ UNCHANGED show

\* ws2812_show without a wire buffer: the words are put one by one, ...
ShowBegins ==
    /\ ~strip.dma /\ show.step = "idle"
    /\ show' = [show EXCEPT !.step = "put"]
    /\ strip' = [strip EXCEPT !.frame = strip.picture]
    /\ feed' = Begun(feed)

ShowPuts ==
    /\ show.step = "put" /\ HasRoom
    /\ feed' = Fed(feed, strip.picture)
    /\ show' = [show EXCEPT !.step = IF Len(feed.sent) = Length - 1 THEN "clear" ELSE @]
    /\ UNCHANGED strip

\* ... the flag is cleared and waited for, ...
ShowClears ==
    /\ show.step = "clear"
    /\ feed' = [feed EXCEPT !.stalled = FALSE]
    /\ show' = [show EXCEPT !.step = "wait"]
    /\ UNCHANGED strip

ShowSeesStall ==
    /\ show.step = "wait" /\ feed.stalled
    /\ show' = [step |-> "sleep", sleep |-> ResetTicks]
    /\ UNCHANGED <<strip, feed>>

\* ... and the latch gap is slept through.
ShowReturns ==
    /\ show.step = "sleep" /\ show.sleep = 0
    /\ show' = [step |-> "idle", sleep |-> NoDeadline]
    /\ UNCHANGED <<strip, feed>>

StripInit ==
    /\ \E dma \in BOOLEAN :
         strip = [dma |-> dma, picture |-> 0, frame |-> 0, wire |-> [i \in 1..Length |-> 0],
                  latch_ready |-> NoDeadline]
    /\ feed = [dma |-> 0, fifo |-> <<>>, stalled |-> FALSE, quiet |-> ResetTicks,
               since |-> ResetTicks, sent |-> [i \in 1..Length |-> 0], cut |-> FALSE,
               tight |-> FALSE]
    /\ show = [step |-> "idle", sleep |-> NoDeadline]

StripNext ==
    \/ DmaMoves \/ MachineStalls \/ Tick
    \/ IsBusy \/ Draw \/ ShowAsync
    \/ ShowBegins \/ ShowPuts \/ ShowClears \/ ShowSeesStall \/ ShowReturns

StripSpec == StripInit /\ [][StripNext]_stripVars
-----------------------------------------------------------------------------
(* Properties *)

\* Every frame goes to the state machine whole and as it was when it was shown,
\* whatever is drawn meanwhile and however often is_busy is asked
\* (ws2812_show_async: the wire buffer is "copied now, not read during the
\* transfer"), and no sooner than ResetTicks after the last word of the one
\* before was handed over.  The words still in the FIFO go out in that time, so
\* the line may have been quiet for less: LatchIsWaitedFor is not part of it.
\* A blocking show without a wire buffer returns when the line has been quiet
\* for the whole gap.
FramesAreWhole ==
    /\ \A i \in 1..Len(feed.sent) : feed.sent[i] = strip.frame
    /\ ~feed.cut /\ ~feed.tight
    /\ ~strip.dma /\ show.step = "idle" => feed.quiet = ResetTicks

\* A strip that is not busy has been quiet for the latch gap (ws2812_is_busy, as
\* ws2812.h has it).  False, as MCStripLatch.cfg shows.
LatchIsWaitedFor == strip.dma /\ ~Busy(strip) => feed.quiet = ResetTicks
=============================================================================
