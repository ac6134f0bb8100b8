------------------------------ MODULE PioBlock ------------------------------
(***************************************************************************)
(* What the drivers take of one PIO block and of the DMA channels, and     *)
(* give back: ws2812.c, half_duplex_uart.c and can.c.  A driver is         *)
(* initialised only when it is not, and a program fits when there are      *)
(* words enough for it.                                                    *)
(***************************************************************************)
EXTENDS Integers, FiniteSets

CONSTANTS
    Strips, Uarts, Cans,   \* the drivers, one handle each
    StateMachines,         \* of the block (NUM_PIO_STATE_MACHINES)
    Words,                 \* instructions of the block (PIO_INSTRUCTION_COUNT)
    SizeOf,                \* and of each program
    DmaChannels            \* on the chip

Programs == {"ws2812", "tx", "rx", "low", "high"}

ASSUME PioAssumption ==
    /\ IsFiniteSet(Strips) /\ IsFiniteSet(Uarts) /\ IsFiniteSet(Cans)
    /\ Strips \cap Uarts = {} /\ Strips \cap Cans = {} /\ Uarts \cap Cans = {}
    /\ StateMachines \in Nat \ {0} /\ Words \in Nat /\ DmaChannels \in Nat
    /\ SizeOf \in [Programs -> Nat] /\ SizeOf["low"] + SizeOf["high"] = Words

VARIABLES
    block,         \* the PIO block, the DMA channels, and g_program
    driver         \* of each handle: whether it is initialised, and its channel

pioVars == <<block, driver>>
-----------------------------------------------------------------------------
Used(b) ==
    SizeOf["ws2812"] * b.copies["ws2812"] + SizeOf["tx"] * b.copies["tx"]
      + SizeOf["rx"] * b.copies["rx"] + SizeOf["low"] * b.copies["low"]
      + SizeOf["high"] * b.copies["high"]

Fits(b, program) == Used(b) + SizeOf[program] <= Words
Loaded(b, program) == [b EXCEPT !.copies[program] = @ + 1]
Removed(b, program) == [b EXCEPT !.copies[program] = @ - 1]
Claimed(b, machines) == [b EXCEPT !.machines = @ + machines]
FreeMachines(b) == StateMachines - b.machines

\* program_acquire: the first strip loads the program, the others count.
Acquired(b) ==
    [IF b.users = 0 THEN Loaded(b, "ws2812") ELSE b EXCEPT !.users = @ + 1]

CanAcquire(b) == b.users > 0 \/ Fits(b, "ws2812")

\* program_release, when only the count is kept.
ReleasedCount(b) == [b EXCEPT !.users = @ - 1]

\* program_release: the last one takes the program with it.
Released(b) ==
    LET fewer == [b EXCEPT !.users = @ - 1]
    IN  IF fewer.users = 0 THEN Removed(fewer, "ws2812") ELSE fewer

Takes(d, b, dma) ==
    /\ block' = b
    /\ driver' = [driver EXCEPT ![d] = [on |-> TRUE, dma |-> dma]]

Refuses(b) == block' = b /\ UNCHANGED driver

\* ws2812_init, with a wire buffer or without.
StripTakes(d) ==
    /\ ~driver[d].on
    /\ \E dma \in BOOLEAN :
         LET acquired == Acquired(block)
             claimed  == Claimed(acquired, 1)
         IN  IF ~CanAcquire(block) THEN Refuses(block)
             ELSE IF FreeMachines(acquired) < 1 THEN Refuses(Released(acquired))
             ELSE IF dma /\ claimed.channels = DmaChannels
               THEN Refuses(Released(Claimed(claimed, -1)))
             ELSE Takes(d, IF dma THEN [claimed EXCEPT !.channels = @ + 1] ELSE claimed, dma)

\* ws2812_deinit
StripGives(d) ==
    /\ driver[d].on
    /\ block' = Released([Claimed(block, -1) EXCEPT
                            !.channels = IF driver[d].dma THEN @ - 1 ELSE @])
    /\ driver' = [driver EXCEPT ![d] = [on |-> FALSE, dma |-> FALSE]]

\* half_duplex_uart_init: two programs of its own, then two state machines.
UartTakes(d) ==
    /\ ~driver[d].on
    /\ LET tx   == Loaded(block, "tx")
           both == Loaded(tx, "rx")
           free == IF FreeMachines(both) > 2 THEN 2 ELSE FreeMachines(both)
       IN  IF ~Fits(block, "tx") THEN Refuses(block)
           ELSE IF ~Fits(tx, "rx") THEN Refuses(Removed(tx, "tx"))
           ELSE IF free < 2
             THEN Refuses(Removed(Removed(Claimed(Claimed(both, free), -free), "rx"), "tx"))
           ELSE Takes(d, Claimed(both, 2), FALSE)

UartGives(d) ==
    /\ driver[d].on
    /\ block' = Removed(Removed(Claimed(block, -2), "rx"), "tx")
    /\ driver' = [driver EXCEPT ![d] = [on |-> FALSE, dma |-> FALSE]]

\* can_bus_init: the whole block, which nobody may have a part of.
CanTakes(d) ==
    /\ ~driver[d].on
    /\ IF block.machines > 0 \/ Used(block) > 0 THEN Refuses(block)
       ELSE Takes(d, Loaded(Loaded(Claimed(block, StateMachines), "low"), "high"), FALSE)

\* can_bus_deinit
CanGives(d) ==
    /\ driver[d].on
    /\ block' = Claimed(Removed(Removed(block, "high"), "low"), -StateMachines)
    /\ driver' = [driver EXCEPT ![d] = [on |-> FALSE, dma |-> FALSE]]

-----------------------------------------------------------------------------

PioInit ==
    /\ block = [machines |-> 0, copies |-> [p \in Programs |-> 0], users |-> 0, channels |-> 0]
    /\ driver = [d \in Strips \cup Uarts \cup Cans |-> [on |-> FALSE, dma |-> FALSE]]

PioNext ==
    \/ \E d \in Strips : StripTakes(d) \/ StripGives(d)
    \/ \E d \in Uarts : UartTakes(d) \/ UartGives(d)
    \/ \E d \in Cans : CanTakes(d) \/ CanGives(d)

PioSpec == PioInit /\ [][PioNext]_pioVars
-----------------------------------------------------------------------------
(* Properties *)

On(drivers) == Cardinality({d \in drivers : driver[d].on})

\* However initialisations succeed, are refused half-way and are undone, what
\* is claimed of the PIO block and of the DMA channels is what the initialised
\* drivers have, one copy of the program for all strips, and a CAN bus has its
\* block alone (ws2812_init, half_duplex_uart_init, can_bus_init).
NothingLeaks ==
    /\ block.users = On(Strips)
    /\ block.machines = On(Strips) + 2 * On(Uarts) + StateMachines * On(Cans)
    /\ block.machines <= StateMachines /\ Used(block) <= Words
    /\ block.channels = Cardinality({d \in Strips : driver[d].dma})
    /\ block.channels <= DmaChannels
    /\ block.copies["ws2812"] = IF On(Strips) > 0 THEN 1 ELSE 0
    /\ \A p \in {"tx", "rx"} : block.copies[p] = On(Uarts)
    /\ \A p \in {"low", "high"} : block.copies[p] = On(Cans)
    /\ On(Cans) > 0 => On(Strips) + On(Uarts) = 0
=============================================================================
