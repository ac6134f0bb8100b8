------------------------------- MODULE LogSink -------------------------------
(***************************************************************************)
(* log.c: lines of text for every sink that their level reaches, one of    *)
(* which keeps the newest of them in memory.  A byte is the pair of its    *)
(* line and its place in it, the two of CRLF being at place 0.             *)
(***************************************************************************)
EXTENDS Integers, Sequences, SequencesExt

CONSTANTS
    Levels,           \* a set of numbers, the higher the more severe
    LevelNone,        \* LOG_LEVEL_NONE, a threshold and not a level of a line
    MaxSinks,         \* LOG_MAX_SINKS
    LineLength,       \* LOG_LINE_LENGTH, with room for the terminator
    MemoryRoom,       \* what the memory sink's ring holds
    LineSizes,        \* of a prefix and a message together
    MaxLines          \* bound on the lines written

ASSUME LogAssumption ==
    /\ Levels \subseteq Nat /\ Levels # {} /\ LevelNone \in Nat /\ LineSizes \subseteq Nat
    /\ MaxSinks \in Nat /\ MaxLines \in Nat
    /\ LineLength \in Nat \ {0} /\ MemoryRoom \in Nat
    /\ MemoryRoom >= LineLength          \* as in every use of the sink

VARIABLES
    log,           \* g_log: started, sinks (their kind and level), level, memory, ready
    lines,         \* lines written so far
    due            \* ghost: the newest bytes that are due in memory

logVars == <<log, lines, due>>

Newest(bytes) ==
    SubSeq(bytes, IF Len(bytes) > MemoryRoom THEN Len(bytes) - MemoryRoom + 1 ELSE 1, Len(bytes))

\* log_vwrite: the text cut to the buffer, and CRLF when two bytes and the
\* terminator are left for it.
LineOf(size) ==
    LET most == LineLength - 1
        kept == IF size < most THEN size ELSE most
    IN  [k \in 1..kept |-> <<lines, k>>]
          \o IF kept + 2 < LineLength THEN <<<<lines, 0>>, <<lines, 0>>>> ELSE <<>>

\* One byte is dropped to make room, however many are needed.
KeptDropsOne(memory, line) ==
    LET left == IF MemoryRoom - Len(memory) < Len(line) /\ memory # <<>> THEN Tail(memory)
                ELSE memory
        room == MemoryRoom - Len(left)
    IN  left \o SubSeq(line, 1, IF room < Len(line) THEN room ELSE Len(line))

\* memory_sink: the oldest bytes are dropped until the line fits, then as much
\* of it as fits is written.
Kept(memory, line) ==
    LET need == Len(line) - (MemoryRoom - Len(memory))
        drop == IF need < 0 THEN 0 ELSE IF need > Len(memory) THEN Len(memory) ELSE need
        left == SubSeq(memory, drop + 1, Len(memory))
        room == MemoryRoom - Len(left)
    IN  left \o SubSeq(line, 1, IF room < Len(line) THEN room ELSE Len(line))

\* What one memory sink does of a line, and what is due.
Taken(both, line) ==
    [memory |-> Kept(both.memory, line), due |-> Newest(both.due \o line)]

\* log_vwrite's loop: a sink gets what its level reaches, and one that was
\* added twice gets it twice.
Given(both, sink, level, line) ==
    IF sink.kind = "memory" /\ level >= sink.min THEN Taken(both, line) ELSE both

-----------------------------------------------------------------------------
LogClosed == [started |-> FALSE, sinks |-> <<>>, level |-> 0, memory |-> <<>>, ready |-> FALSE]

LogInit ==
    /\ log = LogClosed
    /\ lines = 0 /\ due = <<>>

\* log_init forgets the sinks and the memory.
LogStart(level) ==
    /\ log' = [LogClosed EXCEPT !.started = TRUE, !.level = level]
    /\ due' = <<>> /\ UNCHANGED lines

LogSetLevel(level) ==
    /\ log' = [log EXCEPT !.level = level]
    /\ UNCHANGED <<lines, due>>

WithSink(l, kind, min) ==
    IF ~l.started \/ Len(l.sinks) >= MaxSinks THEN l
    ELSE [l EXCEPT !.sinks = Append(@, [kind |-> kind, min |-> min]),
                   !.ready = @ \/ kind = "memory"]

\* log_add_sink, log_add_stdio_sink
AddSink(min) ==
    /\ log' = WithSink(log, "stdio", min)
    /\ UNCHANGED <<lines, due>>

\* log_add_memory_sink: the ring begins empty, whether or not a place for the
\* sink is left.
AddMemorySink(min) ==
    /\ log' = WithSink([log EXCEPT !.memory = <<>>], "memory", min)
    /\ due' = <<>> /\ UNCHANGED lines

\* log_write, log_vwrite (log_level_enabled)
LogWrite(level, size) ==
    /\ lines < MaxLines
    /\ log.started /\ level >= log.level /\ level < LevelNone
    /\ lines' = lines + 1
    /\ LET given == FoldLeft(LAMBDA both, sink : Given(both, sink, level, LineOf(size)),
                             [memory |-> log.memory, due |-> due], log.sinks)
       IN  log' = [log EXCEPT !.memory = given.memory] /\ due' = given.due

\* log_read_memory
ReadMemory(capacity) ==
    LET n == IF capacity < Len(log.memory) THEN capacity ELSE Len(log.memory)
    IN  /\ log.ready /\ n > 0
        /\ log' = [log EXCEPT !.memory = SubSeq(@, n + 1, Len(@))]
        /\ due' = SubSeq(due, n + 1, Len(due)) /\ UNCHANGED lines

\* log_clear_memory
ClearMemory ==
    /\ log.ready
    /\ log' = [log EXCEPT !.memory = <<>>]
    /\ due' = <<>> /\ UNCHANGED lines

LogNext ==
    \/ \E level \in Levels : LogStart(level) \/ LogSetLevel(level)
    \/ \E min \in Levels : AddSink(min) \/ AddMemorySink(min)
    \/ \E level \in Levels, size \in LineSizes : LogWrite(level, size)
    \/ \E capacity \in 1..LineLength : ReadMemory(capacity)
    \/ ClearMemory

LogSpec == LogInit /\ [][LogNext]_logVars
-----------------------------------------------------------------------------
\* Whatever was written, cut, read and cleared before, the memory holds the
\* newest bytes and no others, in order: a full memory loses the oldest ones
\* and no more of them than the new line needs (memory_sink).
MemoryIsNewest == log.memory = due
==============================================================================
