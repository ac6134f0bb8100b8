--------------------------------- MODULE Cli ---------------------------------
(***************************************************************************)
(* cli.c: the line editor, its history and the terminal that shows it.  A  *)
(* key is a character; what the terminal shows after the prompt is a row   *)
(* of characters and a column.  What a command does is not modelled, only  *)
(* that a line filter may claim the line (execute_line).                   *)
(***************************************************************************)
EXTENDS Integers, Sequences, SequencesExt

CONSTANTS
    Printable,     \* the characters that are typed
    RawPrefix,     \* raw_line_prefix
    LineSize,      \* line_buffer_size: one less than that fits
    EntrySize,     \* history_entry_size
    Depth          \* history_depth

ASSUME CliAssumption ==
    /\ RawPrefix \in Printable
    /\ Printable \cap {"ESC", "BS", "CR", "LF", "control"} = {}
    /\ LineSize \in Nat \ {0, 1} /\ EntrySize \in Nat \ {0, 1} /\ Depth \in Nat \ {0}

VARIABLES
    cli,           \* cli_t, as far as the editor goes
    screen         \* the row the user sees and the column of its cursor

cliVars == <<cli, screen>>

Letters == {"A", "B", "C", "D", "["}
Keys == Printable \cup Letters \cup {"ESC", "BS", "CR", "LF", "control"}
-----------------------------------------------------------------------------
(* The terminal *)

Put(s, c) ==
    IF c = "BS" THEN [s EXCEPT !.col = @ - 1]
    ELSE [row |-> IF s.col < Len(s.row) THEN [s.row EXCEPT ![s.col + 1] = c]
                  ELSE Append(s.row, c),
          col |-> s.col + 1]

Backs(n) == [i \in 1..n |-> "BS"]

\* Echo is suppressed for a raw line.
Echoed(c, output) ==
    screen' = IF c.raw THEN screen ELSE FoldLeft(Put, screen, output)

-----------------------------------------------------------------------------
(* The line *)

BeforeCursor(c) == SubSeq(c.line, 1, c.cursor)
AfterCursor(c) == SubSeq(c.line, c.cursor + 1, Len(c.line))

\* handle_backspace: the tail is written where the cursor was.
BackspaceInPlace(c) ==
    /\ cli' = [c EXCEPT !.line = SubSeq(c.line, 1, c.cursor - 1) \o AfterCursor(c), !.cursor = @ - 1]
    /\ Echoed(c, <<"BS">> \o AfterCursor(c) \o <<" ">> \o Backs(Len(AfterCursor(c))))

Backspace(c) ==
    /\ cli' = [c EXCEPT !.line = SubSeq(c.line, 1, c.cursor - 1) \o AfterCursor(c), !.cursor = @ - 1]
    /\ Echoed(c, <<"BS">> \o AfterCursor(c) \o <<" ">> \o Backs(Len(AfterCursor(c)) + 1))

HandleBackspace(c) ==
    IF c.cursor = 0 THEN cli' = c /\ UNCHANGED screen ELSE Backspace(c)

CursorLeft(c) ==
    IF c.cursor = 0 THEN cli' = c /\ UNCHANGED screen
    ELSE cli' = [c EXCEPT !.cursor = @ - 1] /\ Echoed(c, <<"BS">>)

CursorRight(c) ==
    IF c.cursor >= Len(c.line) THEN cli' = c /\ UNCHANGED screen
    ELSE cli' = [c EXCEPT !.cursor = @ + 1] /\ Echoed(c, SubSeq(c.line, c.cursor + 1, c.cursor + 1))

\* A line that is full keeps what it has and is refused at its end.
InsertChar(c, char) ==
    IF Len(c.line) + 1 >= LineSize
      THEN cli' = [c EXCEPT !.overflow = TRUE] /\ UNCHANGED screen
    ELSE /\ cli' = [c EXCEPT !.line = BeforeCursor(c) \o <<char>> \o AfterCursor(c), !.cursor = @ + 1]
         /\ Echoed(c, <<char>> \o AfterCursor(c) \o Backs(Len(AfterCursor(c))))

-----------------------------------------------------------------------------
(* The history: a ring of lines *)

HistoryPush(c) ==
    [c EXCEPT !.slots[c.head] = SubSeq(c.line, 1, Min({Len(c.line), EntrySize - 1})),
              !.head = (@ + 1) % Depth,
              !.count = Min({@ + 1, Depth})]

ReplaceLine(c, text, browsing) ==
    LET shown == SubSeq(text, 1, Min({Len(text), LineSize - 1}))
        erase == [i \in 1..3 * Len(c.line) |-> IF i % 3 = 2 THEN " " ELSE "BS"]
    IN  /\ cli' = [c EXCEPT !.line = shown, !.cursor = Len(shown), !.browsing = browsing]
        /\ Echoed(c, AfterCursor(c) \o erase \o shown)

\* history_recall: one older, or one newer and in the end a blank line.
HistoryRecall(c, direction) ==
    LET browsing == c.browsing + direction
    IN  IF c.count = 0 \/ browsing > c.count \/ browsing < 0
          THEN cli' = c /\ UNCHANGED screen
        ELSE IF browsing = 0 THEN ReplaceLine(c, <<>>, 0)
        ELSE ReplaceLine(c, c.slots[(c.head + Depth - browsing) % Depth], browsing)

-----------------------------------------------------------------------------
(* cli_feed_char *)

\* cli_reset_line, which keeps the history and whether the last was a CR.
ResetLine(c) ==
    [c EXCEPT !.line = <<>>, !.cursor = 0, !.overflow = FALSE, !.raw = FALSE,
              !.escape = "none", !.browsing = 0]

\* Filter and command may write what they want: the row starts anew.
HandleEndOfLine(c) ==
    /\ cli' = ResetLine(IF ~c.overflow /\ c.line # <<>> /\ ~c.raw THEN HistoryPush(c) ELSE c)
    /\ screen' = [row |-> <<>>, col |-> 0]

HandleEscapeLetter(c, char) ==
    CASE char = "D" -> CursorLeft(c)
      [] char = "C" -> CursorRight(c)
      [] char = "A" -> HistoryRecall(c, 1)
      [] char = "B" -> HistoryRecall(c, -1)
      [] OTHER -> cli' = c /\ UNCHANGED screen

\* The second half of a CRLF.
FeedSecondHalf(char) ==
    /\ char = "LF" /\ cli.cr
    /\ cli' = [cli EXCEPT !.cr = FALSE]
    /\ UNCHANGED screen

FeedLineEnd(char) ==
    /\ char \in {"CR", "LF"} /\ ~(char = "LF" /\ cli.cr)
    /\ HandleEndOfLine([cli EXCEPT !.cr = (char = "CR")])

FeedEscaped(char) ==
    /\ char \notin {"CR", "LF"} /\ cli.escape # "none"
    /\ IF cli.escape = "bracket"
         THEN HandleEscapeLetter([cli EXCEPT !.cr = FALSE, !.escape = "none"], char)
       ELSE /\ cli' = [cli EXCEPT !.cr = FALSE,
                                  !.escape = IF char = "[" THEN "bracket" ELSE "none"]
            /\ UNCHANGED screen

FeedControl(char) ==
    /\ cli.escape = "none" /\ char \in {"ESC", "BS", "control"}
    /\ LET c == [cli EXCEPT !.cr = FALSE]
       IN  CASE char = "ESC" -> cli' = [c EXCEPT !.escape = "esc"] /\ UNCHANGED screen
             [] char = "BS"  -> HandleBackspace(c)
             [] OTHER        -> cli' = c /\ UNCHANGED screen

FeedPrintable(char) ==
    /\ cli.escape = "none" /\ char \in Printable
    /\ InsertChar([cli EXCEPT !.cr = FALSE,
                              !.raw = @ \/ (cli.line = <<>> /\ char = RawPrefix)], char)

CliInit ==
    /\ cli = [line |-> <<>>, cursor |-> 0, overflow |-> FALSE, raw |-> FALSE,
              escape |-> "none", browsing |-> 0, cr |-> FALSE,
              slots |-> [i \in 0..Depth - 1 |-> <<>>], head |-> 0, count |-> 0]
    /\ screen = [row |-> <<>>, col |-> 0]

CliNext ==
    \E char \in Keys :
        \/ FeedSecondHalf(char) \/ FeedLineEnd(char) \/ FeedEscaped(char)
        \/ FeedControl(char) \/ FeedPrintable(char)

CliSpec == CliInit /\ [][CliNext]_cliVars
-----------------------------------------------------------------------------
(* Properties *)

\* What is on the screen is the line that Enter would run, and the cursor is
\* where the next character goes, whatever was typed, erased, moved over or
\* recalled before: to the right of the line there are only blanks (the echo of
\* handle_backspace, insert_char_at_cursor and replace_line).
ScreenShowsTheLine ==
    ~cli.raw =>
        /\ screen.col = cli.cursor
        /\ Len(screen.row) >= Len(cli.line)
        /\ \A i \in 1..Len(screen.row) :
              screen.row[i] = IF i <= Len(cli.line) THEN cli.line[i] ELSE " "
=============================================================================
