------------------------------ MODULE JsonText ------------------------------
(***************************************************************************)
(* json.c: the writer, call by call, into a buffer that may be too small,  *)
(* and the reader on what it wrote.  A text is a sequence of characters;   *)
(* keys and strings are sequences of them, numbers runs of digits, and a   *)
(* literal is one character.  White space and \u escapes are left out.     *)
(* Callers use the writer as its header says: one root, a key for each     *)
(* member of an object and for nothing else, and the close that belongs to *)
(* the open.                                                               *)
(***************************************************************************)
EXTENDS Integers, Sequences, SequencesExt

CONSTANTS
    Characters,    \* what a text is made of
    JsonKeys,      \* keys: sequences of characters
    JsonStrings,   \* string values
    MaxJsonDepth,  \* JSON_MAX_DEPTH
    BufferSize,    \* of the writer, a byte of it for the terminator
    MaxWrites      \* values and containers a caller writes, at most

Quote == "\""
Slash == "\\"
Opening == {"{", "["}
Closing(open) == IF open = "{" THEN "}" ELSE "]"
Literals == {"true", "null"}
NoKey == <<"none">>

\* "end" stands for what is not there.
ASSUME JsonAssumption ==
    /\ MaxJsonDepth \in Nat \ {0} /\ BufferSize \in Nat \ {0} /\ MaxWrites \in Nat
    /\ {Quote, Slash, "}", "]", ",", ":", "1"} \cup Opening \cup Literals \subseteq Characters
    /\ "end" \notin Characters
    /\ JsonKeys \subseteq Seq(Characters) \ {NoKey} /\ JsonStrings \subseteq Seq(Characters)

VARIABLES
    writer,        \* json_writer_t
    stack,         \* the containers that are open, the innermost last
    members,       \* what the root holds: one record for each member
    writes         \* values and containers written

jsonVars == <<writer, stack, members, writes>>

-----------------------------------------------------------------------------
(* The writer *)

\* put, for one character after the other.
PutAll(w, text) ==
    LET room == BufferSize - 1 - Len(w.text)
    IN  IF w.overflowed THEN w
        ELSE IF Len(text) <= room THEN [w EXCEPT !.text = @ \o text]
        ELSE [w EXCEPT !.text = @ \o SubSeq(text, 1, room), !.overflowed = TRUE]

\* put_escaped
Escaped(text) ==
    FlattenSeq([i \in 1..Len(text) |->
                  IF text[i] \in {Quote, Slash} THEN <<Slash, text[i]>> ELSE <<text[i]>>])

Quoted(text) == <<Quote>> \o Escaped(text) \o <<Quote>>

\* put_separator
Separated(w, key) ==
    LET comma == PutAll(w, IF w.needs_comma THEN <<",">> ELSE <<>>)
    IN  [PutAll(comma, IF key = NoKey THEN <<>> ELSE Quoted(key) \o <<":">>)
           EXCEPT !.needs_comma = TRUE]

OpenContainer(w, key, open) ==
    IF w.depth >= MaxJsonDepth THEN [w EXCEPT !.malformed = TRUE]
    ELSE [PutAll(Separated(w, key), <<open>>) EXCEPT !.depth = @ + 1, !.needs_comma = FALSE]

CloseContainer(w, open) ==
    IF w.depth = 0 THEN [w EXCEPT !.malformed = TRUE]
    ELSE [PutAll(w, <<Closing(open)>>) EXCEPT !.depth = @ - 1, !.needs_comma = TRUE]

\* json_writer_finish, but for its terminator.
Finished(w) == ~w.overflowed /\ ~w.malformed /\ w.depth = 0

-----------------------------------------------------------------------------
(* The reader: a position after what was read, or 0 for what is malformed *)

At(text, p) == IF p \in 1..Len(text) THEN text[p] ELSE "end"

SkipBody(text, p) ==
    LET past[q \in Nat] ==
            CASE At(text, q) = "end" -> 0
              [] At(text, q) = Slash -> past[q + 2]
              [] At(text, q) = Quote -> q + 1
              [] OTHER -> past[q + 1]
    IN  past[p]

SkipString(text, p) == IF At(text, p) = Quote THEN SkipBody(text, p + 1) ELSE 0

SkipNumber(text, p) ==
    LET past[q \in Nat] == IF At(text, q) = "1" THEN past[q + 1] ELSE q
    IN  IF At(text, p) = "1" THEN past[p] ELSE 0

SkipLiteral(text, p) == IF At(text, p) \in Literals THEN p + 1 ELSE 0

\* What begins at p: a value, or the members of a container from the one at p on.
Whats == {"value"} \cup Opening

Skip(text, what, p, depth) ==
    LET past[x \in Whats \X Nat \X Nat] ==
            LET w == x[1]
                q == x[2]
                d == x[3]
            IN  IF w = "value" THEN
                  CASE At(text, q) = Quote      -> SkipString(text, q)
                    [] At(text, q) \in Literals -> SkipLiteral(text, q)
                    [] At(text, q) \in Opening  ->
                         IF d >= MaxJsonDepth THEN 0
                         ELSE IF At(text, q + 1) = Closing(text[q]) THEN q + 2
                         ELSE past[<<text[q], q + 1, d>>]
                    [] OTHER                    -> SkipNumber(text, q)
                ELSE
                  LET name  == IF w = "{" THEN SkipString(text, q) ELSE q
                      value == IF w = "[" THEN q
                               ELSE IF name # 0 /\ At(text, name) = ":" THEN name + 1 ELSE 0
                      end   == IF value = 0 THEN 0 ELSE past[<<"value", value, d + 1>>]
                  IN  IF end = 0 THEN 0
                      ELSE IF At(text, end) = Closing(w) THEN end + 1
                      ELSE IF At(text, end) = "," THEN past[<<w, end + 1, d>>]
                      ELSE 0
    IN  past[<<what, p, depth>>]

SkipValue(text, p, depth) == Skip(text, "value", p, depth)

TypeOf(char) ==
    CASE char = Quote -> "string" [] char = "{" -> "object" [] char = "[" -> "array"
      [] char \in Literals -> char [] OTHER -> "number"

Value(text, p, past) == [type |-> TypeOf(text[p]), text |-> SubSeq(text, p, past - 1)]
NoValue == [type |-> "invalid", text |-> <<>>]

\* unescape
Unescaped(body) ==
    LET from[i \in Nat] ==
            IF i > Len(body) THEN <<>>
            ELSE IF body[i] = Slash THEN <<body[i + 1]>> \o from[i + 2]
            ELSE <<body[i]>> \o from[i + 1]
    IN  from[1]

\* json_get_string
StringOf(value) == Unescaped(SubSeq(value.text, 2, Len(value.text) - 1))

\* json_find_n: one member after the other until the key is found.
FindFrom(text, p, key) ==
    LET found[q \in Nat] ==
            LET name == SkipString(text, q)
                past == SkipValue(text, name + 1, 1)
            IN  IF name = 0 \/ At(text, name) # ":" \/ past = 0 THEN NoValue
                ELSE IF Unescaped(SubSeq(text, q + 1, name - 2)) = key
                  THEN Value(text, name + 1, past)
                ELSE IF At(text, past) # "," THEN NoValue
                ELSE found[past + 1]
    IN  found[p]

\* Whatever comes before the end is believed.
FindUnchecked(text, key) ==
    IF At(text, 1) # "{" THEN NoValue ELSE FindFrom(text, 2, key)

Find(text, key) ==
    IF At(text, 1) # "{" \/ SkipValue(text, 1, 0) = 0 \/ At(text, 2) = "}" THEN NoValue
    ELSE FindFrom(text, 2, key)

\* json_array_length
ElementsFrom(text, p) ==
    LET count[q \in Nat] ==
            LET past == SkipValue(text, q, 1)
            IN  IF past = 0 THEN 0
                ELSE IF At(text, past) # "," THEN 1 ELSE 1 + count[past + 1]
    IN  count[p]

ArrayLength(value) ==
    IF value.type # "array" \/ At(value.text, 2) = "]" THEN 0 ELSE ElementsFrom(value.text, 2)

\* json_array_at, from the first element on.
ElementAt(text, p, index) ==
    LET element[x \in Nat \X Int] ==
            LET past == SkipValue(text, x[1], 1)
            IN  IF past = 0 THEN NoValue
                ELSE IF x[2] = 1 THEN Value(text, x[1], past)
                ELSE IF At(text, past) # "," THEN NoValue
                ELSE element[<<past + 1, x[2] - 1>>]
    IN  element[<<p, index>>]

\* json_valid_n
Valid(text) == SkipValue(text, 1, 0) = Len(text) + 1

-----------------------------------------------------------------------------
(* Calls of the writer *)

KeysHere == IF stack # <<>> /\ stack[Len(stack)] = "{" THEN JsonKeys ELSE {NoKey}

Writing == writes < MaxWrites /\ writes' = writes + 1

\* What the root is given is remembered, and the types of what is in it.
Remembered(key, type, text) ==
    CASE Len(stack) = 1 -> Append(members, [key |-> key, type |-> type, text |-> text,
                                            items |-> <<>>])
      [] Len(stack) = 2 -> [members EXCEPT ![Len(members)].items = Append(@, type)]
      [] OTHER -> members

Open ==
    \E key \in KeysHere, open \in Opening :
        /\ Writing /\ (stack = <<>> => writes = 0)
        /\ writer' = OpenContainer(writer, key, open)
        /\ stack' = Append(stack, open)
        /\ members' = Remembered(key, IF open = "{" THEN "object" ELSE "array", <<>>)

Close ==
    /\ stack # <<>>
    /\ writer' = CloseContainer(writer, stack[Len(stack)])
    /\ stack' = SubSeq(stack, 1, Len(stack) - 1)
    /\ UNCHANGED <<members, writes>>

WriteInt ==
    \E key \in KeysHere :
        /\ Writing /\ stack # <<>>
        /\ writer' = PutAll(Separated(writer, key), <<"1">>)
        /\ members' = Remembered(key, "number", <<>>)
        /\ UNCHANGED stack

WriteLiteral ==
    \E key \in KeysHere, literal \in Literals :
        /\ Writing /\ stack # <<>>
        /\ writer' = PutAll(Separated(writer, key), <<literal>>)
        /\ members' = Remembered(key, literal, <<>>)
        /\ UNCHANGED stack

WriteString ==
    \E key \in KeysHere, text \in JsonStrings :
        /\ Writing /\ stack # <<>>
        /\ writer' = PutAll(Separated(writer, key), Quoted(text))
        /\ members' = Remembered(key, "string", text)
        /\ UNCHANGED stack

JsonInit ==
    /\ writer = [text |-> <<>>, depth |-> 0, needs_comma |-> FALSE, overflowed |-> FALSE,
                 malformed |-> FALSE]
    /\ stack = <<>> /\ members = <<>> /\ writes = 0

JsonNext == Open \/ Close \/ WriteInt \/ WriteLiteral \/ WriteString

JsonSpec == JsonInit /\ [][JsonNext]_jsonVars
-----------------------------------------------------------------------------
(* Properties *)

Document == writer.text
Complete == writes > 0 /\ stack = <<>> /\ Finished(writer)

First(key) == CHOOSE i \in 1..Len(members) :
                 members[i].key = key /\ \A j \in 1..i - 1 : members[j].key # key

SameAs(value, member) ==
    /\ value.type = member.type
    /\ member.type = "string" => StringOf(value) = member.text
    /\ member.type = "array" =>
          /\ ArrayLength(value) = Len(member.items)
          /\ \A i \in 1..Len(member.items) :
                ElementAt(value.text, 2, i).type = member.items[i]

\* A document that json_writer_finish approves is valid, and json_find gives for
\* each key what was written under it at the root and for no other key, be it
\* inside a string, in a nested object or after an escape; cut anywhere, the
\* document yields nothing at all (json_find_n: "Check the object closes before
\* believing anything inside it").
JsonReadsWhatWasWritten ==
    Complete =>
        /\ Valid(Document)
        /\ \A key \in JsonKeys :
             /\ IF key \in {members[i].key : i \in 1..Len(members)}
                  THEN SameAs(Find(Document, key), members[First(key)])
                ELSE Find(Document, key) = NoValue
             /\ \A n \in 0..Len(Document) - 1 :
                  Find(SubSeq(Document, 1, n), key) = NoValue
=============================================================================
