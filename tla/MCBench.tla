-------------------------------- MODULE MCBench --------------------------------
(***************************************************************************)
(* Values of the bench's constants.                                        *)
(***************************************************************************)
EXTENDS Bench

\* PIO instructions of each program (ws2812.pio, half_duplex_uart.pio, can2040).
MCSizes == [ws2812 |-> 4, tx |-> 8, rx |-> 9, low |-> 16, high |-> 16]

\* VCSEL periods of the two profiles, halved.
MCShort == [pre |-> 2, final |-> 3]
MCLong == [pre |-> 3, final |-> 4]

\* Texts with characters that JSON escapes.
MCCharacters == {"\"", "\\", "{", "}", "[", "]", ",", ":", "1", "true", "null", "k"}
MCKeys == {<<"k">>, <<"\"">>}
MCStrings == {<<"\"", "k">>, <<"\\">>}

\* Keys that begin alike, values that look like records.
MCStoreKeys == {<<1>>, <<2>>, <<1, 2>>}
MCStoreValues == {<<>>, <<1>>, <<1, 1>>, <<1, 0, 2>>}
================================================================================
