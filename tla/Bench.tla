--------------------------------- MODULE Bench ---------------------------------
(***************************************************************************)
(* The drivers and algorithms that an application of the repository picks  *)
(* from the shelf, and that share no state with each other: one of them is *)
(* on the bench, the others rest in the state their init left.             *)
(***************************************************************************)
EXTENDS ServoBus, Cli, Vl53l0x, JsonText, Strip, PioBlock, PwmSlice,
        MqttMessages, UdpSocket, BtConsole, Fade, ConfigStore, LogSink, Codecs

VARIABLE on       \* the one on the bench

benchVars == <<on, servoVars, cliVars, tofVars, jsonVars, stripVars, pioVars, pwmVars,
               messageVars, udpVars, btVars, fadeVars, storeVars, logVars, at>>

Shelf == {"servo_bus", "cli", "vl53l0x", "json", "ws2812", "pio", "pwm", "mqtt", "udp",
          "bluetooth", "light", "config", "log", "codecs"}

BenchInit ==
    /\ on \in Shelf
    /\ ServoInit /\ CliInit /\ TofInit /\ JsonInit /\ StripInit /\ PioInit /\ PwmInitially
    /\ MessageInit /\ UdpInit /\ BtInit /\ FadeInit /\ StoreInit /\ LogInit /\ CodecsInit
    \* One is enough of those that are not used.
    /\ on # "servo_bus" => family = "feetech" /\ bus.rate = DefaultRate
    /\ on # "ws2812" => strip.dma

Shelved ==
    /\ UNCHANGED on
    /\ on # "servo_bus" => UNCHANGED servoVars
    /\ on # "cli"       => UNCHANGED cliVars
    /\ on # "vl53l0x"   => UNCHANGED tofVars
    /\ on # "json"      => UNCHANGED jsonVars
    /\ on # "ws2812"    => UNCHANGED stripVars
    /\ on # "pio"       => UNCHANGED pioVars
    /\ on # "pwm"       => UNCHANGED pwmVars
    /\ on # "mqtt"      => UNCHANGED messageVars
    /\ on # "udp"       => UNCHANGED udpVars
    /\ on # "bluetooth" => UNCHANGED btVars
    /\ on # "light"     => UNCHANGED fadeVars
    /\ on # "config"    => UNCHANGED storeVars
    /\ on # "log"       => UNCHANGED logVars
    /\ on # "codecs"    => UNCHANGED at

BenchNext ==
    \/ on = "servo_bus" /\ ServoNext /\ Shelved
    \/ on = "cli" /\ CliNext /\ Shelved
    \/ on = "vl53l0x" /\ TofNext /\ Shelved
    \/ on = "json" /\ JsonNext /\ Shelved
    \/ on = "ws2812" /\ StripNext /\ Shelved
    \/ on = "pio" /\ PioNext /\ Shelved
    \/ on = "pwm" /\ PwmNext /\ Shelved
    \/ on = "mqtt" /\ MessageNext /\ Shelved
    \/ on = "udp" /\ UdpNext /\ Shelved
    \/ on = "bluetooth" /\ BtNext /\ Shelved
    \/ on = "light" /\ FadeNext /\ Shelved
    \/ on = "config" /\ StoreNext /\ Shelved
    \/ on = "log" /\ LogNext /\ Shelved
    \/ on = "codecs" /\ CodecsNext /\ Shelved

BenchSpec == BenchInit /\ [][BenchNext]_benchVars
-----------------------------------------------------------------------------
(* Properties: those that several drivers have in common.  One at rest is as *)
(* its init left it, and is looked at when it is on the bench.               *)

\* What a driver claims of the hardware it is not alone on it has, and nothing
\* is left claimed: PIO blocks and DMA channels through every refusal and undo
\* (ws2812_init, half_duplex_uart_init, can_bus_init), and a call on an output of
\* a PWM slice leaves the other channel's pin as it was (pwm_out_init,
\* pwm_out_deinit: the neighbouring GPIO).
HardwareIsShared ==
    /\ on = "pio" => NothingLeaks
    /\ on = "pwm" => OthersKeepTheirSignal

\* The light shows what was asked: a frame is handed over whole and as it was
\* when shown, a latch gap after the one before was (ws2812_show_async,
\* ws2812_is_busy), and a fade moves from where it was to what was asked last
\* and neither jumps nor turns back (ramp_tick).
LightIsShown == FramesAreWhole /\ FadesAreSmooth

\* What is received or sent in pieces or by callbacks reaches whom it is for,
\* whole, once and in order, or is counted as dropped, over every close,
\* reopening and lost session: an MQTT message (on_incoming_data), a datagram
\* (on_recv, udp_socket_open), a byte of the Bluetooth console (bt_stream.c), a
\* line of the log (memory_sink).
DeliveriesAreAccounted ==
    MessagesAreWhole /\ DatagramsAreAccounted /\ PeerHearsItsOwn /\ MemoryIsNewest

\* What was written is read back, whatever was written before and after it and
\* whatever its bytes look like: a JSON text (json_reader_t over what
\* json_writer_t wrote, cut short or whole), a configuration's records
\* (config_set, config_get).
WhatIsWrittenIsRead ==
    /\ on = "json" => JsonReadsWhatWasWritten
    /\ on = "config" => StoreReadsBack
================================================================================
