------------------------------ MODULE MCHomeLed ------------------------------
(***************************************************************************)
(* Instances of HomeLed for TLC.                                           *)
(***************************************************************************)
EXTENDS HomeLed

\* Turned up and on; the strip without its first LED.
MCLight == {[brightness |-> 2, power |-> TRUE]}
MCRange == {[end |-> "first", value |-> 2]}
=============================================================================
