------------------------------- MODULE WifiLink -------------------------------
(***************************************************************************)
(* One wifi_t (components/wifi: wifi.c with the retry budget of            *)
(* wifi_policy.c) and the radio under it.  wifi_poll reads the link's      *)
(* status once and acts on it; the radio goes its own way between polls,   *)
(* and joins late an attempt the component has already given up.           *)
(*                                                                         *)
(* Time is abstracted: a back-off may be over at any poll, and an attempt  *)
(* has timed out when the radio is slow, or may have when its link went    *)
(* down again.                                                             *)
(***************************************************************************)
EXTENDS Integers

CONSTANTS
    MaxAttempts,    \* retry.max_attempts; 0 never gives up
    AttemptsBound   \* bounds the count of failures, which the code never stops

ASSUME AttemptsAssumption ==
    MaxAttempts \in Nat /\ AttemptsBound \in Nat /\ AttemptsBound >= MaxAttempts

VARIABLES
    wifi,      \* [state, attempts] of the wifi_t
    link       \* cyw43_tcpip_link_status: "down", "up", "bad", or "joining", which
               \* is "slow" when the time of the attempt is over

WifiStates == {"idle", "connecting", "connected", "waiting", "gave_up"}

WifiTypeOK == /\ wifi \in [state : WifiStates, attempts : 0..AttemptsBound]
              /\ link \in {"down", "joining", "slow", "up", "bad"}

\* wifi_init.
WifiInit == wifi = [state |-> "idle", attempts |-> 0] /\ link = "down"

-----------------------------------------------------------------------------
(* wifi_policy.c.  The count goes on rising when nobody gives up; here it    *)
(* stays at AttemptsBound, past which nothing reads it but the delay.         *)

RetryExhausted(attempts) == MaxAttempts # 0 /\ attempts >= MaxAttempts

RetryFail(attempts) == IF attempts < AttemptsBound THEN attempts + 1 ELSE AttemptsBound

\* handle_failure, here and in mqtt.c.
AfterFailure(w) ==
    IF RetryExhausted(w.attempts) THEN [w EXCEPT !.state = "gave_up"]
    ELSE [w EXCEPT !.state = "waiting", !.attempts = RetryFail(@)]

-----------------------------------------------------------------------------
(* wifi.c *)

\* begin_attempt of w: the radio takes it up, or will not start.
WifiAttempt(w, refused) ==
    \/ wifi' = [w EXCEPT !.state = "connecting"] /\ link' = "joining"
    \/ wifi' = refused /\ UNCHANGED link

\* wifi_connect; credentials and arguments are in order.  A radio that will not
\* start is reported to the caller and changes no state.
WifiConnectCall ==
    LET fresh == [wifi EXCEPT !.attempts = 0] IN WifiAttempt(fresh, fresh)

WifiConnectAccepted == wifi'.state = "connecting" /\ link' = "joining"

WifiDisconnectCall == /\ wifi' = [state |-> "idle", attempts |-> 0]
                      /\ link' = "down"

\* wifi_poll while an attempt runs.  A link that never came up says "down"
\* (an attempt only ends in the other three).
TimedOut == link \in {"slow", "down"}

WifiPollConnecting(late) ==
    /\ wifi.state = "connecting"
    /\ wifi' = IF link = "up" THEN [state |-> "connected", attempts |-> 0]
               ELSE IF link = "bad" \/ late THEN AfterFailure(wifi)
               ELSE wifi
    /\ UNCHANGED link

\* A lost link that is only noticed when the radio reports a failure.
WifiPollConnectedIgnoresDown ==
    /\ wifi.state = "connected"
    /\ wifi' = IF link = "bad" THEN AfterFailure(wifi) ELSE wifi
    /\ UNCHANGED link

WifiPollConnected ==
    /\ wifi.state = "connected"
    /\ wifi' = IF link # "up" THEN AfterFailure(wifi) ELSE wifi
    /\ UNCHANGED link

WifiPollWaiting(due) ==
    /\ wifi.state = "waiting"
    /\ IF due THEN WifiAttempt(wifi, AfterFailure(wifi)) ELSE UNCHANGED <<wifi, link>>

WifiPollIdle == wifi.state \in {"idle", "gave_up"} /\ UNCHANGED <<wifi, link>>

-----------------------------------------------------------------------------
(* The radio. *)

RadioStalls == link = "joining" /\ link' = "slow" /\ UNCHANGED wifi
RadioJoins == link \in {"joining", "slow"} /\ link' = "up" /\ UNCHANGED wifi
RadioFails == link \in {"joining", "slow"} /\ link' = "bad" /\ UNCHANGED wifi
RadioDrops == link = "up" /\ link' = "down" /\ UNCHANGED wifi
=============================================================================
