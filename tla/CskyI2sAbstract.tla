--------------------------- MODULE CskyI2sAbstract ---------------------------
(***************************************************************************)
(* What the C-SKY I2S DAI promises the ALSA core for its playback stream,  *)
(* without clocks or registers: hw_params either configures the stream at *)
(* the requested rate, and the controller then produces frames at exactly  *)
(* that rate, or leaves it unconfigured; only a configured stream plays.   *)
(*                                                                         *)
(*   rate     the rate the stream is configured at, 0 when unconfigured    *)
(*   fs       the frame-sync rate the controller produces for it           *)
(*   playing  the controller is transmitting                               *)
(***************************************************************************)
EXTENDS Naturals

CONSTANT Rates

VARIABLES rate, fs, playing

absVars == <<rate, fs, playing>>

Init ==
    /\ rate = 0
    /\ fs = 0
    /\ playing = FALSE

\* hw_params succeeds for r: the stream is configured and the hardware
\* runs at r.
Configure(r) ==
    /\ ~playing
    /\ rate' = r
    /\ fs' = r
    /\ UNCHANGED playing

\* hw_params fails, or hw_free: the stream is left unconfigured.
Unconfigure ==
    /\ ~playing
    /\ rate' = 0
    /\ fs' = 0
    /\ UNCHANGED playing

Start ==
    /\ rate # 0
    /\ ~playing
    /\ playing' = TRUE
    /\ UNCHANGED <<rate, fs>>

Stop ==
    /\ playing
    /\ playing' = FALSE
    /\ UNCHANGED <<rate, fs>>

Next ==
    \/ \E r \in Rates : Configure(r)
    \/ Unconfigure
    \/ Start
    \/ Stop

Spec == Init /\ [][Next]_absVars
=============================================================================
