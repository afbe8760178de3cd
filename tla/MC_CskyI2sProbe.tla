-------------------------- MODULE MC_CskyI2sProbe --------------------------
(* Model-checking instance of CskyI2sProbe: every call of probe may fail,  *)
(* both clock set-ups, PIO and DMA, and an IMR left unmasked or not.       *)
EXTENDS CskyI2sProbeRefinement

MCAllFail == FailPoints
MCNoGateEnableFail == FailPoints \ {"clk_enable_gate"}
=============================================================================
