---------------------------- MODULE MC_CskyI2s ----------------------------
(* Model-checking instance of CskyI2s: audio-PLL rates of the boards,      *)
(* mclk values of common codecs and the rates of both families.           *)
EXTENDS CskyI2sRefinement

MCRates == {32000, 44100, 48000}
MCMclkFreqs == {11289600, 12288000, 24576000}
MCBootSrcClks == {24576000, 49152000}
=============================================================================
