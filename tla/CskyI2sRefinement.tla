------------------------- MODULE CskyI2sRefinement -------------------------
(***************************************************************************)
(* CskyI2s implements CskyI2sAbstract.  The abstract rate is the rate      *)
(* hw_params stored for a configured stream; the abstract fs is the rate   *)
(* the programmed divider chain really produces from the running source    *)
(* clock; the controller plays while IIS_AUDIOEN is set.                   *)
(***************************************************************************)
EXTENDS CskyI2s

\* Frame-sync rate of the controller: source clock through DIV0 to mclk,
\* through the mclk:sclk stage and DIV2 to fs.
RealizedFs ==
    (clkRate \div (2 * (divReg[0] + 1)))
        \div (MclkSclkRatioHw * (2 * (divReg[2] + 1)))

AbsRate == IF pcm \in Configured THEN sampleRate ELSE 0
AbsFs == IF pcm \in Configured THEN RealizedFs ELSE 0

Abs == INSTANCE CskyI2sAbstract WITH rate <- AbsRate, fs <- AbsFs,
                                     playing <- audioEn

\* The driver keeps the promise of the DAI: every callback is a step of
\* CskyI2sAbstract or leaves its state alone, so a configured stream plays
\* at exactly the rate hw_params accepted, set_fmt and set_sysclk never
\* change it, and only a configured stream is started.
AbsSpec == Abs!Spec
=============================================================================
