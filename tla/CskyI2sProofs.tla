---------------------------- MODULE CskyI2sProofs ----------------------------
(***************************************************************************)
(* Proofs about CskyI2s for every value of the constants.                  *)
(***************************************************************************)
EXTENDS CskyI2s, TLAPS

LEMMA ClkOutcomesBoolean == ClkOutcomes \subseteq BOOLEAN
BY DEF ClkOutcomes

\* An mclk accepted by the ratio check of csky_i2s_calc_mclk_div, with sclk
\* fixed at 64 fs, is a positive multiple of the rate.
LEMMA RatioAcceptedPositive ==
    ASSUME NEW m \in Nat, NEW r \in Nat \ {0}, NEW h \in BOOLEAN, NEW fmt,
           MclkRatioAccepted(m, r, h, fmt, SclkFsMulti)
    PROVE  /\ m \div r \in {256, 384, 512, 768}
           /\ m > 0
<1>1. m \div r \in {256, 384, 512, 768}
  BY DEF MclkRatioAccepted, MclkFsRatioOk, V11MclkFsRatios, V1MclkSclkRatio,
         SclkFsMulti
<1>2. m # 0
  <2> SUFFICES ASSUME m = 0 PROVE FALSE
    OBVIOUS
  <2>1. m \div r = 0
    OBVIOUS
  <2> QED BY <2>1, <1>1
<1> QED BY <1>1, <1>2

\* What csky_i2s_calc_mclk_div guarantees when it returns a divider.
LEMMA MclkDivSound ==
    ASSUME NEW m \in Nat, NEW r \in Nat \ {0}, NEW src \in Nat,
           NEW h \in BOOLEAN, NEW fmt,
           CalcMclkDiv(m, r, src, h, fmt, SclkFsMulti) >= 0
    PROVE  /\ MclkRatioAccepted(m, r, h, fmt, SclkFsMulti)
           /\ m > 0
           /\ CalcMclkDiv(m, r, src, h, fmt, SclkFsMulti) = (src \div 2) \div m - 1
           /\ CalcMclkDiv(m, r, src, h, fmt, SclkFsMulti) \in Nat
           /\ src \div (2 * (CalcMclkDiv(m, r, src, h, fmt, SclkFsMulti) + 1)) = m
<1>1. MclkRatioAccepted(m, r, h, fmt, SclkFsMulti)
  BY DEF CalcMclkDiv, EINVAL
<1>2. m > 0
  BY <1>1, RatioAcceptedPositive
<1> QED BY <1>1, <1>2 DEF CalcMclkDiv, EINVAL

\* Exact integer division: a multiple of r is r times its quotient.
LEMMA DivExact ==
    ASSUME NEW m \in Nat, NEW r \in Nat \ {0}, m % r = 0
    PROVE  m = r * (m \div r)
<1> DEFINE q == m \div r
<1>1. q \in Int
  OBVIOUS
<1>2. m \div r = q /\ m % r = 0
  OBVIOUS
<1> QED BY <1>1, <1>2, Z3

\* The arithmetic of the divider chain: an mclk the ratio check accepts is
\* reproduced exactly by rate * (mclk:sclk stage) * (sclk:fs stage).
LEMMA ChainArith ==
    ASSUME NEW m \in Nat, NEW r \in Nat \ {0}, NEW h \in BOOLEAN, NEW fmt,
           MclkRatioAccepted(m, r, h, fmt, SclkFsMulti)
    PROVE  /\ m = r * (m \div r)
           /\ h => m = r * (2 * (CalcSclkDiv(m \div r, SclkFsMulti) + 1))
                         * (2 * (CalcFsDiv + 1))
           /\ ~h => m = r * V1MclkSclkRatio(fmt) * (2 * (CalcFsDiv + 1))
<1>1. m % r = 0
  BY DEF MclkRatioAccepted
<1>2. m = r * (m \div r)
  BY <1>1, DivExact
<1>3. m \div r \in {256, 384, 512, 768}
  BY RatioAcceptedPositive
<1>4. ASSUME h PROVE m = r * (2 * (CalcSclkDiv(m \div r, SclkFsMulti) + 1))
                       * (2 * (CalcFsDiv + 1))
  <2> DEFINE k == m \div r
  <2>1. CASE k = 256  BY <1>2, <2>1 DEF CalcSclkDiv, CalcFsDiv, SclkFsMulti
  <2>2. CASE k = 384  BY <1>2, <2>2 DEF CalcSclkDiv, CalcFsDiv, SclkFsMulti
  <2>3. CASE k = 512  BY <1>2, <2>3 DEF CalcSclkDiv, CalcFsDiv, SclkFsMulti
  <2>4. CASE k = 768  BY <1>2, <2>4 DEF CalcSclkDiv, CalcFsDiv, SclkFsMulti
  <2> QED BY <1>3, <2>1, <2>2, <2>3, <2>4
<1>5. ASSUME ~h PROVE m = r * V1MclkSclkRatio(fmt) * (2 * (CalcFsDiv + 1))
  <2>1. m \div r = V1MclkSclkRatio(fmt) * SclkFsMulti
    BY <1>5 DEF MclkRatioAccepted, MclkFsRatioOk
  <2>2. CASE V1MclkSclkRatio(fmt) = 8
    BY <1>2, <2>1, <2>2 DEF CalcFsDiv, SclkFsMulti
  <2>3. CASE V1MclkSclkRatio(fmt) = 4
    BY <1>2, <2>1, <2>3 DEF CalcFsDiv, SclkFsMulti
  <2> QED BY <2>2, <2>3 DEF V1MclkSclkRatio
<1> QED BY <1>2, <1>4, <1>5

-----------------------------------------------------------------------------
LEMMA TypeInit == Init => TypeOK
<1> SUFFICES ASSUME Init PROVE TypeOK
  OBVIOUS
<1>1. srcClk \in Nat /\ clkRate \in Nat /\ sclkFsDivider \in Nat
  BY ConstAssumption DEF Init, ProbeInit
<1>2. divReg \in [DivIdx -> Int]
  BY DEF Init, DaiInit, DivIdx
<1>3. hdmi \in [rate : Nat, fmt : Formats \cup {"none"}]
  BY DEF Init, ProbeInit
<1>4. cnfOut \in [audfmt : Formats, pol : {"NORMAL", "INVERTED"},
                   ms : {"MASTER", "SLAVE"}]
  BY DEF Init, DaiInit, Formats
<1> QED
  BY <1>1, <1>2, <1>3, <1>4 DEF Init, ProbeInit, DaiInit, TypeOK, Formats, PcmStates

\* Every callback and every ALSA step keeps each field and register within
\* its type.
LEMMA TypeStep == TypeOK /\ [Next]_vars => TypeOK'
<1> SUFFICES ASSUME TypeOK, [Next]_vars PROVE TypeOK'
  OBVIOUS
<1>1. ASSUME NEW f \in FmtArgs, SetFmt(f) PROVE TypeOK'
  BY <1>1 DEF SetFmt, TypeOK, Formats
<1>2. ASSUME NEW freq \in MclkFreqs, SetDaiSysclk(freq) PROVE TypeOK'
  BY <1>2, ConstAssumption DEF SetDaiSysclk, TypeOK
<1>3. ASSUME NEW rate \in Rates, NEW w \in PhysWidths, NEW ch \in Channels,
             NEW clkOk \in BOOLEAN, HwParams(rate, w, ch, clkOk)
      PROVE TypeOK'
  <2> DEFINE src == IF params.ownsClk
                       /\ (~params.ownsClk \/ (rate \in Family48k \cup Family44k /\ clkOk))
                    THEN SrcTarget(rate) ELSE srcClk
             mclkDiv == CalcMclkDiv(mclk, rate, src, params.hasMclkSclkDiv,
                                    audioFmt, SclkFsMulti)
  <2>1. rate \in Nat \ {0} /\ w \in {16, 24, 32} /\ ch \in 1..2
    BY ConstAssumption
  <2>2. src \in Nat
    BY ConstAssumption DEF SrcTarget, TypeOK
  <2>3. mclkDiv >= 0 => mclkDiv \in Nat
    BY <2>1, <2>2, MclkDivSound DEF TypeOK
  <2>4. CalcRefclkDiv(src, rate) \in Int
    BY <2>2 DEF CalcRefclkDiv, RefClk, EINVAL
  <2>5. CalcSclkDiv(mclk \div rate, SclkFsMulti) \in Int
    BY <2>1 DEF CalcSclkDiv, SclkFsMulti, TypeOK
  <2>6. mclk \div rate \in Nat
    BY <2>1 DEF TypeOK
  <2> QED
    BY <1>3, <2>1, <2>2, <2>3, <2>4, <2>5, <2>6
    DEF HwParams, SetClkRate, TypeOK, ResOf, WidthOf, DivIdx, CalcFsDiv,
        SclkFsMulti, CalcSpdifclkDiv, PcmStates
<1>4. ASSUME NEW cmd \in StartCmds, TriggerStart(cmd) PROVE TypeOK'
  BY <1>4 DEF TriggerStart, TypeOK
<1>5. ASSUME NEW cmd \in StopCmds, TriggerStop(cmd) PROVE TypeOK'
  BY <1>5 DEF TriggerStop, TypeOK
<1>6. CASE HwFree
  BY <1>6 DEF HwFree, TypeOK, PcmStates
<1>7. CASE PrepareSuspended
  BY <1>7 DEF PrepareSuspended, TypeOK, PcmStates
<1>8. CASE UNCHANGED vars
  BY <1>8 DEF vars, TypeOK
<1> QED
  BY <1>1, <1>2, <1>3, <1>4, <1>5, <1>6, <1>7, <1>8, ClkOutcomesBoolean DEF Next

\* Type correctness of the model of the driver: every field and register
\* keeps a value of its type through every callback.
THEOREM TypeCorrect == Spec => []TypeOK
BY TypeInit, TypeStep, PTL DEF Spec

-----------------------------------------------------------------------------
LEMMA IInvInit == Init => IInv
<1> SUFFICES ASSUME Init PROVE IInv
  OBVIOUS
<1> QED BY TypeInit DEF Init, ProbeInit, DaiInit, IInv, Configured, PcmStates

\* IInv is inductive when the machine driver sets the format and mclk only
\* while the stream is not configured.
LEMMA IInvStep ==
    ASSUME ~LateSetters
    PROVE  IInv /\ [Next]_vars => IInv'
<1> SUFFICES ASSUME IInv, [Next]_vars PROVE IInv'
  OBVIOUS
<1>1. TypeOK /\ TypeOK'
  BY TypeStep DEF IInv
\* The part of ConfiguredInv an unconfigured stream does not constrain.
<1> DEFINE Keep == UNCHANGED <<params, mclk, audioFmt, sampleRate, sclkFsDivider,
                              mclkFsDivider, clkRate, divReg, cnfOut>>
<1>2. ASSUME NEW f \in FmtArgs, SetFmt(f) PROVE IInv'
  BY <1>1, <1>2 DEF SetFmt, SetterAllowed, IInv, Configured
<1>3. ASSUME NEW freq \in MclkFreqs, SetDaiSysclk(freq) PROVE IInv'
  BY <1>1, <1>3 DEF SetDaiSysclk, SetterAllowed, IInv, Configured
<1>4. ASSUME NEW rate \in Rates, NEW w \in PhysWidths, NEW ch \in Channels,
             NEW clkOk \in BOOLEAN, HwParams(rate, w, ch, clkOk)
      PROVE IInv'
  <2> DEFINE srcOk   == ~params.ownsClk \/ (rate \in Family48k \cup Family44k /\ clkOk)
             src     == IF params.ownsClk /\ srcOk THEN SrcTarget(rate) ELSE srcClk
             sclkFs  == SclkFsMulti
             ratioOk == MclkRatioAccepted(mclk, rate, params.hasMclkSclkDiv, audioFmt, sclkFs)
             mclkDiv == CalcMclkDiv(mclk, rate, src, params.hasMclkSclkDiv, audioFmt, sclkFs)
             sclkDiv == CalcSclkDiv(mclk \div rate, sclkFs)
             refDiv  == CalcRefclkDiv(src, rate)
             ok      == /\ srcOk
                        /\ CalcFsDiv >= 0
                        /\ mclkDiv >= 0
                        /\ params.hasMclkSclkDiv => sclkDiv >= 0
                        /\ CalcSpdifclkDiv >= 0
                        /\ refDiv >= 0
  <2>1. /\ clkRate' = src
        /\ sampleRate' = IF srcOk THEN rate ELSE sampleRate
        /\ sclkFsDivider' = IF srcOk THEN sclkFs ELSE sclkFsDivider
        /\ mclkFsDivider' = IF srcOk /\ ratioOk THEN mclk \div rate ELSE mclkFsDivider
        /\ divReg' = IF ~ok THEN divReg
                     ELSE [divReg EXCEPT ![0] = mclkDiv, ![1] = CalcSpdifclkDiv,
                                         ![2] = CalcFsDiv, ![3] = refDiv,
                                         ![4] = IF params.hasMclkSclkDiv
                                                THEN sclkDiv ELSE @]
        /\ pcm' = IF ok THEN "ready" ELSE "open"
        /\ UNCHANGED <<params, mclk, audioFmt, cnfOut>>
    BY <1>4 DEF HwParams, SetClkRate
  <2>2. CASE ~ok
    BY <1>1, <2>1, <2>2 DEF IInv, Configured
  <2>3. CASE ok
    <3>1. rate \in Nat \ {0} /\ src \in Nat /\ mclk \in Nat
      BY ConstAssumption, <1>1 DEF SrcTarget, TypeOK
    <3>2. /\ MclkRatioAccepted(mclk, rate, params.hasMclkSclkDiv, audioFmt, SclkFsMulti)
          /\ mclkDiv \in Nat
          /\ src \div (2 * (mclkDiv + 1)) = mclk
      BY <2>3, <3>1, <1>1, MclkDivSound DEF TypeOK
    <3>3. divReg \in [DivIdx -> Int]
      BY <1>1 DEF TypeOK
    <3>4. /\ pcm' = "ready"
          /\ sampleRate' = rate
          /\ sclkFsDivider' = SclkFsMulti
          /\ mclkFsDivider' = mclk \div rate
          /\ divReg'[0] = mclkDiv
          /\ divReg'[2] = CalcFsDiv
          /\ params.hasMclkSclkDiv => divReg'[4] = sclkDiv
      BY <2>1, <2>3, <3>2, <3>3 DEF DivIdx
    <3>5. ConfiguredInv'
      BY <2>1, <3>1, <3>2, <3>4 DEF ConfiguredInv
    <3> QED BY <1>1, <2>1, <3>5 DEF IInv
  <2> QED BY <2>2, <2>3
<1>5. ASSUME NEW cmd \in StartCmds, TriggerStart(cmd) PROVE IInv'
  <2>1. pcm \in Configured /\ pcm' \in Configured /\ Keep
    BY <1>5 DEF TriggerStart, PcmTrans, Configured, PcmStates
  <2> QED BY <1>1, <2>1 DEF IInv, ConfiguredInv
<1>6. ASSUME NEW cmd \in StopCmds, TriggerStop(cmd) PROVE IInv'
  <2>1. pcm \in Configured /\ pcm' \in Configured /\ Keep
    BY <1>6 DEF TriggerStop, PcmTrans, Configured, PcmStates
  <2> QED BY <1>1, <2>1 DEF IInv, ConfiguredInv
<1>7. CASE HwFree
  BY <1>1, <1>7 DEF HwFree, IInv, Configured
<1>8. CASE PrepareSuspended
  <2>1. pcm \in Configured /\ Keep
    BY <1>8 DEF PrepareSuspended, Configured, PcmStates
  <2> QED BY <1>1, <1>8, <2>1 DEF PrepareSuspended, IInv, ConfiguredInv
<1>9. CASE UNCHANGED vars
  BY <1>1, <1>9 DEF vars, IInv, ConfiguredInv
<1> QED
  BY <1>2, <1>3, <1>4, <1>5, <1>6, <1>7, <1>8, <1>9, ClkOutcomesBoolean DEF Next

\* The step of RateRealized that needs no induction: the inductive
\* invariant entails the realized-rate property.
LEMMA IInvRealizes == IInv => DividersRealizeRate
<1> SUFFICES ASSUME IInv, pcm \in Configured PROVE DividersRealizeRate
  BY DEF DividersRealizeRate
<1>1. ConfiguredInv /\ TypeOK /\ cnfOut.audfmt = audioFmt
  BY DEF IInv
<1>2. sampleRate \in Nat \ {0} /\ mclk \in Nat /\ params.hasMclkSclkDiv \in BOOLEAN
  BY <1>1, ConstAssumption DEF ConfiguredInv, TypeOK
<1>3. clkRate \div (2 * (divReg[0] + 1)) = mclk
  BY <1>1 DEF ConfiguredInv
<1>4. MclkRatioAccepted(mclk, sampleRate, params.hasMclkSclkDiv, audioFmt,
                        SclkFsMulti)
  BY <1>1 DEF ConfiguredInv
<1>5. divReg[2] = CalcFsDiv
  BY <1>1 DEF ConfiguredInv
<1>6. CASE params.hasMclkSclkDiv
  <2>1. mclk = sampleRate * (2 * (CalcSclkDiv(mclk \div sampleRate, SclkFsMulti) + 1))
                          * (2 * (CalcFsDiv + 1))
    BY <1>2, <1>4, <1>6, ChainArith
  <2>2. divReg[4] = CalcSclkDiv(mclk \div sampleRate, SclkFsMulti)
    BY <1>1, <1>6 DEF ConfiguredInv
  <2>3. MclkSclkRatioHw = 2 * (divReg[4] + 1)
    BY <1>6 DEF MclkSclkRatioHw
  <2> QED BY <1>3, <1>5, <2>1, <2>2, <2>3 DEF DividersRealizeRate
<1>7. CASE ~params.hasMclkSclkDiv
  <2>1. mclk = sampleRate * V1MclkSclkRatio(audioFmt) * (2 * (CalcFsDiv + 1))
    BY <1>2, <1>4, <1>7, ChainArith
  <2>2. MclkSclkRatioHw = V1MclkSclkRatio(audioFmt)
    BY <1>1, <1>7 DEF MclkSclkRatioHw
  <2> QED BY <1>3, <1>5, <2>1, <2>2 DEF DividersRealizeRate
<1> QED BY <1>6, <1>7

\* The inductive invariant itself holds in every reachable state: the
\* format register and i2s->audio_fmt agree, and a configured stream keeps
\* the ratio, sclk_fs_divider, DIV2 and DIV4 that a successful
\* csky_i2s_set_clk_rate established, across failed hw_params calls, every
\* trigger sequence and hw_free, when set_fmt and set_sysclk come first.
THEOREM IInvHolds ==
    ASSUME ~LateSetters
    PROVE  Spec => []IInv
BY IInvInit, IInvStep, PTL DEF Spec

\* While the stream is configured, the dividers csky_i2s_set_clk_rate wrote
\* produce the announced mclk from the source clock and exactly the accepted
\* sample rate from mclk, for every source clock, mclk and rate, on both
\* hardware generations, provided the machine driver does not change the
\* format or mclk of a configured stream.
THEOREM RateRealized ==
    ASSUME ~LateSetters
    PROVE  Spec => []DividersRealizeRate
<1>1. IInv => DividersRealizeRate
  BY IInvRealizes
<1>2. IInv /\ [Next]_vars => IInv'
  BY IInvStep
<1> QED BY IInvInit, <1>1, <1>2, PTL DEF Spec

\* Spec section 3: for the configured stream, mclk_fs_divider * rate = mclk
\* and the ratio meets the constraint of the hardware generation, under the
\* same condition on the machine driver.
THEOREM RatiosConsistent ==
    ASSUME ~LateSetters
    PROVE  Spec => []CachedRatiosConsistent
<1>1. IInv => CachedRatiosConsistent
  <2> SUFFICES ASSUME IInv, pcm \in Configured PROVE CachedRatiosConsistent
    BY DEF CachedRatiosConsistent
  <2>1. ConfiguredInv /\ TypeOK
    BY DEF IInv
  <2>2. sampleRate \in Nat \ {0} /\ mclk \in Nat /\ params.hasMclkSclkDiv \in BOOLEAN
    BY <2>1, ConstAssumption DEF ConfiguredInv, TypeOK
  <2>3. mclk = sampleRate * (mclk \div sampleRate)
    BY <2>1, <2>2, ChainArith DEF ConfiguredInv
  <2>4. MclkFsRatioOk(mclkFsDivider, params.hasMclkSclkDiv, audioFmt, sclkFsDivider)
    BY <2>1 DEF ConfiguredInv, MclkRatioAccepted
  <2>5. mclkFsDivider * sampleRate = mclk
    BY <2>1, <2>2, <2>3 DEF ConfiguredInv
  <2> QED
    BY <2>4, <2>5 DEF CachedRatiosConsistent, MclkFsRatioOk
<1>2. IInv /\ [Next]_vars => IInv'
  BY IInvStep
<1> QED BY IInvInit, <1>1, <1>2, PTL DEF Spec

-----------------------------------------------------------------------------
\* Every start command of csky_i2s_trigger leaves the stream running and
\* every stop command leaves it configured and not running.
LEMMA TriggerTargets ==
    ASSUME NEW from, NEW cmd, NEW to, <<from, cmd, to>> \in PcmTrans
    PROVE  /\ cmd \in StartCmds => /\ to = "running"
                                   /\ from \in Configured \ {"running"}
           /\ cmd \in StopCmds  => /\ from = "running"
                                   /\ to \in Configured \ {"running"}
BY DEF StartCmds, StopCmds, PcmTrans, PcmStates, Configured

LEMMA ArmedInit == Init => TransferArmedIffRunning
BY DEF Init, ProbeInit, DaiInit, TransferArmedIffRunning

\* TransferArmedIffRunning is inductive given the types.
LEMMA ArmedStep ==
    TypeOK /\ TransferArmedIffRunning /\ [Next]_vars => TransferArmedIffRunning'
<1> SUFFICES ASSUME TypeOK, TransferArmedIffRunning, [Next]_vars
             PROVE  TransferArmedIffRunning'
  OBVIOUS
<1>1. params.usePio \in BOOLEAN /\ pcm \in PcmStates
  BY DEF TypeOK
<1>2. ASSUME NEW f \in FmtArgs, SetFmt(f) PROVE TransferArmedIffRunning'
  BY <1>2 DEF SetFmt, TransferArmedIffRunning
<1>3. ASSUME NEW freq \in MclkFreqs, SetDaiSysclk(freq)
      PROVE TransferArmedIffRunning'
  BY <1>3 DEF SetDaiSysclk, TransferArmedIffRunning
<1>4. ASSUME NEW rate \in Rates, NEW w \in PhysWidths, NEW ch \in Channels,
             NEW clkOk \in BOOLEAN, HwParams(rate, w, ch, clkOk)
      PROVE TransferArmedIffRunning'
  <2>1. pcm' \in {"ready", "open"} /\ pcm \in {"open", "ready"}
    BY <1>4 DEF HwParams, SetClkRate
  <2>2. UNCHANGED <<params, audioEn, imrTxEmpty, dmaTxEn>>
    BY <1>4 DEF HwParams
  <2> QED BY <2>1, <2>2 DEF TransferArmedIffRunning
<1>5. ASSUME NEW cmd \in StartCmds, TriggerStart(cmd)
      PROVE TransferArmedIffRunning'
  <2>1. PICK to \in PcmStates : <<pcm, cmd, to>> \in PcmTrans /\ pcm' = to
    BY <1>5 DEF TriggerStart
  <2>3. pcm' = "running"
    BY <2>1, TriggerTargets
  <2>2. /\ imrTxEmpty' = IF params.usePio THEN TRUE ELSE imrTxEmpty
        /\ dmaTxEn' = IF params.usePio THEN dmaTxEn ELSE TRUE
        /\ audioEn' = TRUE /\ params' = params
    BY <1>5 DEF TriggerStart
  <2> QED BY <1>1, <2>3, <2>2 DEF TransferArmedIffRunning
<1>6. ASSUME NEW cmd \in StopCmds, TriggerStop(cmd)
      PROVE TransferArmedIffRunning'
  <2>1. PICK to \in PcmStates : <<pcm, cmd, to>> \in PcmTrans /\ pcm' = to
    BY <1>6 DEF TriggerStop
  <2>3. pcm' # "running"
    BY <2>1, TriggerTargets
  <2>2. ~imrTxEmpty' /\ ~dmaTxEn' /\ ~audioEn' /\ params' = params
    BY <1>6 DEF TriggerStop
  <2> QED BY <1>1, <2>3, <2>2 DEF TransferArmedIffRunning
<1>7. CASE HwFree
  BY <1>7 DEF HwFree, TransferArmedIffRunning
<1>8. CASE PrepareSuspended
  BY <1>8 DEF PrepareSuspended, TransferArmedIffRunning
<1>9. CASE UNCHANGED vars
  BY <1>9 DEF vars, TransferArmedIffRunning
<1> QED
  BY <1>2, <1>3, <1>4, <1>5, <1>6, <1>7, <1>8, <1>9, ClkOutcomesBoolean DEF Next

\* For every configuration, including a machine driver that calls set_fmt
\* or set_sysclk at any time: the transport chosen at probe (TX-FIFO-empty
\* interrupt for PIO, TX DMA otherwise) and IIS_AUDIOEN are armed exactly
\* while ALSA has the stream running, across every trigger sequence of
\* csky_i2s_trigger, and the other transport is never armed.
THEOREM TransferArmed == Spec => []TransferArmedIffRunning
<1>1. TypeOK /\ TransferArmedIffRunning /\ [Next]_vars
         => TransferArmedIffRunning'
  BY ArmedStep
<1> QED BY TypeInit, TypeStep, ArmedInit, <1>1, PTL DEF Spec
=============================================================================
