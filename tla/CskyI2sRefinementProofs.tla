----------------------- MODULE CskyI2sRefinementProofs -----------------------
(***************************************************************************)
(* Proof that CskyI2s implements CskyI2sAbstract under the refinement      *)
(* mapping of CskyI2sRefinement, for every value of the constants, when    *)
(* the machine driver sets the format and mclk only on an unconfigured     *)
(* stream.                                                                 *)
(***************************************************************************)
EXTENDS CskyI2sRefinement, CskyI2sProofs

\* Integer division undoes a multiplication by a positive divisor.
LEMMA MulDivCancel ==
    ASSUME NEW s \in Nat, NEW k \in Nat \ {0}
    PROVE  (s * k) \div k = s
<1> DEFINE p == s * k
<1>1. p \in Nat /\ p = s * k
  OBVIOUS
<1> QED BY <1>1, Z3

\* The mclk:sclk stage of a configured stream divides by a positive ratio:
\* DIV4 holds 1, 2, 3 or 5 on v1.1, the v1 wiring divides by 8 or 4.
LEMMA HwRatioPositive ==
    ASSUME IInv, pcm \in Configured
    PROVE  MclkSclkRatioHw \in Nat \ {0}
<1>1. ConfiguredInv /\ TypeOK
  BY DEF IInv
<1>2. sampleRate \in Nat \ {0} /\ mclk \in Nat /\ params.hasMclkSclkDiv \in BOOLEAN
  BY <1>1, ConstAssumption DEF ConfiguredInv, TypeOK
<1>3. CASE params.hasMclkSclkDiv
  <2> DEFINE k == mclk \div sampleRate
  <2>1. k \in {256, 384, 512, 768}
    BY <1>1, <1>2, RatioAcceptedPositive DEF ConfiguredInv
  <2>2. divReg[4] = CalcSclkDiv(k, SclkFsMulti)
    BY <1>1, <1>3 DEF ConfiguredInv
  <2>3. CalcSclkDiv(k, SclkFsMulti) \in Nat
    BY <2>1 DEF CalcSclkDiv, SclkFsMulti
  <2> QED BY <1>3, <2>2, <2>3 DEF MclkSclkRatioHw
<1>4. CASE ~params.hasMclkSclkDiv
  BY <1>4 DEF MclkSclkRatioHw, V1MclkSclkRatio
<1> QED BY <1>2, <1>3, <1>4

\* The divider chain of a configured stream produces exactly its rate.
RealizedOk == pcm \in Configured => RealizedFs = sampleRate

LEMMA RealizedIsRate == IInv => RealizedOk
<1> SUFFICES ASSUME IInv, pcm \in Configured PROVE RealizedFs = sampleRate
  BY DEF RealizedOk
<1>1. DividersRealizeRate
  BY IInvRealizes
<1>2. sampleRate \in Nat \ {0} /\ divReg[2] = CalcFsDiv
  BY ConstAssumption DEF IInv, ConfiguredInv
<1> DEFINE R == MclkSclkRatioHw
           K == R * (2 * (divReg[2] + 1))
<1>3. R \in Nat \ {0}
  BY HwRatioPositive
<1>4. K \in Nat \ {0} /\ K = R * 64
  BY <1>2, <1>3 DEF CalcFsDiv, SclkFsMulti
<1>5. clkRate \div (2 * (divReg[0] + 1)) = sampleRate * K
  <2>1. clkRate \div (2 * (divReg[0] + 1)) = sampleRate * R * 64
    BY <1>1, <1>2 DEF DividersRealizeRate, CalcFsDiv, SclkFsMulti
  <2> QED BY <1>2, <1>3, <1>4, <2>1
<1>6. (sampleRate * K) \div K = sampleRate
  BY <1>2, <1>4, MulDivCancel
<1> QED BY <1>5, <1>6 DEF RealizedFs

-----------------------------------------------------------------------------
\* The invariant the refinement rests on.
RInv == IInv /\ TransferArmedIffRunning /\ RealizedOk

LEMMA RInvInvariant ==
    ASSUME ~LateSetters
    PROVE  Spec => []RInv
<1> DEFINE J == IInv /\ TransferArmedIffRunning
<1>1. Init => J
  BY IInvInit, ArmedInit
<1>2. J /\ [Next]_vars => J'
  BY IInvStep, ArmedStep DEF IInv
<1>3. J => RInv
  BY RealizedIsRate DEF RInv
<1> QED BY <1>1, <1>2, <1>3, PTL DEF Spec

LEMMA AbsInit == Init => Abs!Init
BY DEF Init, ProbeInit, DaiInit, Abs!Init, AbsRate, AbsFs, Configured

\* A step that leaves the stored rate, the clock and the divider registers
\* alone, and keeps the stream configured or unconfigured, leaves the
\* abstract rate and the realized rate alone.
LEMMA AbsUnchanged ==
    ASSUME UNCHANGED <<params, sampleRate, clkRate, divReg, cnfOut>>,
           pcm \in Configured <=> pcm' \in Configured
    PROVE  UNCHANGED <<AbsRate, AbsFs>>
<1>1. MclkSclkRatioHw' = MclkSclkRatioHw
  BY DEF MclkSclkRatioHw
<1>2. RealizedFs' = RealizedFs
  BY <1>1 DEF RealizedFs
<1>3. AbsRate' = AbsRate
  BY DEF AbsRate
<1>4. AbsFs' = AbsFs
  BY <1>2 DEF AbsFs
<1> QED BY <1>3, <1>4

\* Each step of CskyI2s is a step of CskyI2sAbstract or a stutter of it.
LEMMA AbsStep ==
    ASSUME ~LateSetters
    PROVE  RInv /\ RInv' /\ [Next]_vars => [Abs!Next]_Abs!absVars
<1> SUFFICES ASSUME RInv, RInv', [Next]_vars PROVE [Abs!Next]_Abs!absVars
  OBVIOUS
<1>1. TypeOK /\ TypeOK' /\ IInv /\ IInv'
  BY DEF RInv, IInv
<1>2. audioEn <=> pcm = "running"
  BY DEF RInv, TransferArmedIffRunning
<1> DEFINE Stutter == UNCHANGED <<AbsRate, AbsFs, audioEn>>
<1>3. ASSUME NEW f \in FmtArgs, SetFmt(f) PROVE Stutter
  BY <1>3 DEF SetFmt, SetterAllowed, AbsRate, AbsFs, Configured
<1>4. ASSUME NEW freq \in MclkFreqs, SetDaiSysclk(freq) PROVE Stutter
  BY <1>4 DEF SetDaiSysclk, SetterAllowed, AbsRate, AbsFs, Configured
<1>5. ASSUME NEW rate \in Rates, NEW w \in PhysWidths, NEW ch \in Channels,
             NEW clkOk \in BOOLEAN, HwParams(rate, w, ch, clkOk)
      PROVE [Abs!Next]_Abs!absVars
  <2> DEFINE srcOk == ~params.ownsClk \/ (rate \in Family48k \cup Family44k /\ clkOk)
  <2>1. /\ pcm' \in {"ready", "open"} /\ pcm \in {"open", "ready"}
        /\ pcm' = "ready" => srcOk
        /\ sampleRate' = IF srcOk THEN rate ELSE sampleRate
        /\ UNCHANGED audioEn
    BY <1>5 DEF HwParams, SetClkRate
  <2>2. ~audioEn
    BY <1>2, <2>1
  <2>3. CASE pcm' = "ready"
    <3>1. AbsRate' = rate
      BY <2>1, <2>3 DEF AbsRate, Configured, PcmStates
    <3>2. AbsFs' = rate
      <4>1. RealizedFs' = sampleRate'
        BY <2>3 DEF RInv, RealizedOk, Configured, PcmStates
      <4> QED BY <2>1, <2>3, <4>1 DEF AbsFs, Configured, PcmStates
    <3> QED BY <2>1, <2>2, <3>1, <3>2 DEF Abs!Next, Abs!Configure
  <2>4. CASE pcm' = "open"
    BY <2>1, <2>2, <2>4 DEF Abs!Next, Abs!Unconfigure, AbsRate, AbsFs,
                            Configured, PcmStates
  <2> QED BY <2>1, <2>3, <2>4
<1>6. ASSUME NEW cmd \in StartCmds, TriggerStart(cmd)
      PROVE [Abs!Next]_Abs!absVars
  <2>1. PICK to \in PcmStates : <<pcm, cmd, to>> \in PcmTrans /\ pcm' = to
    BY <1>6 DEF TriggerStart
  <2>2. pcm \in Configured \ {"running"} /\ pcm' = "running"
    BY <2>1, TriggerTargets
  <2>3. sampleRate \in Nat \ {0}
    BY <1>1, <2>2, ConstAssumption DEF IInv, ConfiguredInv
  <2>4. /\ audioEn' = TRUE
        /\ UNCHANGED <<params, sampleRate, clkRate, divReg, cnfOut>>
    BY <1>6 DEF TriggerStart
  <2>5. UNCHANGED <<AbsRate, AbsFs>>
    <3>1. pcm \in Configured /\ pcm' \in Configured
      BY <2>2 DEF Configured, PcmStates
    <3> QED BY <2>4, <3>1, AbsUnchanged
  <2> QED BY <1>2, <2>2, <2>3, <2>4, <2>5 DEF Abs!Next, Abs!Start, AbsRate,
                                              Configured
<1>7. ASSUME NEW cmd \in StopCmds, TriggerStop(cmd)
      PROVE [Abs!Next]_Abs!absVars
  <2>1. PICK to \in PcmStates : <<pcm, cmd, to>> \in PcmTrans /\ pcm' = to
    BY <1>7 DEF TriggerStop
  <2>2. pcm = "running" /\ pcm' \in Configured
    BY <2>1, TriggerTargets
  <2>3. /\ audioEn' = FALSE
        /\ UNCHANGED <<params, sampleRate, clkRate, divReg, cnfOut>>
    BY <1>7 DEF TriggerStop
  <2>4. UNCHANGED <<AbsRate, AbsFs>>
    <3>1. pcm \in Configured /\ pcm' \in Configured
      BY <2>2 DEF Configured, PcmStates
    <3> QED BY <2>3, <3>1, AbsUnchanged
  <2> QED BY <1>2, <2>2, <2>3, <2>4 DEF Abs!Next, Abs!Stop
<1>8. CASE HwFree
  <2>1. pcm = "ready" /\ pcm' = "open" /\ UNCHANGED audioEn
    BY <1>8 DEF HwFree
  <2> QED BY <1>2, <2>1 DEF Abs!Next, Abs!Unconfigure, AbsRate, AbsFs,
                            Configured, PcmStates
<1>9. CASE PrepareSuspended
  <2>1. /\ UNCHANGED <<params, sampleRate, clkRate, divReg, cnfOut, audioEn>>
        /\ pcm \in Configured /\ pcm' \in Configured
    BY <1>9 DEF PrepareSuspended, Configured, PcmStates
  <2>2. UNCHANGED <<AbsRate, AbsFs>>
    BY <2>1, AbsUnchanged
  <2> QED BY <2>1, <2>2 DEF Abs!absVars
<1>10. CASE UNCHANGED vars
  <2>1. UNCHANGED <<params, sampleRate, clkRate, divReg, cnfOut, audioEn, pcm>>
    BY <1>10 DEF vars
  <2>2. UNCHANGED <<AbsRate, AbsFs>>
    BY <2>1, AbsUnchanged
  <2> QED BY <2>1, <2>2 DEF Abs!absVars
<1> QED
  BY <1>3, <1>4, <1>5, <1>6, <1>7, <1>8, <1>9, <1>10, ClkOutcomesBoolean
  DEF Next, Abs!absVars

\* The driver keeps the promise of its DAI, for every clock, rate and mclk
\* on both hardware generations: every callback is a step of
\* CskyI2sAbstract or leaves its state alone, so a configured stream plays
\* at exactly the rate csky_i2s_hw_params accepted and only a configured
\* stream is started, when set_fmt and set_sysclk come before hw_params.
THEOREM Refinement ==
    ASSUME ~LateSetters
    PROVE  Spec => AbsSpec
<1>1. Spec => []RInv
  BY RInvInvariant
<1>2. RInv /\ RInv' /\ [Next]_vars => [Abs!Next]_Abs!absVars
  BY AbsStep
<1> QED BY <1>1, <1>2, AbsInit, PTL DEF Spec, AbsSpec, Abs!Spec
=============================================================================
