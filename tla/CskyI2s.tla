------------------------------ MODULE CskyI2s ------------------------------
(***************************************************************************)
(* One C-SKY I2S controller (sound/soc/csky/csky-i2s.c) after probe, as    *)
(* the ASoC core drives it through its snd_soc_dai_ops: set_fmt,           *)
(* set_sysclk, hw_params (which programs the clock dividers through        *)
(* csky_i2s_set_clk_rate) and trigger.  The state is the fields of struct  *)
(* csky_i2s the clock code reads and writes, the controller registers it   *)
(* programs, the rate of the upstream "audio" clock, and the ALSA PCM      *)
(* state of the playback substream, which decides which callback the core  *)
(* may call.  The ASoC core serialises the callbacks of a stream, so each  *)
(* callback is one atomic step.                                            *)
(***************************************************************************)
EXTENDS Integers, CskyI2sDividers

CONSTANTS
    Rates,              \* rates hw_params is called with (csky_i2s_dai .rates)
    PhysWidths,         \* params_physical_width of the DAI's sample formats
    Channels,           \* params_channels (channels_min..channels_max)
    MclkFreqs,          \* freq a machine driver passes to set_sysclk
    ClkFs48k,           \* rate of the "clk-for-fs-48k" clock
    ClkFs44k,           \* rate of the "clk-for-fs-44k" clock
    BootSrcClks,        \* src_clk at probe: "clock-frequency" or the clock's rate
    DtSclkFsDividers,   \* sclk_fs_divider at probe: "sclk-fs-divider", 0 if absent
    ClkSetRateMayFail,  \* whether clk_set_rate may return an error
    HdmiBuilt,          \* CONFIG_CSKY_HDMI
    LateSetters         \* the machine driver may call set_fmt/set_sysclk
                        \* while the stream is configured

ASSUME ConstAssumption ==
    /\ Rates \subseteq Nat \ {0}
    /\ MclkFreqs \subseteq Nat
    /\ {ClkFs48k, ClkFs44k} \subseteq Nat
    /\ BootSrcClks \subseteq Nat
    /\ DtSclkFsDividers \subseteq Nat
    /\ PhysWidths \subseteq {16, 24, 32}
    /\ Channels \subseteq 1..2
    /\ {ClkSetRateMayFail, HdmiBuilt, LateSetters} \subseteq BOOLEAN

VARIABLES
    params,         \* probe-time choices: [hasMclkSclkDiv, ownsClk, usePio, configHdmi]
    mclk,           \* i2s->mclk
    audioFmt,       \* i2s->audio_fmt
    srcClk,         \* i2s->src_clk
    sampleRate,     \* i2s->sample_rate
    sclkFsDivider,  \* i2s->sclk_fs_divider
    mclkFsDivider,  \* i2s->mclk_fs_divider
    clkRate,        \* rate the source clock really runs at
    divReg,         \* IIS_DIV0_LEVEL .. IIS_DIV4_LEVEL
    cnfOut,         \* IIS_IISCNF_OUT: audio format, WS polarity, master/slave
    fsstaRes,       \* resolution field of IIS_FSSTA
    addrWidth,      \* i2s->playback_dma_data.addr_width (bytes)
    audioEn,        \* IIS_AUDIOEN
    imrTxEmpty,     \* TX-FIFO-empty interrupt unmasked in IIS_IMR
    dmaTxEn,        \* IIS_DMACR transmit DMA enable
    hdmi,           \* last csky_hdmi_audio_config(sample_rate, audio_fmt)
    pcm             \* ALSA state of the playback substream

vars == <<params, mclk, audioFmt, srcClk, sampleRate, sclkFsDivider,
          mclkFsDivider, clkRate, divReg, cnfOut, fsstaRes, addrWidth,
          audioEn, imrTxEmpty, dmaTxEn, hdmi, pcm>>

DivIdx == 0..4
Formats == {"I2S", "LEFT_J", "RIGHT_J"}
PcmStates == {"open", "ready", "running", "paused", "suspended"}
\* States in which hw_params has succeeded and not been undone.
Configured == PcmStates \ {"open"}

\* The fmt argument of set_fmt: format, clock inversion and clock master
\* fields, each with a value the driver rejects.
FmtArgs == [format : Formats \cup {"DSP_A"},
            inv    : {"NB_NF", "NB_IF", "IB_NF"},
            master : {"CBS_CFS", "CBM_CFM", "CBM_CFS"}]

\* ALSA trigger commands, grouped as csky_i2s_trigger handles them.
StartCmds == {"START", "PAUSE_RELEASE", "RESUME"}
StopCmds  == {"STOP", "PAUSE_PUSH", "SUSPEND"}

\* The PCM state change ALSA makes around each trigger command (XRUN and
\* drop stop the stream with STOP).
PcmTrans == {<<"ready", "START", "running">>,
             <<"running", "STOP", "ready">>,
             <<"running", "PAUSE_PUSH", "paused">>,
             <<"paused", "PAUSE_RELEASE", "running">>,
             <<"running", "SUSPEND", "suspended">>,
             <<"suspended", "RESUME", "running">>}

-----------------------------------------------------------------------------
\* State after csky_i2s_probe: the kzalloc'd struct, the match data, the
\* "clock-frequency" property or the rate of the "audio" clock, the
\* "sclk-fs-divider" property, the "dmas" and "config-hdmi" properties.
ProbeInit ==
    /\ params \in [hasMclkSclkDiv : BOOLEAN, ownsClk : BOOLEAN,
                   usePio : BOOLEAN, configHdmi : BOOLEAN]
    /\ mclk = 0
    /\ audioFmt = "I2S"
    /\ srcClk \in BootSrcClks
    /\ clkRate = srcClk
    /\ sampleRate = 0
    /\ sclkFsDivider \in DtSclkFsDividers
    /\ mclkFsDivider = 0
    /\ addrWidth = 0
    /\ hdmi = [rate |-> 0, fmt |-> "none"]

\* csky_i2s_dai_probe -> csky_i2s_init: register defaults.  The dividers and
\* DMACR are not written; their reset value is taken as 0.
DaiInit ==
    /\ divReg = [i \in DivIdx |-> 0]
    /\ cnfOut = [audfmt |-> "I2S", pol |-> "NORMAL", ms |-> "MASTER"]
    /\ fsstaRes = "RES16_FIFO16"
    /\ audioEn = FALSE
    /\ imrTxEmpty = FALSE
    /\ dmaTxEn = FALSE

Init == ProbeInit /\ DaiInit /\ pcm = "open"

\* The machine driver calls set_fmt/set_sysclk when the DAI link is set up
\* (stream open), or at any time if LateSetters.
SetterAllowed == LateSetters \/ pcm = "open"

\* Seeded fault: set_fmt without the default branch of the format switch.
SetFmtAnyFormat(f) ==
    /\ SetterAllowed
    /\ f.inv \in {"NB_NF", "NB_IF"}
    /\ f.master \in {"CBS_CFS", "CBM_CFM"}
    /\ cnfOut' = [audfmt |-> f.format,
                  pol    |-> IF f.inv = "NB_NF" THEN "NORMAL" ELSE "INVERTED",
                  ms     |-> IF f.master = "CBS_CFS" THEN "MASTER" ELSE "SLAVE"]
    /\ audioFmt' = f.format
    /\ UNCHANGED <<params, mclk, srcClk, sampleRate, sclkFsDivider,
                   mclkFsDivider, clkRate, divReg, fsstaRes, addrWidth,
                   audioEn, imrTxEmpty, dmaTxEn, hdmi, pcm>>

\* csky_i2s_set_fmt: every unsupported field returns -EINVAL before the
\* register write.
SetFmt(f) ==
    /\ SetterAllowed
    /\ f.format \in Formats
    /\ f.inv \in {"NB_NF", "NB_IF"}
    /\ f.master \in {"CBS_CFS", "CBM_CFM"}
    /\ cnfOut' = [audfmt |-> f.format,
                  pol    |-> IF f.inv = "NB_NF" THEN "NORMAL" ELSE "INVERTED",
                  ms     |-> IF f.master = "CBS_CFS" THEN "MASTER" ELSE "SLAVE"]
    /\ audioFmt' = f.format
    /\ UNCHANGED <<params, mclk, srcClk, sampleRate, sclkFsDivider,
                   mclkFsDivider, clkRate, divReg, fsstaRes, addrWidth,
                   audioEn, imrTxEmpty, dmaTxEn, hdmi, pcm>>

\* csky_i2s_set_dai_sysclk
SetDaiSysclk(freq) ==
    /\ SetterAllowed
    /\ mclk' = freq
    /\ UNCHANGED <<params, audioFmt, srcClk, sampleRate, sclkFsDivider,
                   mclkFsDivider, clkRate, divReg, cnfOut, fsstaRes, addrWidth,
                   audioEn, imrTxEmpty, dmaTxEn, hdmi, pcm>>

\* The rate csky_i2s_set_clk_rate asks of the source clock for a rate.
SrcTarget(rate) == IF rate \in Family48k THEN ClkFs48k ELSE ClkFs44k

\* csky_i2s_set_clk_rate(rate): reprogram the source clock when the driver
\* owns it (clkOk: clk_set_rate succeeds), record the rate, then compute the
\* dividers in the order fs, mclk, sclk, spdif, ref, and write them only if
\* all succeed.  Fields stored before a failing step stay stored.  ALSA
\* leaves the stream configured only when hw_params returns 0.
SetClkRate(rate, clkOk) ==
    LET srcOk   == ~params.ownsClk \/ (rate \in Family48k \cup Family44k /\ clkOk)
        src     == IF params.ownsClk /\ srcOk THEN SrcTarget(rate) ELSE srcClk
        sclkFs  == SclkFsMulti
        ratioOk == MclkRatioAccepted(mclk, rate, params.hasMclkSclkDiv, audioFmt, sclkFs)
        mclkDiv == CalcMclkDiv(mclk, rate, src, params.hasMclkSclkDiv, audioFmt, sclkFs)
        sclkDiv == CalcSclkDiv(mclk \div rate, sclkFs)
        refDiv  == CalcRefclkDiv(src, rate)
        ok      == /\ srcOk
                   /\ CalcFsDiv >= 0
                   /\ mclkDiv >= 0
                   /\ params.hasMclkSclkDiv => sclkDiv >= 0
                   /\ CalcSpdifclkDiv >= 0
                   /\ refDiv >= 0
    IN  /\ clkRate' = src
        /\ srcClk' = src
        /\ sampleRate' = IF srcOk THEN rate ELSE sampleRate
        /\ sclkFsDivider' = IF srcOk THEN sclkFs ELSE sclkFsDivider
        /\ mclkFsDivider' = IF srcOk /\ ratioOk THEN mclk \div rate ELSE mclkFsDivider
        /\ divReg' = IF ~ok THEN divReg
                     ELSE [divReg EXCEPT ![0] = mclkDiv, ![1] = CalcSpdifclkDiv,
                                         ![2] = CalcFsDiv, ![3] = refDiv,
                                         ![4] = IF params.hasMclkSclkDiv
                                                THEN sclkDiv ELSE @]
        /\ pcm' = IF ok THEN "ready" ELSE "open"

\* Results clk_set_rate may have: TRUE for success.
ClkOutcomes == IF ClkSetRateMayFail THEN BOOLEAN ELSE {TRUE}

\* FSSTA resolution and DMA bus width of csky_i2s_hw_params.
ResOf(w) == IF w = 16 THEN "RES16_FIFO16" ELSE "RES24_FIFO24"
WidthOf(w, ch) == IF w = 16 THEN (IF ch = 2 THEN 4 ELSE 2)
                  ELSE IF w = 24 THEN 3 ELSE 4

\* csky_i2s_hw_params: ALSA calls it in the OPEN, SETUP and PREPARED states.
HwParams(rate, w, ch, clkOk) ==
    /\ pcm \in {"open", "ready"}
    /\ ch <= 2
    /\ w \in {16, 24, 32}
    /\ fsstaRes' = ResOf(w)
    /\ addrWidth' = WidthOf(w, ch)
    /\ SetClkRate(rate, clkOk)
    /\ UNCHANGED <<params, mclk, audioFmt, cnfOut, audioEn, imrTxEmpty,
                   dmaTxEn, hdmi>>

\* csky_i2s_trigger with a start command: csky_i2s_start_playback.
TriggerStart(cmd) ==
    /\ cmd \in StartCmds
    /\ \E to \in PcmStates : <<pcm, cmd, to>> \in PcmTrans /\ pcm' = to
    /\ imrTxEmpty' = IF params.usePio THEN TRUE ELSE imrTxEmpty
    /\ dmaTxEn' = IF params.usePio THEN dmaTxEn ELSE TRUE
    /\ audioEn' = TRUE
    /\ hdmi' = IF HdmiBuilt /\ params.configHdmi
               THEN [rate |-> sampleRate, fmt |-> audioFmt] ELSE hdmi
    /\ UNCHANGED <<params, mclk, audioFmt, srcClk, sampleRate, sclkFsDivider,
                   mclkFsDivider, clkRate, divReg, cnfOut, fsstaRes, addrWidth>>

\* Seeded fault: stop_playback that leaves the FIFO interrupts unmasked.
TriggerStopKeepImr(cmd) ==
    /\ cmd \in StopCmds
    /\ \E to \in PcmStates : <<pcm, cmd, to>> \in PcmTrans /\ pcm' = to
    /\ dmaTxEn' = FALSE
    /\ audioEn' = FALSE
    /\ UNCHANGED <<params, mclk, audioFmt, srcClk, sampleRate, sclkFsDivider,
                   mclkFsDivider, clkRate, divReg, cnfOut, fsstaRes, addrWidth,
                   imrTxEmpty, hdmi>>

\* csky_i2s_trigger with a stop command: csky_i2s_stop_playback.
TriggerStop(cmd) ==
    /\ cmd \in StopCmds
    /\ \E to \in PcmStates : <<pcm, cmd, to>> \in PcmTrans /\ pcm' = to
    /\ imrTxEmpty' = FALSE
    /\ dmaTxEn' = FALSE
    /\ audioEn' = FALSE
    /\ UNCHANGED <<params, mclk, audioFmt, srcClk, sampleRate, sclkFsDivider,
                   mclkFsDivider, clkRate, divReg, cnfOut, fsstaRes, addrWidth,
                   hdmi>>

\* ALSA steps that call no callback of this driver (it has no hw_free and
\* no prepare): hw_free back to OPEN, prepare of a suspended stream.
HwFree ==
    /\ pcm = "ready"
    /\ pcm' = "open"
    /\ UNCHANGED <<params, mclk, audioFmt, srcClk, sampleRate, sclkFsDivider,
                   mclkFsDivider, clkRate, divReg, cnfOut, fsstaRes, addrWidth,
                   audioEn, imrTxEmpty, dmaTxEn, hdmi>>

PrepareSuspended ==
    /\ pcm = "suspended"
    /\ pcm' = "ready"
    /\ UNCHANGED <<params, mclk, audioFmt, srcClk, sampleRate, sclkFsDivider,
                   mclkFsDivider, clkRate, divReg, cnfOut, fsstaRes, addrWidth,
                   audioEn, imrTxEmpty, dmaTxEn, hdmi>>

Next ==
    \/ \E f \in FmtArgs : SetFmt(f)
    \/ \E freq \in MclkFreqs : SetDaiSysclk(freq)
    \/ \E rate \in Rates, w \in PhysWidths, ch \in Channels,
          clkOk \in ClkOutcomes :
           HwParams(rate, w, ch, clkOk)
    \/ \E cmd \in StartCmds : TriggerStart(cmd)
    \/ \E cmd \in StopCmds : TriggerStop(cmd)
    \/ HwFree
    \/ PrepareSuspended

Spec == Init /\ [][Next]_vars

-----------------------------------------------------------------------------
TypeOK ==
    /\ params \in [hasMclkSclkDiv : BOOLEAN, ownsClk : BOOLEAN,
                   usePio : BOOLEAN, configHdmi : BOOLEAN]
    /\ mclk \in Nat
    /\ audioFmt \in Formats
    /\ srcClk \in Nat
    /\ clkRate \in Nat
    /\ sampleRate \in Nat
    /\ sclkFsDivider \in Nat
    /\ mclkFsDivider \in Nat
    /\ divReg \in [DivIdx -> Int]
    /\ cnfOut \in [audfmt : Formats, pol : {"NORMAL", "INVERTED"},
                   ms : {"MASTER", "SLAVE"}]
    /\ fsstaRes \in {"RES16_FIFO16", "RES24_FIFO24"}
    /\ addrWidth \in {0, 2, 3, 4}
    /\ {audioEn, imrTxEmpty, dmaTxEn} \subseteq BOOLEAN
    /\ hdmi \in [rate : Nat, fmt : Formats \cup {"none"}]
    /\ pcm \in PcmStates

\* The mclk:sclk ratio the hardware applies: DIV4 on v1.1, the 1/8 or 1/4
\* wiring selected by the format field of IISCNF_OUT on v1.
MclkSclkRatioHw ==
    IF params.hasMclkSclkDiv THEN 2 * (divReg[4] + 1)
    ELSE V1MclkSclkRatio(cnfOut.audfmt)

\* While the stream is configured, the divider chain programmed by
\* csky_i2s_set_clk_rate turns the source clock into the mclk the machine
\* driver announced with set_sysclk (DIV0), and mclk through the mclk:sclk
\* stage and the sclk:fs divider (DIV2) into exactly the sample rate
\* hw_params accepted.  Breaks if a divider is miscomputed, if a check is
\* missing, or if the source clock, format or mclk change under it.
DividersRealizeRate ==
    pcm \in Configured =>
        /\ clkRate \div (2 * (divReg[0] + 1)) = mclk
        /\ mclk = sampleRate * MclkSclkRatioHw * (2 * (divReg[2] + 1))

\* Spec section 3: once computed, the cached ratio mclk_fs_divider is
\* mclk / sample_rate without remainder, and is 8 or 4 times
\* sclk_fs_divider by audio format on v1, one of 256, 384, 512, 768 on v1.1.
\* Read for the configured stream that csky_i2s_set_clk_rate computed it for.
CachedRatiosConsistent ==
    pcm \in Configured =>
        /\ mclkFsDivider * sampleRate = mclk
        /\ IF params.hasMclkSclkDiv
           THEN mclkFsDivider \in V11MclkFsRatios
           ELSE mclkFsDivider = V1MclkSclkRatio(audioFmt) * sclkFsDivider

\* The controller transmits exactly while ALSA considers the stream running:
\* start_playback arms the transport chosen at probe (TX-FIFO-empty interrupt
\* for PIO, TX DMA otherwise) and enables audio; every stop command, pause
\* and suspend included, disarms it and disables audio, and the other
\* transport is never armed.  An interrupt left unmasked after a stop would
\* let the PIO handler push samples for a stopped stream.
TransferArmedIffRunning ==
    /\ audioEn <=> pcm = "running"
    /\ (IF params.usePio THEN imrTxEmpty ELSE dmaTxEn) <=> pcm = "running"
    /\ ~(IF params.usePio THEN dmaTxEn ELSE imrTxEmpty)

\* What a successful csky_i2s_set_clk_rate leaves behind while the stream
\* stays configured: the accepted rate and mclk:fs ratio and the dividers
\* computed from them.  With the agreement of the cached and the register
\* format it is the inductive strengthening of DividersRealizeRate and
\* CachedRatiosConsistent.
ConfiguredInv ==
    /\ sampleRate \in Rates
    /\ sclkFsDivider = SclkFsMulti
    /\ MclkRatioAccepted(mclk, sampleRate, params.hasMclkSclkDiv, audioFmt,
                         SclkFsMulti)
    /\ mclkFsDivider = mclk \div sampleRate
    /\ divReg[0] \in Nat
    /\ clkRate \div (2 * (divReg[0] + 1)) = mclk
    /\ divReg[2] = CalcFsDiv
    /\ params.hasMclkSclkDiv => divReg[4] = CalcSclkDiv(mclkFsDivider, SclkFsMulti)

\* The inductive invariant of the proofs: the types hold, set_fmt wrote the
\* same format to IISCNF_OUT and to i2s->audio_fmt, and a configured stream
\* keeps everything a successful csky_i2s_set_clk_rate established.
IInv ==
    /\ TypeOK
    /\ cnfOut.audfmt = audioFmt
    /\ pcm \in Configured => ConfiguredInv

\* Comment of csky_i2s_calc_refclk_div: the reference clock of the 44.1 kHz
\* family is 2116.8 kHz and of the 48 kHz family 3072 kHz; the divider
\* csky_i2s_set_clk_rate writes to DIV3 produces it from the source clock.
RefClkRealized ==
    pcm \in Configured =>
        clkRate \div (2 * (divReg[3] + 1)) = RefClk(sampleRate)
=============================================================================
