---------------------------- MODULE CskyI2sProbe ----------------------------
(***************************************************************************)
(* Life cycle of one C-SKY I2S device (sound/soc/csky/csky-i2s.c): the     *)
(* steps of csky_i2s_probe with every error exit, csky_i2s_remove, and the *)
(* release of the devm-managed resources the driver core performs after    *)
(* probe fails or remove returns, in reverse order of acquisition.  Three  *)
(* actors run concurrently with these steps: the interrupt handler on      *)
(* another CPU, the ASoC core binding the card (dai_probe ->                *)
(* csky_i2s_init) and a user starting and stopping playback.               *)
(*                                                                         *)
(* Clocks follow the common clock framework: clk_prepare_enable counts up, *)
(* clk_disable_unprepare counts down, is a no-op on a NULL clock and WARNs *)
(* ("already disabled") and does nothing when the count is 0.  Whether the *)
(* controller is clocked is decided by those counts, except when the       *)
(* device tree gives "clock-frequency": the driver then manages no clock   *)
(* and the controller is clocked by the board.                             *)
(***************************************************************************)
EXTENDS Integers, SequencesExt

CONSTANTS
    MayFail,            \* the calls of probe that may fail (FailPoints)
    DtClockFrequency,   \* "clock-frequency" present in the device tree
    DtDmas,             \* "dmas" present: use_pio = FALSE
    DtFifoDepths,       \* "fifo-depth" (32 when absent)
    DtDmaTxThresholds,  \* "dma-tx-threshold" (16 when absent)
    BootImrUnmasked,    \* IIS_IMR as left by reset or the boot loader
    UintModulus         \* 2^32 for u32; TLC runs use a smaller power of two
                        \* above every FIFO depth, where a wrap lands alike

FailPoints == {"ioremap", "get_irq", "request_irq", "clk_get_audio",
               "clk_enable_audio", "clk_get_gate", "clk_enable_gate",
               "clk_get_fs", "register_component", "alloc_pcm_conf",
               "register_pcm"}

ASSUME ProbeConstAssumption ==
    /\ MayFail \subseteq FailPoints
    /\ DtClockFrequency \subseteq BOOLEAN /\ DtClockFrequency # {}
    /\ DtDmas \subseteq BOOLEAN /\ DtDmas # {}
    /\ DtFifoDepths \subseteq Nat /\ DtFifoDepths # {}
    /\ DtDmaTxThresholds \subseteq Nat /\ DtDmaTxThresholds # {}
    /\ BootImrUnmasked \subseteq BOOLEAN /\ BootImrUnmasked # {}
    /\ UintModulus \in Nat /\ \A d \in DtFifoDepths : d < UintModulus

VARIABLES
    pc,         \* where the driver is: a step of probe, bound, or releasing
    dt,         \* the device-tree node: [clockFreq, dmas, fifo, thr]
    hnd,        \* i2s->i2s_clk, i2s->i2s_clk_gate: "null", "err" or "ok"
    en,         \* enable count of the "audio" and "gate" clocks
    clkWarn,    \* the clock core warned of a disable of a disabled clock
    devres,     \* devm resources of the device, in order of acquisition
    usePio,     \* i2s->use_pio
    maxburst,   \* i2s->playback_dma_data.maxburst (u32)
    imr,        \* TX-FIFO-empty interrupt unmasked in IIS_IMR
    inIrq,      \* csky_i2s_irq_handler is running
    card,       \* the sound card using the DAI is bound
    running     \* a playback stream is running

vars == <<pc, dt, hnd, en, clkWarn, devres, usePio, maxburst, imr, inIrq,
          card, running>>

Clks == {"audio", "gate"}
PcStates == {"idle", "request_irq", "get_audio", "get_gate", "get_fs",
             "config", "pcm", "err_clk", "bound", "devres", "sync_irq"}
DevresKinds == {"mem", "regs", "irq", "component"}
DtNodes == [clockFreq : DtClockFrequency, dmas : DtDmas,
            fifo : DtFifoDepths, thr : DtDmaTxThresholds]

\* The outcomes of a call that may fail.
Succeeds(p) == IF p \in MayFail THEN BOOLEAN ELSE {TRUE}

InDevres(r) == Contains(devres, r)

\* The controller's registers can be accessed and it can raise interrupts.
Clocked == dt.clockFreq \/ \A c \in Clks : en[c] > 0

Init ==
    /\ pc = "idle"
    /\ dt \in DtNodes
    /\ hnd = [c \in Clks |-> "null"]
    /\ en = [c \in Clks |-> 0]
    /\ clkWarn = FALSE
    /\ devres = <<>>
    /\ usePio = FALSE
    /\ maxburst = 0
    /\ imr \in BootImrUnmasked
    /\ inIrq = FALSE
    /\ card = FALSE
    /\ running = FALSE

-----------------------------------------------------------------------------
(* csky_i2s_probe, one action per call that may fail or that another      *)
(* actor can observe.  A failed devm_kzalloc of struct csky_i2s changes    *)
(* nothing and is left out.                                                *)

\* Seeded fault: struct csky_i2s reused from an earlier bind instead of
\* zero-allocated, so the clock handles of that bind survive.
ProbeAllocKeepHnd ==
    /\ pc = "idle"
    /\ usePio' = FALSE
    /\ \/ /\ "ioremap" \in MayFail
          /\ devres' = <<"mem">>
          /\ pc' = "devres"
       \/ /\ "get_irq" \in MayFail
          /\ devres' = <<"mem", "regs">>
          /\ pc' = "devres"
       \/ /\ devres' = <<"mem", "regs">>
          /\ pc' = "request_irq"
    /\ UNCHANGED <<dt, hnd, en, clkWarn, maxburst, imr, inIrq, card, running>>

\* devm_kzalloc, of_match_device, devm_ioremap_resource, platform_get_irq.
ProbeAlloc ==
    /\ pc = "idle"
    /\ hnd' = [c \in Clks |-> "null"]
    /\ usePio' = FALSE
    /\ \/ /\ "ioremap" \in MayFail
          /\ devres' = <<"mem">>
          /\ pc' = "devres"
       \/ /\ "get_irq" \in MayFail
          /\ devres' = <<"mem", "regs">>
          /\ pc' = "devres"
       \/ /\ devres' = <<"mem", "regs">>
          /\ pc' = "request_irq"
    /\ UNCHANGED <<dt, en, clkWarn, maxburst, imr, inIrq, card, running>>

\* Seeded fault: the interrupt requested before the registers are mapped.
ProbeRequestIrqFirst ==
    /\ pc = "request_irq"
    /\ devres' = InsertAt(devres, 2, "irq")
    /\ pc' = IF dt.clockFreq THEN "config" ELSE "get_audio"
    /\ UNCHANGED <<dt, hnd, en, clkWarn, usePio, maxburst, imr, inIrq, card,
                   running>>

\* devm_request_irq: from here on the handler may run.
ProbeRequestIrq ==
    /\ pc = "request_irq"
    /\ \E ok \in Succeeds("request_irq") :
          /\ devres' = IF ok THEN Append(devres, "irq") ELSE devres
          /\ pc' = IF ~ok THEN "devres"
                   ELSE IF dt.clockFreq THEN "config" ELSE "get_audio"
    /\ UNCHANGED <<dt, hnd, en, clkWarn, usePio, maxburst, imr, inIrq, card,
                   running>>

\* Seeded fault: a failed enable of the audio clock goes to err_clk.
ProbeAudioClkErrClk ==
    /\ pc = "get_audio"
    /\ \E got \in Succeeds("clk_get_audio"), on \in Succeeds("clk_enable_audio") :
          /\ hnd' = [hnd EXCEPT !["audio"] = IF got THEN "ok" ELSE "err"]
          /\ en' = IF got /\ on THEN [en EXCEPT !["audio"] = @ + 1] ELSE en
          /\ pc' = IF got /\ on THEN "get_gate"
                   ELSE IF got THEN "err_clk" ELSE "devres"
    /\ UNCHANGED <<dt, clkWarn, devres, usePio, maxburst, imr, inIrq, card,
                   running>>

\* No "clock-frequency": devm_clk_get(audio) and clk_prepare_enable; both
\* failures return without unwinding.
ProbeAudioClk ==
    /\ pc = "get_audio"
    /\ \E got \in Succeeds("clk_get_audio"), on \in Succeeds("clk_enable_audio") :
          /\ hnd' = [hnd EXCEPT !["audio"] = IF got THEN "ok" ELSE "err"]
          /\ en' = IF got /\ on THEN [en EXCEPT !["audio"] = @ + 1] ELSE en
          /\ pc' = IF got /\ on THEN "get_gate" ELSE "devres"
    /\ UNCHANGED <<dt, clkWarn, devres, usePio, maxburst, imr, inIrq, card,
                   running>>

\* devm_clk_get(gate) and clk_prepare_enable; both failures go to err_clk.
ProbeGateClk ==
    /\ pc = "get_gate"
    /\ \E got \in Succeeds("clk_get_gate"), on \in Succeeds("clk_enable_gate") :
          /\ hnd' = [hnd EXCEPT !["gate"] = IF got THEN "ok" ELSE "err"]
          /\ en' = IF got /\ on THEN [en EXCEPT !["gate"] = @ + 1] ELSE en
          /\ pc' = IF got /\ on THEN "get_fs" ELSE "err_clk"
    /\ UNCHANGED <<dt, clkWarn, devres, usePio, maxburst, imr, inIrq, card,
                   running>>

\* devm_clk_get of clk-for-fs-44k and clk-for-fs-48k, only their rates kept.
ProbeFsClks ==
    /\ pc = "get_fs"
    /\ \E ok \in Succeeds("clk_get_fs") : pc' = IF ok THEN "config" ELSE "err_clk"
    /\ UNCHANGED <<dt, hnd, en, clkWarn, devres, usePio, maxburst, imr, inIrq,
                   card, running>>

\* The device-tree properties, maxburst in u32 arithmetic, and
\* devm_snd_soc_register_component, after which the card may bind.
ProbeRegister ==
    /\ pc = "config"
    /\ usePio' = ~dt.dmas
    /\ maxburst' = (dt.fifo - dt.thr) % UintModulus
    /\ \E ok \in Succeeds("register_component") :
          /\ devres' = IF ok THEN Append(devres, "component") ELSE devres
          /\ pc' = IF ok THEN "pcm" ELSE "err_clk"
    /\ UNCHANGED <<dt, hnd, en, clkWarn, imr, inIrq, card, running>>

\* devm_kzalloc of pcm_conf and csky_pcm_pio_register or
\* csky_snd_dmaengine_pcm_register; config-hdmi is read on success.
ProbePcm ==
    /\ pc = "pcm"
    /\ \E alloc \in Succeeds("alloc_pcm_conf"), reg \in Succeeds("register_pcm") :
          pc' = IF alloc /\ reg THEN "bound" ELSE "err_clk"
    /\ UNCHANGED <<dt, hnd, en, clkWarn, devres, usePio, maxburst, imr, inIrq,
                   card, running>>

\* Seeded fault: the count decremented without the zero check, as when a
\* clock is disabled on a path that never enabled it.
DisableClksUnguarded ==
    LET live == {c \in Clks : hnd[c] = "ok"}
    IN  /\ en' = [c \in Clks |-> IF c \in live THEN en[c] - 1 ELSE en[c]]
        /\ clkWarn' = (clkWarn \/ \E c \in live : en[c] = 0)

\* "if (!IS_ERR(clk)) clk_disable_unprepare(clk)" for i2s_clk then
\* i2s_clk_gate, as err_clk and csky_i2s_remove both do.  A NULL clock (the
\* "clock-frequency" case, or a clock not reached yet) is a no-op.
DisableClks ==
    LET live == {c \in Clks : hnd[c] = "ok"}
    IN  /\ en' = [c \in Clks |-> IF c \in live /\ en[c] > 0 THEN en[c] - 1
                                 ELSE en[c]]
        /\ clkWarn' = (clkWarn \/ \E c \in live : en[c] = 0)

\* Seeded fault: err_clk without the disable of i2s_clk.
ProbeErrClkGateOnly ==
    /\ pc = "err_clk"
    /\ en' = [en EXCEPT !["gate"] = IF hnd["gate"] = "ok" /\ @ > 0 THEN @ - 1
                                    ELSE @]
    /\ clkWarn' = (clkWarn \/ (hnd["gate"] = "ok" /\ en["gate"] = 0))
    /\ pc' = "devres"
    /\ UNCHANGED <<dt, hnd, devres, usePio, maxburst, imr, inIrq, card, running>>

\* The err_clk exit of csky_i2s_probe.
ProbeErrClk ==
    /\ pc = "err_clk"
    /\ DisableClks
    /\ pc' = "devres"
    /\ UNCHANGED <<dt, hnd, devres, usePio, maxburst, imr, inIrq, card, running>>

\* csky_i2s_remove (unbind or module unload); csky_snd_dmaengine_pcm_unregister
\* is outside this driver.
I2sRemove ==
    /\ pc = "bound"
    /\ DisableClks
    /\ pc' = "devres"
    /\ UNCHANGED <<dt, hnd, devres, usePio, maxburst, imr, inIrq, card, running>>
-----------------------------------------------------------------------------
(* Release of the devm resources after probe failed or remove returned,   *)
(* last acquired first.                                                    *)

\* free_irq: the handler is unregistered, then synchronize_irq waits for a
\* running handler.
ReleaseIrq ==
    /\ pc = "devres"
    /\ devres # <<>> /\ Last(devres) = "irq"
    /\ devres' = Front(devres)
    /\ pc' = "sync_irq"
    /\ UNCHANGED <<dt, hnd, en, clkWarn, usePio, maxburst, imr, inIrq, card,
                   running>>

\* Seeded fault: the IRQ released without waiting for a running handler,
\* as with disable_irq_nosync instead of free_irq.
SyncIrqNoWait ==
    /\ pc = "sync_irq"
    /\ pc' = "devres"
    /\ UNCHANGED <<dt, hnd, en, clkWarn, devres, usePio, maxburst, imr, inIrq,
                   card, running>>

SyncIrq ==
    /\ pc = "sync_irq"
    /\ ~inIrq
    /\ pc' = "devres"
    /\ UNCHANGED <<dt, hnd, en, clkWarn, devres, usePio, maxburst, imr, inIrq,
                   card, running>>

\* snd_soc_unregister_component: the card unbinds; a running stream is
\* stopped first (trigger STOP -> csky_i2s_stop_playback masks IMR).
ReleaseComponent ==
    /\ pc = "devres"
    /\ devres # <<>> /\ Last(devres) = "component"
    /\ devres' = Front(devres)
    /\ card' = FALSE
    /\ running' = FALSE
    /\ imr' = IF running THEN FALSE ELSE imr
    /\ UNCHANGED <<pc, dt, hnd, en, clkWarn, usePio, maxburst, inIrq>>

\* devm_iounmap and the free of struct csky_i2s.
ReleaseMemory ==
    /\ pc = "devres"
    /\ devres # <<>> /\ Last(devres) \in {"mem", "regs"}
    /\ devres' = Front(devres)
    /\ UNCHANGED <<pc, dt, hnd, en, clkWarn, usePio, maxburst, imr, inIrq,
                   card, running>>

Unbound ==
    /\ pc = "devres"
    /\ devres = <<>>
    /\ pc' = "idle"
    /\ UNCHANGED <<dt, hnd, en, clkWarn, devres, usePio, maxburst, imr, inIrq,
                   card, running>>
-----------------------------------------------------------------------------
(* The concurrent actors.                                                 *)

\* The controller raises its interrupt on a CPU other than the one running
\* probe or remove.
IrqRaise ==
    /\ InDevres("irq") /\ imr /\ Clocked /\ ~inIrq
    /\ inIrq' = TRUE
    /\ UNCHANGED <<pc, dt, hnd, en, clkWarn, devres, usePio, maxburst, imr,
                   card, running>>

\* csky_i2s_irq_handler: reads IIS_ISR, clears IIS_FICR and, for PIO,
\* pushes samples (csky_pcm_pio_push_tx); it returns IRQ_HANDLED.
IrqHandle ==
    /\ inIrq
    /\ inIrq' = FALSE
    /\ UNCHANGED <<pc, dt, hnd, en, clkWarn, devres, usePio, maxburst, imr,
                   card, running>>

\* The card binds: csky_i2s_dai_probe -> csky_i2s_init masks IIS_IMR.
CardBind ==
    /\ InDevres("component") /\ ~card
    /\ card' = TRUE
    /\ imr' = FALSE
    /\ UNCHANGED <<pc, dt, hnd, en, clkWarn, devres, usePio, maxburst, inIrq,
                   running>>

\* trigger START: csky_i2s_start_playback unmasks TX-FIFO-empty for PIO.
StreamStart ==
    /\ card /\ ~running
    /\ running' = TRUE
    /\ imr' = (usePio \/ imr)
    /\ UNCHANGED <<pc, dt, hnd, en, clkWarn, devres, usePio, maxburst, inIrq,
                   card>>

\* trigger STOP: csky_i2s_stop_playback masks it.
StreamStop ==
    /\ running
    /\ running' = FALSE
    /\ imr' = FALSE
    /\ UNCHANGED <<pc, dt, hnd, en, clkWarn, devres, usePio, maxburst, inIrq,
                   card>>

DriverStep ==
    \/ ProbeRequestIrq \/ ProbeAudioClk \/ ProbeGateClk \/ ProbeFsClks
    \/ ProbeRegister \/ ProbePcm \/ ProbeErrClk
    \/ ReleaseIrq \/ SyncIrq \/ ReleaseComponent \/ ReleaseMemory \/ Unbound

Next ==
    \/ ProbeAlloc \/ DriverStep \/ I2sRemove
    \/ IrqRaise \/ IrqHandle \/ CardBind \/ StreamStart \/ StreamStop

Spec == Init /\ [][Next]_vars
-----------------------------------------------------------------------------
TypeOK ==
    /\ pc \in PcStates
    /\ dt \in DtNodes
    /\ hnd \in [Clks -> {"null", "err", "ok"}]
    /\ en \in [Clks -> Nat]
    /\ clkWarn \in BOOLEAN
    /\ devres \in Seq(DevresKinds)
    /\ usePio \in BOOLEAN
    /\ maxburst \in 0..(UintModulus - 1)
    /\ {imr, inIrq, card, running} \subseteq BOOLEAN

\* After a failed probe or a remove, once the devm resources are released,
\* no clock is left enabled: every exit of csky_i2s_probe and
\* csky_i2s_remove undoes exactly the clk_prepare_enable calls that
\* succeeded, so a later probe starts from a disabled controller.
ClkBalancedWhenUnbound ==
    pc = "idle" => \A c \in Clks : en[c] = 0

\* The interrupt handler only runs while struct csky_i2s and the register
\* mapping exist: devm_request_irq comes after devm_ioremap_resource, so
\* free_irq, which waits for a running handler, precedes the unmap.
HandlerOnLiveDevice ==
    inIrq => InDevres("mem") /\ InDevres("regs")

\* clk_disable_unprepare is never called on a clock this driver did not
\* enable (the clock core's "already disabled" WARN).
NoClkWarn == ~clkWarn

\* While the DAI is registered with ASoC (its callbacks may touch the
\* registers) or the interrupt handler is running, the controller is
\* clocked.
ClockedWhileReachable ==
    (InDevres("component") \/ inIrq) => Clocked

\* A bound device that transfers by DMA hands the DMA engine a burst no
\* larger than its FIFO: maxburst (playback_dma_data, read only on the
\* dmaengine path) is the FIFO space above the DMA transmit threshold.
MaxburstWithinFifo ==
    pc = "bound" /\ ~usePio => maxburst <= dt.fifo

\* The devm resources in the order csky_i2s_probe acquires them.
DevresOrder == <<"mem", "regs", "irq", "component">>

\* The devm list is always a prefix of the acquisition order whose length
\* is fixed by the step probe or the release has reached, and a running
\* handler has its IRQ still registered or is being waited for by free_irq.
\* This is the inductive form of HandlerOnLiveDevice.
DevresInv ==
    /\ Len(devres) <= 4
    /\ \A i \in 1..Len(devres) : devres[i] = DevresOrder[i]
    /\ pc = "idle" => Len(devres) = 0
    /\ pc \in {"request_irq", "sync_irq"} => Len(devres) = 2
    /\ pc \in {"get_audio", "get_gate", "get_fs", "config"} => Len(devres) = 3
    /\ pc \in {"pcm", "bound"} => Len(devres) = 4
    /\ pc = "err_clk" => Len(devres) >= 3
    /\ inIrq => Len(devres) >= 3 \/ pc = "sync_irq"

\* Each clock is enabled at most once, only through a valid handle, and not
\* at all before probe enables it or once err_clk or remove has run.  This
\* is the inductive form of ClkBalancedWhenUnbound.
ClkInv ==
    /\ \A c \in Clks : en[c] \in {0, 1} /\ (en[c] = 1 => hnd[c] = "ok")
    /\ pc \in {"idle", "request_irq", "get_audio", "devres", "sync_irq"} =>
          \A c \in Clks : en[c] = 0
    /\ pc = "get_gate" => en["gate"] = 0

\* Whenever err_clk or csky_i2s_remove can be reached, every clock with a
\* valid handle holds the enable probe made, and a clock handle only
\* becomes valid at the step that gets and enables it: probe resets both
\* handles, takes the audio clock before the gate clock, and leaves for
\* the bare return or err_clk when either fails.  With ClkInv, this is the
\* inductive form of NoClkWarn when clk_prepare_enable of the gate clock
\* cannot fail.
ClkWarnInv ==
    /\ ~clkWarn
    /\ pc \in {"request_irq", "get_audio"} => hnd = [c \in Clks |-> "null"]
    /\ pc = "get_gate" => hnd["gate"] = "null"
    /\ pc \in {"get_gate", "get_fs", "config", "pcm", "err_clk", "bound"} =>
          \A c \in Clks : hnd[c] = "ok" => en[c] = 1
=============================================================================
