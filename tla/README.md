# TLA+ models of the C-SKY I2S driver

This directory holds the formal models of the one component of this
repository that has behaviour: the ASoC CPU-DAI driver for the C-SKY I2S
controller, `src/addons/sound/soc/csky/csky-i2s.c`. There are TLA+ modules,
TLC configurations that model-check them, and TLAPS proofs.

## The system

`csky-i2s.c` is a platform driver. `csky_i2s_probe` runs when a device-tree
node `csky,i2s-v1` or `csky,i2s-v1.1` matches. It:

- maps the registers;
- requests the interrupt;
- takes the clocks (`i2s_clk`, optionally `audio_srcclk`, `clk-for-fs-48k`
  and `clk-for-fs-44k`) and reads the source clock rate;
- reads the FIFO thresholds;
- registers a DAI and either a PIO PCM or a dmaengine PCM.

After that the ASoC core drives the DAI through `csky_i2s_dai_ops`:

| callback | function | what it changes |
|---|---|---|
| set_fmt | `csky_i2s_set_fmt` (309-366) | `IISCNF_OUT` and `i2s->audio_fmt` |
| set_sysclk | `csky_i2s_set_dai_sysclk` (300-307) | `i2s->mclk` |
| hw_params | `csky_i2s_hw_params` (259-298), then `csky_i2s_set_clk_rate` (192-257) | `IIS_FSSTA` and the DMA width, then the source clock and the dividers |
| trigger | `csky_i2s_trigger` (396-426), which calls `start_playback` or `stop_playback` | `IIS_IMR`, `IIS_DMACR`, `IIS_AUDIOEN`, HDMI audio |

The divider calculators are `csky_i2s_calc_*_div` (71-190). They are pure
functions of the struct fields they read. They also store `mclk_fs_divider`
and `sclk_fs_divider`, which later callbacks read.

The clock chain is `src_clk -DIV0-> mclk -> sclk -DIV2-> fs`, with a
reference clock on DIV3. On v1 the mclk→sclk stage is fixed wiring: 1/8 for
I2S and left-justified, 1/4 for right-justified. On v1.1 it is the
programmable DIV4.

`src/drivers/pinctrl/pinctrl-eragon.c` holds only a licence header and
includes, so there is nothing in it to model.

### Inventory

| component | module | status |
|---|---|---|
| divider calculators (71-190) | `CskyI2sDividers` | modelled |
| hw_params / set_clk_rate | `CskyI2s` | modelled |
| set_fmt / set_sysclk | `CskyI2s` | modelled |
| trigger, start/stop_playback | `CskyI2s` | modelled |
| probe / dai_probe / remove, devm release | `CskyI2sProbe` (and `CskyI2s` for the state probe leaves) | modelled |
| IRQ handler | `CskyI2sProbe` (entry and return) | partly: the PIO push is not in this repository |
| what the DAI promises | `CskyI2sAbstract`, mapped by `CskyI2sRefinement` | modelled |
| the devm/free_irq lifetime contract | `CskyI2sLifetime`, mapped by `CskyI2sProbeRefinement` | modelled |
| dmaengine PCM registration | – | not modelled (external calls) |
| pinctrl-eragon | – | not modelled (no code) |

## Modules

### `CskyI2sDividers`

This module holds the calculators as operators. Their parameters are the
fields the C code reads.

- `CalcMclkDiv` keeps every early return of `csky_i2s_calc_mclk_div`:
  - mclk is not a multiple of fs;
  - the ratio check fails. On v1.1 the ratio must be one of 256, 384, 512
    or 768. On v1 it must be 8× or 4× `sclk_fs_divider`, by format;
  - the round-trip check `src_clk / 2 / (div+1) != mclk` fails.

  It also keeps the unsigned wrap of `src_clk/2/mclk - 1`: when the quotient
  is 0 the result is -1, and the round-trip check is skipped for it.
- `CalcRefclkDiv` truncates and has no check, just like the code.

### `CskyI2s`

This module models one controller after probe.

State:

- the struct fields: `mclk`, `audioFmt`, `srcClk`, `sampleRate`,
  `sclkFsDivider`, `mclkFsDivider`, `addrWidth`;
- the registers: `divReg` (DIV0-DIV4), `cnfOut`, `fsstaRes`, `audioEn`,
  `imrTxEmpty`, `dmaTxEn`;
- `clkRate`, the rate the source clock really runs at;
- `hdmi`, the last HDMI audio configuration;
- `params`, the probe-time choices: generation, whether the driver owns a
  programmable source clock, PIO or DMA, and whether HDMI is configured;
- `pcm`, the ALSA state of the playback substream.

Each callback is one action, because the ASoC core serialises the callbacks
of a stream.

- `SetFmt` and `SetDaiSysclk` are the setters.
- `HwParams` is the whole of `csky_i2s_hw_params` together with
  `csky_i2s_set_clk_rate`:
  - `clk_set_rate` may fail. The driver then keeps the old rate, which is
    `ClkOutcomes`.
  - `src_clk` and `sample_rate` are stored before the divider checks.
  - `mclk_fs_divider` is stored before the round-trip check.
  - The dividers are written only on success.
- `TriggerStart` and `TriggerStop` model the trigger callbacks.

Two environment actions model the ALSA core:

- `HwFree` is `hw_free` or a close;
- `PrepareSuspended` is a prepare after suspend.

The PCM states and the triples in `PcmTrans` restrict which trigger command
the core may send in which state.

The constant `LateSetters` says whether the machine driver may call set_fmt or
set_sysclk on a configured stream. ASoC machine drivers usually call them from
their own hw_params, before the DAI's own hw_params. Nothing in the driver
forbids a later call.

`ProbeInit` is the state probe leaves:

- the generation from the match table;
- `src_clk` from `clock-frequency` or from the clock;
- `sclk_fs_divider` from `sclk-fs-divider`, or 0;
- `audio_fmt = I2S`;
- `use_pio` from the interrupt thresholds.

`DaiInit` is what `csky_i2s_init` writes to the registers.

### `MC_CskyI2s`

This module gives the model values:

- rates 32 000, 44 100 and 48 000: both families, and v1 and v1.1 ratios;
- mclk 11.2896, 12.288 and 24.576 MHz: they give ratios 256, 384, 512 and 768,
  ratios that are not integers, and ratios the v1 wiring rejects;
- boot source clocks 24.576 and 49.152 MHz: divider 0 and a larger divider;
- family clocks 24.576 and 22.5792 MHz.

### `CskyI2sProbe`

This module models the life cycle of one device: probe, remove, and the
release of the devm resources that the driver core performs afterwards. It
does not model the rate logic.

State:

- `pc`: the step of probe, `bound`, `err_clk`, or the devres release
  (`devres`, `sync_irq`);
- `dt`: the device-tree node (`clock-frequency`, `dmas`, `fifo-depth`,
  `dma-tx-threshold`);
- `hnd` and `en`: the two clock handles (NULL, error pointer, valid) and the
  clock core's enable counts. `clkWarn` records an "already disabled" WARN;
- `devres`: the devm resources in order of acquisition (memory, register
  mapping, IRQ, component);
- `usePio`, `maxburst` (u32), `imr` (TX-FIFO-empty unmasked);
- `inIrq`: the handler is running on another CPU;
- `card` and `running`: the bound card and a running stream.

Actions:

- One action per fallible call or group of calls of `csky_i2s_probe`:
  `ProbeAlloc`, `ProbeRequestIrq`, `ProbeAudioClk`, `ProbeGateClk`,
  `ProbeFsClks`, `ProbeRegister`, `ProbePcm`. Each call in `MayFail` may
  fail, and the action then takes the code's exit (`return` or
  `goto err_clk`).
- `ProbeErrClk` and `I2sRemove` share `DisableClks`, the two
  `if (!IS_ERR(clk)) clk_disable_unprepare(clk)` lines.
- `ReleaseIrq`/`SyncIrq`, `ReleaseComponent` and `ReleaseMemory` release
  the resources last-in first-out. `SyncIrq` waits for a running handler, as
  `free_irq` does. `ReleaseComponent` stops a running stream.
- The environment: `IrqRaise`/`IrqHandle`, `CardBind` (`csky_i2s_dai_probe`
  → `csky_i2s_init`, which masks IMR), `StreamStart`/`StreamStop`.

`UintModulus` stands for 2^32. TLC's integers are 32-bit, so the runs use
65536. That is above every FIFO depth, so a wrap happens for the same
inputs.

`Spec` has no fairness conjunct, because no property of this model is a
liveness property. Once the IRQ is released, no step of the release can
block, so "the release finishes" would hold by weak fairness alone,
whatever the code does. The clock state it ends in is already
`ClkBalancedWhenUnbound`.

### `CskyI2sAbstract` and `CskyI2sRefinement`

`CskyI2sAbstract` is what the DAI promises to the ASoC core:

- a rate that is configured (`Configure`, `Unconfigure`, only when not
  playing);
- the fs the hardware produces, which equals that rate;
- playback that starts only when the stream is configured.

`CskyI2sRefinement` maps `CskyI2s` onto it:

- `rate` is `sample_rate` while the stream is configured, otherwise 0;
- `fs` is `RealizedFs`, the rate the programmed divider chain produces
  (DIV0, the mclk:sclk stage, DIV2);
- `playing` is `AUDIOEN`.

`AbsSpec` is the abstract specification under this mapping. It is a
PROPERTY of the run `refinement`.

### `CskyI2sLifetime` and `CskyI2sProbeRefinement`

`CskyI2sLifetime` states what the kernel's managed resources and
`free_irq` promise a platform driver. It has no probe steps, clocks or
streams, and four variables:

- `mapped`: the device memory and register window exist;
- `irqReg`: the interrupt handler is requested;
- `handler`: the handler is running;
- `registered`: the DAI component is registered.

Its actions are `Map`, `RequestIrq` and `Register`, which need `mapped`;
`FreeIrq`, after which a running handler may still finish; `Unregister`;
`HandlerEnter`, only while the IRQ is requested; `HandlerExit`; and `Unmap`,
only when nothing is requested or registered and no handler runs.

`CskyI2sProbeRefinement` maps `CskyI2sProbe` onto it:

- `mapped` is "the devm list holds the register mapping";
- `irqReg` is "the list holds the IRQ";
- `registered` is "the list holds the component";
- `handler` is `inIrq`.

The clock steps, `SyncIrq`, the free of the memory after the unmap, and the
card and stream steps are stutters. `LifetimeSpec` is the contract under
this mapping, a PROPERTY of the run `probe_lifetime`.

## Runs

| run | cfg | result | what it shows |
|---|---|---|---|
| core_safety | `MC_CskyI2s.cfg` | pass, 136 304 states | `TypeOK`, `DividersRealizeRate`, `CachedRatiosConsistent`, `TransferArmedIffRunning` and `IInv` hold on both generations, with fixed and programmable source clocks, a failing `clk_set_rate`, PIO and DMA, and every pause/suspend sequence. |
| refinement | `MC_CskyI2s_refine.cfg` | pass, 136 304 states | `CskyI2s` implements `CskyI2sAbstract` (`AbsSpec`). |
| late_setters | `MC_CskyI2s_late.cfg` | violation | With `LateSetters`, set_fmt(RIGHT_J) after a v1 hw_params leaves `mclk_fs_divider = 512` where 4·64 is required. The stream then runs at twice the rate. |
| refclk_44k | `MC_CskyI2s_ref.cfg` | violation | For 44.1 kHz with a 22.5792 MHz source, DIV3 = 4 gives 2.2579 MHz instead of the 2116.8 kHz the code's comment states, and hw_params still succeeds. |
| probe_lifecycle | `MC_CskyI2sProbe.cfg` | pass, 908 states | `TypeOK`, `ClkBalancedWhenUnbound`, `HandlerOnLiveDevice`, and their inductive forms `ClkInv` and `DevresInv`, with every probe call allowed to fail. |
| probe_no_warn | `MC_CskyI2sProbe_nowarn.cfg` | pass, 515 states | With every probe call able to fail except the gate's `clk_prepare_enable`, `NoClkWarn` and its inductive form `ClkWarnInv` hold: the WARN of `probe_gate_fail` has no other cause. |
| probe_lifetime | `MC_CskyI2sProbe_life.cfg` | pass, 908 states | `LifetimeSpec`: probe, remove, the devm release and the handler implement `CskyI2sLifetime`. A `free_irq` that does not wait for the handler breaks it. |
| probe_gate_fail | `MC_CskyI2sProbe_gate.cfg` | violation | `NoClkWarn`: when the gate's `clk_prepare_enable` fails, `err_clk` disables the gate it never enabled (line 728). |
| remove_unclocked | `MC_CskyI2sProbe_remove.cfg` | violation | `ClockedWhileReachable`: `err_clk` (726-729) and remove (738-741) disable the clocks while the devm IRQ and the component are still registered. |
| maxburst_wrap | `MC_CskyI2sProbe_burst.cfg` | violation | `MaxburstWithinFifo`, which is limited to DMA devices because only the dmaengine path reads `maxburst`. On a device with `dmas`, a `dma-tx-threshold` of 48 over a FIFO of 32 wraps `maxburst` (line 676) to 65520 (2^32 - 16 in the kernel), and probe succeeds. `csky_i2s_dai_probe` then hands it to the dmaengine PCM (line 496). |

Why these bounds are enough:

- Every early return of `set_clk_rate` is reached by some choice of mclk and
  rate.
- The round-trip check fails for one of the boot clocks.
- Both generations and both transports are in `Init`.
- The trigger commands cover every path of the PCM state machine.
- In the probe model, every fallible call may fail, so every exit of probe
  is taken. The interrupt, the bind and the stream may each happen between
  any two driver steps.
- A failed gate enable produces the WARN that `probe_gate_fail` reports.
  The guarded count in `DisableClks` keeps it from unbalancing the counts,
  so `probe_lifecycle` still passes. `remove_unclocked` keeps the gate
  enable from failing, so that its trace shows clocks that really were on
  being turned off under a running handler.

The data are few, but the arithmetic is exact; the proofs cover all values.

## Proofs (`CskyI2sProofs`, `CskyI2sRefinementProofs`, `CskyI2sProbeProofs`, `CskyI2sProbeRefinementProofs`)

All of these theorems are proved for every value of the constants that
satisfies `ConstAssumption`.

- `TypeCorrect`: `Spec => []TypeOK`.
- `RateRealized`: `~LateSetters => (Spec => []DividersRealizeRate)`.
- `RatiosConsistent`: `~LateSetters => (Spec => []CachedRatiosConsistent)`.
- `IInvHolds`: `~LateSetters => (Spec => []IInv)`.

The last three rest on `IInv`, which is:

- `TypeOK`;
- `cnfOut.audfmt = audioFmt`;
- `ConfiguredInv` for a configured stream.

`DividersRealizeRate` is not inductive by itself. It speaks of the realized
rates, while a step of `HwParams` recomputes them from the cached ratio and
from the format, so the invariant must also carry these facts:

- the ratio that was accepted;
- `sclk_fs_divider = 64`;
- DIV2 and DIV4 as computed;
- the register and cached formats agree.

`IInvStep` takes one case per action. The arithmetic behind it is in these
lemmas:

- `DivExact`: an exact division times the divisor gives back the dividend.
- `RatioAcceptedPositive` and `MclkDivSound`.
- `ChainArith`: mclk = fs · ratio, split over the v1.1 ratios and the v1
  8/4 wiring.

- `TransferArmed`: `Spec => []TransferArmedIffRunning`, with no assumption
  on the setters. The lemma `ArmedStep` takes one case per action. For the
  trigger actions it uses `TriggerTargets`, which gives the target state of
  each PCM transition.

`Refinement` (`CskyI2sRefinementProofs`) is
`~LateSetters => (Spec => AbsSpec)`. It rests on the invariant
`RInv == IInv /\ TransferArmedIffRunning /\ RealizedOk`, where
`RealizedOk` says that a configured stream's `RealizedFs` equals
`sample_rate`.

- `RealizedIsRate` derives `RealizedOk` from `IInv` by dividing out the
  chain: `MulDivCancel` and `HwRatioPositive`, which says the mclk:sclk
  stage divides by a positive number.
- `AbsInit` maps the initial states.
- `AbsStep` maps every step:
  - hw_params is a `Configure` or an `Unconfigure`;
  - the trigger start and stop are `Start` and `Stop`;
  - `hw_free` is `Unconfigure`;
  - every other step is a stutter (`AbsUnchanged`).

`RealizedOk` sits in the invariant, rather than being cited as a lemma on
the primed state, so that PTL can combine the steps.

### The probe model (`CskyI2sProbeProofs`)

These theorems hold for every device tree, every set `MayFail` of failing
calls and every FIFO depth and threshold that satisfies
`ProbeConstAssumption`:

- `ProbeTypeCorrect`: `Spec => []TypeOK`. The enable counts never go
  negative and `maxburst` stays within u32.
- `ClocksBalanced`: `Spec => []ClkBalancedWhenUnbound`.
- `HandlerSafe`: `Spec => []HandlerOnLiveDevice`.
- `ClkInvHolds` and `DevresInvHolds`: `Spec => []ClkInv` and
  `Spec => []DevresInv`, the two strengthenings below.
- `NoWarnUnlessGateEnableFails`:
  `"clk_enable_gate" \notin MayFail => (Spec => []NoClkWarn)`.

Neither `ClkBalancedWhenUnbound` nor `HandlerOnLiveDevice` is inductive by itself, so each rests on a strengthening
that TLC also checks in `probe_lifecycle`:

- `ClkInv`: each clock is enabled at most once, and only through a valid
  handle. No clock is enabled before probe enables it, or once `err_clk`
  or remove has run. Without it, a step of `DisableClks` from an arbitrary
  state could leave a count above zero.
- `DevresInv`: the devm list is a prefix of the acquisition order
  (`DevresOrder`: memory, mapping, IRQ, component). Its length is fixed by
  the step probe or the release has reached. A running handler has its IRQ
  still registered, or is being waited for in `sync_irq`. This is what
  rules out `ReleaseMemory` while a handler runs: the newest resource is
  then the mapping or the memory, so the IRQ is already gone and `SyncIrq`
  has waited.

The lemmas cover the sequence operations:

- `FrontProps` and `ReleaseFront`: `Front` drops the newest resource.
- `AppendNext`: `Append` adds the next one.
- `LastPosition`, `OrderIndex` and `DevresPosition`: where each kind sits
  in the order.

`NoWarnUnlessGateEnableFails` rests on `ClkWarnInv` together with
`ClkInv`. `ClkWarnInv` says:

- no WARN has happened;
- probe starts from NULL handles;
- the gate handle is still NULL when the gate step begins;
- from the gate step to `bound` and `err_clk`, every clock with a valid
  handle holds exactly one enable.

`DisableClks` then never meets a valid handle with a count of 0. The only
step that breaks this is a gate `clk_prepare_enable` that fails after a
successful `devm_clk_get`, which is the finding of `probe_gate_fail`. The
hypothesis excludes that step and nothing else: every other call may
still fail.

The provers do not prove `Len(s) \in 1..4` from `1 <= Len(s) <= 4`, so the
invariants state such bounds as inequalities.

### The lifetime refinement (`CskyI2sProbeRefinementProofs`)

- `ProbeImplementsLifetime`: `Spec => LifetimeSpec` for the driver.
  - `LifeInit`: the initial states map to initial states.
  - `LifeStep`: every step maps to a contract step or a stutter, with one
    case per action.
  - `DevresInv` is what makes the mapping tractable. `HeldIff` shows that a
    prefix of the acquisition order holds the mapping, the IRQ or the
    component exactly when its length is at least 2, 3 or 4, so the
    contract's state is read off `Len(devres)`.
  - `ReleaseMemory` of the mapping is an `Unmap`, because `DevresInv`
    gives `~inIrq` once the list is that short.
- `ProbeNoUseAfterFree`: `Spec => []Life!NoUseAfterFree`. In every
  reachable state of the driver, the register window exists while the IRQ
  is requested, the handler runs or the DAI is registered. The proof works
  on the driver's own state: `DevresInv` with `LifeState` gives the list
  length of at least 2 that this needs. It is not derived from the
  contract, where the same statement holds by definition.

The step lemma takes `TypeOK'` and `DevresInv'` as a step of its own
rather than as hypotheses. With a primed, unexpanded definition among its
hypotheses, the SMT backend rejects every obligation of the lemma.

## Not proved, only model-checked

- `TransferArmedIffRunning` and `AbsSpec` are also run through TLC.
- The violations.

## Not modelled

- `csky_pcm_pio_push_tx`, `csky_pcm_pio_register` and the dmaengine PCM
  calls: their code is outside this repository. Only their success or
  failure is modelled.
- `SNDRV_PCM_INFO_RESUME` (line 529). Whether the controller keeps its
  registers in system suspend is a property of the SoC. There is no register
  loss step.
- `pinctrl-eragon.c` has no code.

## Plan

1. **Divider reference run**: the operators of `CskyI2sDividers` compared
   with the reference calculation of spec §8 over bounded inputs. This
   includes the spec's acceptance of a negative DIV0, which the orchestration
   rejects.
2. **More proofs**: an action property that a failed hw_params never changes
   the dividers.
3. **Composition**: the probe model's card and stream steps replaced by
   `CskyI2s` through INSTANCE.
