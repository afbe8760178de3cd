---------------------- MODULE CskyI2sProbeRefinement ----------------------
(***************************************************************************)
(* CskyI2sProbe implements CskyI2sLifetime.  The device is mapped while    *)
(* the devm list holds the register window, its IRQ is requested while the *)
(* list holds the IRQ, its DAI is registered while the list holds the      *)
(* component, and a handler runs while csky_i2s_irq_handler does.  Steps   *)
(* of probe, remove and the release that touch none of these (the clock    *)
(* steps, the wait of free_irq, the free of struct csky_i2s after the      *)
(* unmap) and the card and stream steps are stutters of the contract.      *)
(***************************************************************************)
EXTENDS CskyI2sProbe

Life == INSTANCE CskyI2sLifetime WITH mapped <- InDevres("regs"),
                                      irqReg <- InDevres("irq"),
                                      handler <- inIrq,
                                      registered <- InDevres("component")

\* The probe, remove and devm release of the driver keep the lifetime
\* contract: the register window is mapped before the IRQ is requested and
\* the DAI registered, the handler is entered only while its IRQ is
\* requested, and the window is unmapped only once the IRQ is freed, the
\* DAI unregistered and no handler runs, whatever fails in probe.
LifetimeSpec == Life!Spec
=============================================================================
