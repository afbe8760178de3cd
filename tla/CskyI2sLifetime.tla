--------------------------- MODULE CskyI2sLifetime ---------------------------
(***************************************************************************)
(* What the kernel's managed-resource and IRQ contracts promise a platform *)
(* driver such as the C-SKY I2S driver, without probe steps, clocks or     *)
(* streams: the device's memory and register window exist before anything *)
(* that can call back into the driver is registered, an interrupt handler  *)
(* is entered only while its IRQ is requested, and the memory goes only     *)
(* once nothing is registered and no handler is still running (free_irq    *)
(* waits for it).                                                          *)
(*                                                                         *)
(*   mapped      struct csky_i2s and the register window are live          *)
(*   irqReg      the interrupt handler is requested                        *)
(*   handler     the interrupt handler is running                          *)
(*   registered  the DAI component is registered with ASoC                 *)
(***************************************************************************)
VARIABLES mapped, irqReg, handler, registered

lifeVars == <<mapped, irqReg, handler, registered>>

Init ==
    /\ mapped = FALSE
    /\ irqReg = FALSE
    /\ handler = FALSE
    /\ registered = FALSE

Map ==
    /\ ~mapped
    /\ mapped' = TRUE
    /\ UNCHANGED <<irqReg, handler, registered>>

RequestIrq ==
    /\ mapped /\ ~irqReg
    /\ irqReg' = TRUE
    /\ UNCHANGED <<mapped, handler, registered>>

\* The handler is unregistered; one already running may still finish.
FreeIrq ==
    /\ irqReg
    /\ irqReg' = FALSE
    /\ UNCHANGED <<mapped, handler, registered>>

Register ==
    /\ mapped /\ ~registered
    /\ registered' = TRUE
    /\ UNCHANGED <<mapped, irqReg, handler>>

Unregister ==
    /\ registered
    /\ registered' = FALSE
    /\ UNCHANGED <<mapped, irqReg, handler>>

Unmap ==
    /\ mapped /\ ~irqReg /\ ~handler /\ ~registered
    /\ mapped' = FALSE
    /\ UNCHANGED <<irqReg, handler, registered>>

HandlerEnter ==
    /\ irqReg /\ ~handler
    /\ handler' = TRUE
    /\ UNCHANGED <<mapped, irqReg, registered>>

HandlerExit ==
    /\ handler
    /\ handler' = FALSE
    /\ UNCHANGED <<mapped, irqReg, registered>>

Next ==
    \/ Map \/ RequestIrq \/ FreeIrq \/ Register \/ Unregister \/ Unmap
    \/ HandlerEnter \/ HandlerExit

Spec == Init /\ [][Next]_lifeVars

\* Nothing that calls back into the driver, a requested IRQ, a running
\* handler or a registered DAI, outlives the memory it uses.
NoUseAfterFree == (irqReg \/ handler \/ registered) => mapped
=============================================================================
