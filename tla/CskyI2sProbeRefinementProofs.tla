------------------- MODULE CskyI2sProbeRefinementProofs -------------------
(***************************************************************************)
(* Proof that the probe, remove and devm release of CskyI2sProbe implement *)
(* the lifetime contract CskyI2sLifetime.  The invariant it rests on is    *)
(* DevresInv: the devm list is a prefix of the acquisition order, so which *)
(* resources it holds is fixed by its length, and each step of the driver  *)
(* moves that length by one at most.                                       *)
(***************************************************************************)
EXTENDS CskyI2sProbeRefinement, CskyI2sProbeProofs, SequenceTheorems, TLAPS

\* A prefix of the acquisition order holds a resource exactly when it is
\* long enough to reach that resource's place.
LEMMA HeldIff ==
    ASSUME NEW s \in Seq(DevresKinds), Len(s) <= 4,
           \A i \in 1..Len(s) : s[i] = DevresOrder[i]
    PROVE  /\ Contains(s, "regs") <=> Len(s) >= 2
           /\ Contains(s, "irq") <=> Len(s) >= 3
           /\ Contains(s, "component") <=> Len(s) >= 4
<1>1. \A i \in 1..Len(s) :
        /\ s[i] = "regs" <=> i = 2
        /\ s[i] = "irq" <=> i = 3
        /\ s[i] = "component" <=> i = 4
  BY DEF DevresOrder
<1>2. Len(s) \in Nat
  BY LenProperties
<1> QED BY <1>1, <1>2 DEF Contains

\* The state of the contract, read off the length of the devm list.
LEMMA LifeState ==
    ASSUME TypeOK, DevresInv
    PROVE  /\ InDevres("regs") <=> Len(devres) >= 2
           /\ InDevres("irq") <=> Len(devres) >= 3
           /\ InDevres("component") <=> Len(devres) >= 4
BY HeldIff DEF TypeOK, DevresInv, InDevres

LEMMA LifeStatePrime ==
    ASSUME TypeOK', DevresInv'
    PROVE  /\ Contains(devres', "regs") <=> Len(devres') >= 2
           /\ Contains(devres', "irq") <=> Len(devres') >= 3
           /\ Contains(devres', "component") <=> Len(devres') >= 4
BY HeldIff DEF TypeOK, DevresInv

LEMMA LifeInit == Init => Life!Init
<1> SUFFICES ASSUME Init PROVE Life!Init
  OBVIOUS
<1>1. Len(devres) = 0
  BY EmptySeq DEF Init
<1> QED BY <1>1 DEF Init, Life!Init, InDevres, Contains
\* Each step of the driver is a step of the contract or leaves the
\* contract's state alone.
LEMMA LifeStep ==
    ASSUME TypeOK, DevresInv, [Next]_vars
    PROVE  [Life!Next]_Life!lifeVars
<1>p. TypeOK' /\ DevresInv'
  BY ProbeTypeStep, DevresInvStep
<1>0. /\ Contains(devres, "regs") <=> Len(devres) >= 2
      /\ Contains(devres, "irq") <=> Len(devres) >= 3
      /\ Contains(devres, "component") <=> Len(devres) >= 4
      /\ Contains(devres', "regs") <=> Len(devres') >= 2
      /\ Contains(devres', "irq") <=> Len(devres') >= 3
      /\ Contains(devres', "component") <=> Len(devres') >= 4
      /\ Len(devres) \in Nat /\ Len(devres') \in Nat
  BY <1>p, LifeState, LifeStatePrime, LenProperties DEF TypeOK, InDevres
<1>1. CASE UNCHANGED <<devres, inIrq>>
  BY <1>1 DEF Life!lifeVars, InDevres, Contains
<1>2. CASE ProbeAlloc
  <2>1. Len(devres) = 0 /\ UNCHANGED inIrq
    BY <1>2 DEF ProbeAlloc, DevresInv
  <2>2. Len(devres') = 1 \/ Len(devres') = 2
    BY <1>2 DEF ProbeAlloc
  <2>3. CASE Len(devres') = 1
    BY <1>0, <2>1, <2>3 DEF Life!lifeVars, InDevres, Contains
  <2>4. CASE Len(devres') = 2
    BY <1>0, <2>1, <2>4 DEF Life!Next, Life!Map, InDevres, Contains
  <2> QED BY <2>2, <2>3, <2>4
<1>3. CASE ProbeRequestIrq
  <2>1. Len(devres) = 2 /\ ~inIrq /\ UNCHANGED inIrq
    <3>1. pc = "request_irq" /\ UNCHANGED inIrq
      BY <1>3 DEF ProbeRequestIrq
    <3>2. Len(devres) = 2
      BY <3>1 DEF DevresInv
    <3>3. ~inIrq
      BY <3>1, <3>2 DEF DevresInv
    <3> QED BY <3>1, <3>2, <3>3
  <2>2. PICK ok \in Succeeds("request_irq") :
          devres' = IF ok THEN Append(devres, "irq") ELSE devres
    BY <1>3 DEF ProbeRequestIrq
  <2>3. CASE ok
    <3>1. Len(devres') = 3
      <4>1. devres' = Append(devres, "irq")
        BY <2>2, <2>3
      <4>2. devres \in Seq(DevresKinds) /\ "irq" \in DevresKinds
        BY DEF TypeOK, DevresKinds
      <4>3. Len(Append(devres, "irq")) = Len(devres) + 1
        BY <4>2, AppendProperties
      <4> QED BY <2>1, <4>1, <4>3
    <3> QED BY <1>0, <2>1, <3>1 DEF Life!Next, Life!RequestIrq, InDevres, Contains
  <2>4. CASE ~ok
    BY <1>1, <2>1, <2>2, <2>4
  <2> QED BY <2>3, <2>4
<1>4. CASE ProbeRegister
  <2>1. Len(devres) = 3 /\ UNCHANGED inIrq
    BY <1>4 DEF ProbeRegister, DevresInv
  <2>2. PICK ok \in Succeeds("register_component") :
          devres' = IF ok THEN Append(devres, "component") ELSE devres
    BY <1>4 DEF ProbeRegister
  <2>3. CASE ok
    <3>1. Len(devres') = 4
      <4>1. devres' = Append(devres, "component")
        BY <2>2, <2>3
      <4>2. devres \in Seq(DevresKinds) /\ "component" \in DevresKinds
        BY DEF TypeOK, DevresKinds
      <4>3. Len(Append(devres, "component")) = Len(devres) + 1
        BY <4>2, AppendProperties
      <4> QED BY <2>1, <4>1, <4>3
    <3> QED BY <1>0, <2>1, <3>1 DEF Life!Next, Life!Register, InDevres, Contains
  <2>4. CASE ~ok
    BY <1>1, <2>1, <2>2, <2>4
  <2> QED BY <2>3, <2>4
<1>5. CASE ReleaseIrq \/ ReleaseComponent \/ ReleaseMemory
  <2>1. /\ pc = "devres" /\ devres # << >> /\ devres' = Front(devres)
        /\ UNCHANGED inIrq
    BY <1>5 DEF ReleaseIrq, ReleaseComponent, ReleaseMemory
  <2>2. /\ 1 <= Len(devres) /\ Len(devres) <= 4
        /\ Last(devres) = DevresOrder[Len(devres)]
    BY <2>1, LastPosition
  <2>3. Len(devres') = Len(devres) - 1
    BY <2>1, ReleaseFront
  <2>4. CASE ReleaseIrq
    <3>1. Len(devres) = 3
      BY <1>0, <2>2, <2>4, OrderIndex DEF ReleaseIrq
    <3> QED BY <1>0, <2>1, <2>3, <3>1 DEF Life!Next, Life!FreeIrq, InDevres, Contains
  <2>5. CASE ReleaseComponent
    <3>1. Len(devres) = 4
      BY <1>0, <2>2, <2>5, OrderIndex DEF ReleaseComponent
    <3> QED BY <1>0, <2>1, <2>3, <3>1 DEF Life!Next, Life!Unregister, InDevres, Contains
  <2>6. CASE ReleaseMemory
    <3>1. Len(devres) <= 2
      BY <1>0, <2>2, <2>6, OrderIndex DEF ReleaseMemory
    <3>2. ~inIrq
      BY <2>1, <3>1 DEF DevresInv
    <3>3. CASE Len(devres) >= 2
      BY <1>0, <2>1, <2>3, <3>1, <3>2, <3>3 DEF Life!Next, Life!Unmap, InDevres, Contains
    <3>4. CASE ~(Len(devres) >= 2)
      BY <1>0, <2>1, <2>3, <3>4 DEF Life!lifeVars, InDevres, Contains
    <3> QED BY <3>3, <3>4
  <2> QED BY <1>5, <2>4, <2>5, <2>6
<1>6. CASE IrqRaise
  <2>1. InDevres("irq") /\ ~inIrq /\ inIrq' /\ UNCHANGED devres
    BY <1>6 DEF IrqRaise
  <2> QED BY <1>0, <2>1 DEF Life!Next, Life!HandlerEnter, InDevres, Contains
<1>7. CASE IrqHandle
  <2>1. inIrq /\ ~inIrq' /\ UNCHANGED devres
    BY <1>7 DEF IrqHandle
  <2> QED BY <1>0, <2>1 DEF Life!Next, Life!HandlerExit, InDevres, Contains
<1>8. CASE ProbeAudioClk \/ ProbeGateClk \/ ProbeFsClks \/ ProbePcm
           \/ ProbeErrClk \/ I2sRemove \/ SyncIrq \/ Unbound \/ CardBind
           \/ StreamStart \/ StreamStop \/ UNCHANGED vars
  <2>1. UNCHANGED <<devres, inIrq>>
    BY <1>8 DEF ProbeAudioClk, ProbeGateClk, ProbeFsClks, ProbePcm,
                ProbeErrClk, I2sRemove, SyncIrq, Unbound, CardBind,
                StreamStart, StreamStop, vars
  <2> QED BY <1>1, <2>1
<1> QED BY <1>2, <1>3, <1>4, <1>5, <1>6, <1>7, <1>8 DEF Next, DriverStep

\* The life cycle of the driver keeps the kernel's lifetime contract for
\* every device tree and every set of failing calls: csky_i2s_probe maps
\* the register window before devm_request_irq and
\* devm_snd_soc_register_component, the handler is entered only while its
\* IRQ is requested, and the devm release unmaps the window only after
\* the component is unregistered, the IRQ freed and the running handler
\* waited for.
THEOREM ProbeImplementsLifetime == Spec => LifetimeSpec
<1>1. TypeOK /\ DevresInv /\ [Next]_vars => (TypeOK /\ DevresInv)'
  BY ProbeTypeStep, DevresInvStep
<1>2. TypeOK /\ DevresInv /\ [Next]_vars => [Life!Next]_Life!lifeVars
  BY LifeStep
<1>3. Init => TypeOK /\ DevresInv /\ Life!Init
  BY ProbeTypeInit, DevresInvInit, LifeInit
<1> QED BY <1>1, <1>2, <1>3, PTL DEF Spec, LifetimeSpec, Life!Spec

\* Hence no callback into the driver outlives its memory: while the IRQ is
\* requested, the handler runs or the DAI is registered with ASoC, the
\* register window and struct csky_i2s exist.
THEOREM ProbeNoUseAfterFree == Spec => []Life!NoUseAfterFree
<1>1. TypeOK /\ DevresInv /\ [Next]_vars => (TypeOK /\ DevresInv)'
  BY ProbeTypeStep, DevresInvStep
<1>2. TypeOK /\ DevresInv => Life!NoUseAfterFree
  <2> SUFFICES ASSUME TypeOK, DevresInv
               PROVE  Life!NoUseAfterFree
    OBVIOUS
  <2>1. /\ InDevres("regs") <=> Len(devres) >= 2
        /\ InDevres("irq") <=> Len(devres) >= 3
        /\ InDevres("component") <=> Len(devres) >= 4
        /\ Len(devres) \in Nat
    BY LifeState, LenProperties DEF TypeOK
  <2>2. inIrq => Len(devres) >= 2
    BY DEF DevresInv
  <2> QED BY <2>1, <2>2 DEF Life!NoUseAfterFree
<1> QED BY <1>1, <1>2, ProbeTypeInit, DevresInvInit, PTL DEF Spec
=============================================================================
