-------------------------- MODULE CskyI2sProbeProofs --------------------------
(***************************************************************************)
(* Proofs about the probe/remove life cycle of CskyI2sProbe, for every     *)
(* device tree, every set of failing calls and every FIFO depth.           *)
(***************************************************************************)
EXTENDS CskyI2sProbe, SequenceTheorems, TLAPS

\* Dropping the newest devm resource leaves the older ones in place.
LEMMA FrontProps ==
    ASSUME NEW S, NEW s \in Seq(S), s # << >>
    PROVE  /\ Front(s) \in Seq(S)
           /\ Len(Front(s)) = Len(s) - 1
           /\ \A i \in 1..Len(s) - 1 : Front(s)[i] = s[i]
<1>1. Len(s) \in Nat /\ Len(s) >= 1
  BY EmptySeq, LenProperties
<1>2. \A i \in 1..Len(s) - 1 : s[i] \in S
  BY <1>1, ElementOfSeq
<1>3. /\ SubSeq(s, 1, Len(s) - 1) \in Seq(S)
      /\ Len(SubSeq(s, 1, Len(s) - 1)) = IF 1 <= Len(s) - 1 THEN Len(s) - 1 ELSE 0
      /\ \A i \in 1..(Len(s) - 1) - 1 + 1 :
            SubSeq(s, 1, Len(s) - 1)[i] = s[1 + i - 1]
  BY <1>1, <1>2, SubSeqProperties
<1>4. Front(s) = SubSeq(s, 1, Len(s) - 1)
  BY DEF Front
<1>5. Len(Front(s)) = Len(s) - 1
  <2>1. CASE Len(s) = 1
    BY <1>3, <1>4, <2>1
  <2>2. CASE Len(s) > 1
    BY <1>3, <1>4, <2>2
  <2> QED BY <1>1, <2>1, <2>2
<1>6. \A i \in 1..Len(s) - 1 : Front(s)[i] = s[i]
  BY <1>1, <1>3, <1>4
<1> QED BY <1>3, <1>4, <1>5, <1>6

\* The constants give a positive u32 modulus and a non-empty node set.
LEMMA ConstFacts ==
    /\ UintModulus \in Nat \ {0}
    /\ DtNodes # {}
<1>1. PICK d \in DtFifoDepths : TRUE
  BY ProbeConstAssumption
<1>2. UintModulus \in Nat \ {0}
  BY <1>1, ProbeConstAssumption
<1>3. PICK cf \in DtClockFrequency, dm \in DtDmas, th \in DtDmaTxThresholds : TRUE
  BY ProbeConstAssumption
<1>4. [clockFreq |-> cf, dmas |-> dm, fifo |-> d, thr |-> th] \in DtNodes
  BY <1>1, <1>3 DEF DtNodes
<1> QED BY <1>2, <1>4

-----------------------------------------------------------------------------
LEMMA ProbeTypeInit == Init => TypeOK
<1> SUFFICES ASSUME Init PROVE TypeOK
  OBVIOUS
<1>1. imr \in BOOLEAN
  BY ProbeConstAssumption DEF Init
<1>2. maxburst \in 0..(UintModulus - 1)
  BY ConstFacts DEF Init
<1>3. devres \in Seq(DevresKinds)
  BY DEF Init
<1> QED BY <1>1, <1>2, <1>3 DEF Init, TypeOK, PcStates, Clks

LEMMA ProbeTypeStep == TypeOK /\ [Next]_vars => TypeOK'
<1> SUFFICES ASSUME TypeOK, [Next]_vars PROVE TypeOK'
  OBVIOUS
<1>1. UintModulus \in Nat \ {0}
  BY ConstFacts
<1>2. CASE ProbeAlloc
  <2>1. devres' \in {<<"mem">>, <<"mem", "regs">>}
    BY <1>2 DEF ProbeAlloc
  <2>2. devres' \in Seq(DevresKinds)
    <3>1. << >> \in Seq(DevresKinds)
      BY EmptySeq
    <3>2. <<"mem">> = Append(<< >>, "mem") /\ <<"mem">> \in Seq(DevresKinds)
      BY <3>1, AppendProperties DEF DevresKinds
    <3>3. <<"mem", "regs">> = Append(<<"mem">>, "regs")
          /\ <<"mem", "regs">> \in Seq(DevresKinds)
      BY <3>2, AppendProperties DEF DevresKinds
    <3> QED BY <2>1, <3>2, <3>3
  <2> QED BY <1>2, <2>2 DEF ProbeAlloc, TypeOK, PcStates, Clks
<1>3. CASE ProbeRequestIrq
  BY <1>3, AppendProperties DEF ProbeRequestIrq, TypeOK, PcStates, DevresKinds
<1>4. CASE ProbeAudioClk
  BY <1>4 DEF ProbeAudioClk, TypeOK, PcStates, Clks
<1>5. CASE ProbeGateClk
  BY <1>5 DEF ProbeGateClk, TypeOK, PcStates, Clks
<1>6. CASE ProbeFsClks
  BY <1>6 DEF ProbeFsClks, TypeOK, PcStates
<1>7. CASE ProbeRegister
  <2>1. dt.fifo \in Nat /\ dt.thr \in Nat
    <3>1. dt.fifo \in DtFifoDepths /\ dt.thr \in DtDmaTxThresholds
      BY DEF TypeOK, DtNodes
    <3> QED BY <3>1, ProbeConstAssumption
  <2>2. maxburst' \in 0..(UintModulus - 1)
    BY <1>1, <1>7, <2>1 DEF ProbeRegister
  <2> QED BY <1>7, <2>2, AppendProperties DEF ProbeRegister, TypeOK, PcStates,
                                             DevresKinds
<1>8. CASE ProbePcm
  BY <1>8 DEF ProbePcm, TypeOK, PcStates
<1>9. CASE ProbeErrClk
  BY <1>9 DEF ProbeErrClk, DisableClks, TypeOK, PcStates, Clks
<1>10. CASE I2sRemove
  BY <1>10 DEF I2sRemove, DisableClks, TypeOK, PcStates, Clks
<1>11. CASE ReleaseIrq \/ ReleaseComponent \/ ReleaseMemory
  <2>1. devres # << >> /\ devres' = Front(devres)
    BY <1>11 DEF ReleaseIrq, ReleaseComponent, ReleaseMemory
  <2>2. devres' \in Seq(DevresKinds)
    BY <2>1, FrontProps DEF TypeOK
  <2> QED BY <1>11, <2>2 DEF ReleaseIrq, ReleaseComponent, ReleaseMemory,
                             TypeOK, PcStates
<1>12. CASE SyncIrq \/ Unbound
  BY <1>12 DEF SyncIrq, Unbound, TypeOK, PcStates
<1>13. CASE IrqRaise \/ IrqHandle \/ CardBind \/ StreamStart \/ StreamStop
  BY <1>13 DEF IrqRaise, IrqHandle, CardBind, StreamStart, StreamStop, TypeOK
<1>14. CASE UNCHANGED vars
  BY <1>14 DEF vars, TypeOK
<1> QED BY <1>2, <1>3, <1>4, <1>5, <1>6, <1>7, <1>8, <1>9, <1>10, <1>11,
           <1>12, <1>13, <1>14 DEF Next, DriverStep

\* Every field of the probe model keeps its type: in particular the enable
\* counts of err_clk and remove never go below zero and maxburst stays a
\* u32, for every device tree.
THEOREM ProbeTypeCorrect == Spec => []TypeOK
BY ProbeTypeInit, ProbeTypeStep, PTL DEF Spec

-----------------------------------------------------------------------------
(* Clock balance.                                                          *)

LEMMA ClkInvInit == Init => ClkInv
BY DEF Init, ClkInv, Clks

\* err_clk and remove leave every clock disabled when each clock was
\* enabled at most once and only through a valid handle.
LEMMA DisableClksZero ==
    ASSUME TypeOK, ClkInv, DisableClks
    PROVE  \A c \in Clks : en'[c] = 0
<1> SUFFICES ASSUME NEW c \in Clks PROVE en'[c] = 0
  OBVIOUS
<1>1. en[c] \in {0, 1} /\ (en[c] = 1 => hnd[c] = "ok")
  BY DEF ClkInv
<1>2. en'[c] = IF hnd[c] = "ok" /\ en[c] > 0 THEN en[c] - 1 ELSE en[c]
  BY DEF DisableClks
<1> QED BY <1>1, <1>2

LEMMA ClkInvStep == TypeOK /\ ClkInv /\ [Next]_vars => ClkInv'
<1> SUFFICES ASSUME TypeOK, ClkInv, [Next]_vars PROVE ClkInv'
  OBVIOUS
<1>1. CASE ProbeAlloc
  BY <1>1 DEF ProbeAlloc, ClkInv, Clks
<1>2. CASE ProbeRequestIrq
  BY <1>2 DEF ProbeRequestIrq, ClkInv
<1>3. CASE ProbeAudioClk
  BY <1>3 DEF ProbeAudioClk, ClkInv, Clks, TypeOK
<1>4. CASE ProbeGateClk
  BY <1>4 DEF ProbeGateClk, ClkInv, Clks, TypeOK
<1>5. CASE ProbeFsClks \/ ProbeRegister \/ ProbePcm
  BY <1>5 DEF ProbeFsClks, ProbeRegister, ProbePcm, ClkInv
<1>6. CASE ProbeErrClk \/ I2sRemove
  <2>1. DisableClks /\ pc' = "devres" /\ UNCHANGED hnd
    BY <1>6 DEF ProbeErrClk, I2sRemove
  <2>2. \A c \in Clks : en'[c] = 0
    BY <2>1, DisableClksZero
  <2> QED BY <2>1, <2>2 DEF ClkInv
<1>7. CASE ReleaseIrq \/ SyncIrq \/ Unbound
  BY <1>7 DEF ReleaseIrq, SyncIrq, Unbound, ClkInv
<1>8. CASE ReleaseComponent \/ ReleaseMemory \/ IrqRaise \/ IrqHandle
           \/ CardBind \/ StreamStart \/ StreamStop
  BY <1>8 DEF ReleaseComponent, ReleaseMemory, IrqRaise, IrqHandle, CardBind,
              StreamStart, StreamStop, ClkInv
<1>9. CASE UNCHANGED vars
  BY <1>9 DEF vars, ClkInv
<1> QED BY <1>1, <1>2, <1>3, <1>4, <1>5, <1>6, <1>7, <1>8, <1>9
        DEF Next, DriverStep

\* In every reachable state each clock has been enabled at most once and
\* only through a handle devm_clk_get returned, and no clock is enabled
\* before csky_i2s_probe enables it or after err_clk or csky_i2s_remove has
\* disabled it, for every device tree and every set of failing calls.
THEOREM ClkInvHolds == Spec => []ClkInv
<1>1. TypeOK /\ ClkInv /\ [Next]_vars => (TypeOK /\ ClkInv)'
  BY ProbeTypeStep, ClkInvStep
<1> QED BY <1>1, ProbeTypeInit, ClkInvInit, PTL DEF Spec

\* Once a failed probe or a remove has been released, no clock this driver
\* enabled is left on: every exit of csky_i2s_probe (the bare returns before
\* the gate clock, err_clk after it) and csky_i2s_remove undoes exactly the
\* clk_prepare_enable calls that succeeded, for every device tree and every
\* set of failing calls.
THEOREM ClocksBalanced == Spec => []ClkBalancedWhenUnbound
<1>1. TypeOK /\ ClkInv /\ [Next]_vars => (TypeOK /\ ClkInv)'
  BY ProbeTypeStep, ClkInvStep
<1>2. ClkInv => ClkBalancedWhenUnbound
  BY DEF ClkInv, ClkBalancedWhenUnbound
<1> QED BY <1>1, <1>2, ProbeTypeInit, ClkInvInit, PTL DEF Spec

-----------------------------------------------------------------------------
(* The clock core's "already disabled" WARN.                              *)

LEMMA ClkWarnInvInit == Init => ClkWarnInv
BY DEF Init, ClkWarnInv

LEMMA ClkWarnInvStep ==
    ASSUME "clk_enable_gate" \notin MayFail,
           TypeOK, ClkInv, ClkWarnInv, [Next]_vars
    PROVE  ClkWarnInv'
<1>1. CASE ProbeAlloc
  BY <1>1 DEF ProbeAlloc, ClkWarnInv
<1>2. CASE ProbeRequestIrq
  <2>1. pc = "request_irq" /\ hnd = [c \in Clks |-> "null"]
    BY <1>2 DEF ProbeRequestIrq, ClkWarnInv
  <2>2. pc' \in {"devres", "config", "get_audio"} /\ UNCHANGED <<hnd, clkWarn>>
    BY <1>2 DEF ProbeRequestIrq
  <2> QED BY <2>1, <2>2 DEF ClkWarnInv, Clks
<1>3. CASE ProbeAudioClk
  <2>1. pc = "get_audio" /\ hnd = [c \in Clks |-> "null"] /\ en["audio"] = 0
    BY <1>3 DEF ProbeAudioClk, ClkWarnInv, ClkInv, Clks
  <2>2. PICK got \in Succeeds("clk_get_audio"), on \in Succeeds("clk_enable_audio") :
          /\ hnd' = [hnd EXCEPT !["audio"] = IF got THEN "ok" ELSE "err"]
          /\ en' = IF got /\ on THEN [en EXCEPT !["audio"] = @ + 1] ELSE en
          /\ pc' = IF got /\ on THEN "get_gate" ELSE "devres"
    BY <1>3 DEF ProbeAudioClk
  <2>3. UNCHANGED clkWarn
    BY <1>3 DEF ProbeAudioClk
  <2> QED BY <2>1, <2>2, <2>3 DEF ClkWarnInv, Clks, TypeOK
<1>4. CASE ProbeGateClk
  <2>1. /\ pc = "get_gate" /\ hnd["gate"] = "null" /\ en["gate"] = 0
        /\ (hnd["audio"] = "ok" => en["audio"] = 1)
    BY <1>4 DEF ProbeGateClk, ClkWarnInv, ClkInv, Clks
  <2>2. PICK got \in Succeeds("clk_get_gate") :
          /\ hnd' = [hnd EXCEPT !["gate"] = IF got THEN "ok" ELSE "err"]
          /\ en' = IF got THEN [en EXCEPT !["gate"] = @ + 1] ELSE en
          /\ pc' = IF got THEN "get_fs" ELSE "err_clk"
    BY <1>4 DEF ProbeGateClk, Succeeds
  <2>3. UNCHANGED clkWarn
    BY <1>4 DEF ProbeGateClk
  <2> QED BY <2>1, <2>2, <2>3 DEF ClkWarnInv, Clks, TypeOK
<1>5. CASE ProbeFsClks \/ ProbeRegister \/ ProbePcm
  <2>1. /\ pc \in {"get_fs", "config", "pcm"}
        /\ pc' \in {"config", "pcm", "bound", "err_clk"}
        /\ UNCHANGED <<hnd, en, clkWarn>>
    BY <1>5 DEF ProbeFsClks, ProbeRegister, ProbePcm
  <2> QED BY <2>1 DEF ClkWarnInv
<1>6. CASE ProbeErrClk \/ I2sRemove
  <2>1. /\ pc \in {"err_clk", "bound"} /\ DisableClks /\ pc' = "devres"
    BY <1>6 DEF ProbeErrClk, I2sRemove
  <2>2. ~\E c \in {c \in Clks : hnd[c] = "ok"} : en[c] = 0
    BY <2>1 DEF ClkWarnInv
  <2>3. ~clkWarn'
    BY <2>1, <2>2 DEF DisableClks, ClkWarnInv
  <2> QED BY <2>1, <2>3 DEF ClkWarnInv
<1>7. CASE ReleaseIrq \/ SyncIrq \/ Unbound \/ ReleaseComponent
           \/ ReleaseMemory
  <2>1. pc \in {"devres", "sync_irq"} /\ pc' \in {"devres", "sync_irq", "idle"}
        /\ UNCHANGED <<hnd, en, clkWarn>>
    BY <1>7 DEF ReleaseIrq, SyncIrq, Unbound, ReleaseComponent, ReleaseMemory
  <2> QED BY <2>1 DEF ClkWarnInv
<1>8. CASE IrqRaise \/ IrqHandle \/ CardBind \/ StreamStart \/ StreamStop
  BY <1>8 DEF IrqRaise, IrqHandle, CardBind, StreamStart, StreamStop, ClkWarnInv
<1>9. CASE UNCHANGED vars
  BY <1>9 DEF vars, ClkWarnInv
<1> QED BY <1>1, <1>2, <1>3, <1>4, <1>5, <1>6, <1>7, <1>8, <1>9
        DEF Next, DriverStep

\* clk_disable_unprepare is never called on a disabled clock, and the clock
\* core never WARNs, on any path of csky_i2s_probe and csky_i2s_remove
\* except the one where devm_clk_get of the gate clock succeeds and its
\* clk_prepare_enable fails: err_clk then disables a gate clock that was
\* never enabled.  This holds for every device tree and every other set of
\* failing calls.
THEOREM NoWarnUnlessGateEnableFails ==
    ASSUME "clk_enable_gate" \notin MayFail
    PROVE  Spec => []NoClkWarn
<1>1. TypeOK /\ ClkInv /\ ClkWarnInv /\ [Next]_vars
        => (TypeOK /\ ClkInv /\ ClkWarnInv)'
  BY ProbeTypeStep, ClkInvStep, ClkWarnInvStep
<1>2. Init => TypeOK /\ ClkInv /\ ClkWarnInv
  BY ProbeTypeInit, ClkInvInit, ClkWarnInvInit
<1>3. ClkWarnInv => NoClkWarn
  BY DEF ClkWarnInv, NoClkWarn
<1> QED BY <1>1, <1>2, <1>3, PTL DEF Spec

-----------------------------------------------------------------------------
(* The interrupt handler and the devm list.                                *)

LEMMA DevresInvInit == Init => DevresInv
BY DEF Init, DevresInv

\* A resource of the list sits at its place in the acquisition order.
LEMMA DevresPosition ==
    ASSUME TypeOK, DevresInv, NEW i \in 1..Len(devres)
    PROVE  /\ devres[i] = "mem" <=> i = 1
           /\ devres[i] = "regs" <=> i = 2
           /\ devres[i] = "irq" <=> i = 3
           /\ devres[i] = "component" <=> i = 4
<1>1. Len(devres) <= 4 /\ devres[i] = DevresOrder[i]
  BY DEF DevresInv
<1> QED BY <1>1 DEF DevresOrder

\* Appending the next resource of the order keeps the list a prefix.
LEMMA AppendNext ==
    ASSUME TypeOK, DevresInv, NEW n \in 1..4, Len(devres) = n - 1,
           devres' = Append(devres, DevresOrder[n])
    PROVE  /\ Len(devres') = n
           /\ \A i \in 1..Len(devres') : devres'[i] = DevresOrder[i]
<1>1. devres \in Seq(DevresKinds) /\ DevresOrder[n] \in DevresKinds
  BY DEF TypeOK, DevresOrder, DevresKinds
<1>2. /\ Len(devres') = n
      /\ \A i \in 1..n - 1 : devres'[i] = devres[i]
      /\ devres'[n] = DevresOrder[n]
  BY <1>1, AppendProperties
<1> QED BY <1>2 DEF DevresInv

\* Releasing the newest resource keeps the list a prefix, one shorter.
LEMMA ReleaseFront ==
    ASSUME TypeOK, DevresInv, devres # << >>, devres' = Front(devres)
    PROVE  /\ Len(devres') = Len(devres) - 1
           /\ \A i \in 1..Len(devres') : devres'[i] = DevresOrder[i]
<1>1. devres \in Seq(DevresKinds)
  BY DEF TypeOK
<1>2. /\ Len(Front(devres)) = Len(devres) - 1
      /\ \A i \in 1..Len(devres) - 1 : Front(devres)[i] = devres[i]
  BY <1>1, FrontProps
<1> QED BY <1>2 DEF DevresInv

\* Where each kind of resource sits in the acquisition order.
LEMMA OrderIndex ==
    ASSUME NEW n \in Nat, 1 <= n, n <= 4
    PROVE  /\ DevresOrder[n] = "irq" <=> n = 3
           /\ DevresOrder[n] = "component" <=> n = 4
           /\ DevresOrder[n] \in {"mem", "regs"} <=> n <= 2
<1>1. n = 1 \/ n = 2 \/ n = 3 \/ n = 4
  OBVIOUS
<1> QED BY <1>1 DEF DevresOrder

\* The position of the newest resource.
LEMMA LastPosition ==
    ASSUME TypeOK, DevresInv, devres # << >>
    PROVE  /\ 1 <= Len(devres) /\ Len(devres) <= 4
           /\ Last(devres) = DevresOrder[Len(devres)]
<1>1. Len(devres) \in Nat /\ Len(devres) # 0
  BY EmptySeq, LenProperties DEF TypeOK
<1>2. 1 <= Len(devres) /\ Len(devres) <= 4
  <2>1. Len(devres) <= 4
    BY DEF DevresInv
  <2> QED BY <1>1, <2>1
<1>3. devres[Len(devres)] = DevresOrder[Len(devres)]
  <2>1. \A i \in 1..Len(devres) : devres[i] = DevresOrder[i]
    BY DEF DevresInv
  <2> QED BY <1>2, <2>1
<1> QED BY <1>2, <1>3 DEF Last

LEMMA DevresInvStep == TypeOK /\ DevresInv /\ [Next]_vars => DevresInv'
<1> SUFFICES ASSUME TypeOK, DevresInv, [Next]_vars PROVE DevresInv'
  OBVIOUS
<1>0. devres \in Seq(DevresKinds) /\ Len(devres) \in Nat
  BY LenProperties DEF TypeOK
<1>1. CASE ProbeAlloc
  <2>1. pc = "idle" /\ Len(devres) = 0 /\ ~inIrq
    BY <1>1 DEF ProbeAlloc, DevresInv
  <2>2. \/ devres' = <<"mem">> /\ pc' = "devres"
        \/ devres' = <<"mem", "regs">> /\ pc' \in {"devres", "request_irq"}
    BY <1>1 DEF ProbeAlloc
  <2> QED BY <1>1, <2>1, <2>2 DEF ProbeAlloc, DevresInv, DevresOrder
<1>2. CASE ProbeRequestIrq
  <2>1. pc = "request_irq" /\ Len(devres) = 2 /\ UNCHANGED inIrq
    BY <1>2 DEF ProbeRequestIrq, DevresInv
  <2>2. ~inIrq
    BY <2>1 DEF DevresInv
  <2>3. PICK ok \in Succeeds("request_irq") :
          /\ devres' = IF ok THEN Append(devres, "irq") ELSE devres
          /\ pc' = IF ~ok THEN "devres"
                   ELSE IF dt.clockFreq THEN "config" ELSE "get_audio"
    BY <1>2 DEF ProbeRequestIrq
  <2>4. CASE ok
    <3>1. /\ Len(devres') = 3
          /\ \A i \in 1..Len(devres') : devres'[i] = DevresOrder[i]
      BY <2>1, <2>3, <2>4, AppendNext DEF DevresOrder
    <3>2. pc' \in {"config", "get_audio"}
      BY <2>3, <2>4
    <3> QED BY <2>1, <2>2, <3>1, <3>2 DEF DevresInv
  <2>5. CASE ~ok
    BY <2>1, <2>2, <2>3, <2>5 DEF DevresInv
  <2> QED BY <2>4, <2>5
<1>3. CASE ProbeAudioClk \/ ProbeGateClk \/ ProbeFsClks
  <2>1. /\ pc \in {"get_audio", "get_gate", "get_fs"}
        /\ pc' \in {"get_gate", "get_fs", "config", "err_clk", "devres"}
        /\ UNCHANGED <<devres, inIrq>>
    BY <1>3 DEF ProbeAudioClk, ProbeGateClk, ProbeFsClks
  <2>2. Len(devres) = 3
    BY <2>1 DEF DevresInv
  <2> QED BY <2>1, <2>2 DEF DevresInv
<1>4. CASE ProbeRegister
  <2>1. pc = "config" /\ Len(devres) = 3 /\ UNCHANGED inIrq
    BY <1>4 DEF ProbeRegister, DevresInv
  <2>2. PICK ok \in Succeeds("register_component") :
          /\ devres' = IF ok THEN Append(devres, "component") ELSE devres
          /\ pc' = IF ok THEN "pcm" ELSE "err_clk"
    BY <1>4 DEF ProbeRegister
  <2>3. CASE ok
    <3>1. /\ Len(devres') = 4
          /\ \A i \in 1..Len(devres') : devres'[i] = DevresOrder[i]
      BY <2>1, <2>2, <2>3, AppendNext DEF DevresOrder
    <3> QED BY <2>1, <2>2, <2>3, <3>1 DEF DevresInv
  <2>4. CASE ~ok
    <3>1. devres' = devres /\ pc' = "err_clk"
      BY <2>2, <2>4
    <3>2. /\ Len(devres') = 3
          /\ \A i \in 1..Len(devres') : devres'[i] = DevresOrder[i]
      BY <2>1, <3>1 DEF DevresInv
    <3>3. Len(devres') <= 4 /\ Len(devres') >= 3
      BY <3>2
    <3>4. inIrq' => Len(devres') >= 3
      BY <3>3
    <3> QED BY <2>1, <3>1, <3>2, <3>3, <3>4, Zenon DEF DevresInv
  <2> QED BY <2>3, <2>4
<1>5. CASE ProbePcm
  <2>1. pc = "pcm" /\ pc' \in {"bound", "err_clk"} /\ UNCHANGED <<devres, inIrq>>
    BY <1>5 DEF ProbePcm
  <2> QED BY <2>1 DEF DevresInv
<1>6. CASE ProbeErrClk \/ I2sRemove
  <2>1. pc \in {"err_clk", "bound"} /\ pc' = "devres" /\ UNCHANGED <<devres, inIrq>>
    BY <1>6 DEF ProbeErrClk, I2sRemove
  <2> QED BY <2>1 DEF DevresInv
<1>7. CASE ReleaseIrq
  <2>1. pc = "devres" /\ devres # << >> /\ Last(devres) = "irq"
        /\ devres' = Front(devres) /\ pc' = "sync_irq" /\ UNCHANGED inIrq
    BY <1>7 DEF ReleaseIrq
  <2>2. Len(devres) = 3
    <3>1. 1 <= Len(devres) /\ Len(devres) <= 4 /\ Last(devres) = DevresOrder[Len(devres)]
      BY <2>1, LastPosition
    <3> QED BY <1>0, <2>1, <3>1, OrderIndex
  <2>3. /\ Len(devres') = Len(devres) - 1
        /\ \A i \in 1..Len(devres') : devres'[i] = DevresOrder[i]
    BY <2>1, ReleaseFront
  <2> QED BY <2>1, <2>2, <2>3 DEF DevresInv
<1>8. CASE SyncIrq
  BY <1>8 DEF SyncIrq, DevresInv
<1>9. CASE ReleaseComponent
  <2>1. pc = "devres" /\ devres # << >> /\ Last(devres) = "component"
        /\ devres' = Front(devres) /\ UNCHANGED <<pc, inIrq>>
    BY <1>9 DEF ReleaseComponent
  <2>2. Len(devres) = 4
    <3>1. 1 <= Len(devres) /\ Len(devres) <= 4 /\ Last(devres) = DevresOrder[Len(devres)]
      BY <2>1, LastPosition
    <3> QED BY <1>0, <2>1, <3>1, OrderIndex
  <2>3. /\ Len(devres') = Len(devres) - 1
        /\ \A i \in 1..Len(devres') : devres'[i] = DevresOrder[i]
    BY <2>1, ReleaseFront
  <2> QED BY <2>1, <2>2, <2>3 DEF DevresInv
<1>10. CASE ReleaseMemory
  <2>1. pc = "devres" /\ devres # << >> /\ Last(devres) \in {"mem", "regs"}
        /\ devres' = Front(devres) /\ UNCHANGED <<pc, inIrq>>
    BY <1>10 DEF ReleaseMemory
  <2>2. Len(devres) <= 2
    <3>1. 1 <= Len(devres) /\ Len(devres) <= 4 /\ Last(devres) = DevresOrder[Len(devres)]
      BY <2>1, LastPosition
    <3> QED BY <1>0, <2>1, <3>1, OrderIndex
  <2>3. ~inIrq
    BY <2>1, <2>2 DEF DevresInv
  <2>4. /\ Len(devres') = Len(devres) - 1
        /\ \A i \in 1..Len(devres') : devres'[i] = DevresOrder[i]
    BY <2>1, ReleaseFront
  <2> QED BY <2>1, <2>2, <2>3, <2>4 DEF DevresInv
<1>11. CASE Unbound
  BY <1>11, EmptySeq DEF Unbound, DevresInv
<1>12. CASE IrqRaise
  <2>1. PICK i \in 1..Len(devres) : devres[i] = "irq"
    BY <1>12 DEF IrqRaise, InDevres, Contains
  <2>2. i = 3
    BY <2>1, DevresPosition
  <2>3. Len(devres) >= 3
    BY <2>1, <2>2
  <2> QED BY <1>12, <2>3 DEF IrqRaise, DevresInv
<1>13. CASE IrqHandle \/ CardBind \/ StreamStart \/ StreamStop
  BY <1>13 DEF IrqHandle, CardBind, StreamStart, StreamStop, DevresInv
<1>14. CASE UNCHANGED vars
  BY <1>14 DEF vars, DevresInv
<1> QED BY <1>1, <1>2, <1>3, <1>4, <1>5, <1>6, <1>7, <1>8, <1>9, <1>10,
           <1>11, <1>12, <1>13, <1>14 DEF Next, DriverStep

\* In every reachable state the devm list is a prefix of the order
\* csky_i2s_probe acquires its resources in (memory, register mapping, IRQ,
\* component), of the length the probe or release step fixes, and a running
\* interrupt handler has its IRQ registered or is being waited for by
\* free_irq, however the handler interleaves with probe, remove and the
\* release.
THEOREM DevresInvHolds == Spec => []DevresInv
<1>1. TypeOK /\ DevresInv /\ [Next]_vars => (TypeOK /\ DevresInv)'
  BY ProbeTypeStep, DevresInvStep
<1> QED BY <1>1, ProbeTypeInit, DevresInvInit, PTL DEF Spec

\* The interrupt handler never runs on freed memory or an unmapped
\* register window: devm_request_irq comes after devm_ioremap_resource, so
\* the IRQ is released first, and free_irq waits for a running handler
\* before the mapping and struct csky_i2s go, for every device tree and
\* every set of failing calls.
THEOREM HandlerSafe == Spec => []HandlerOnLiveDevice
<1>1. TypeOK /\ DevresInv /\ [Next]_vars => (TypeOK /\ DevresInv)'
  BY ProbeTypeStep, DevresInvStep
<1>2. TypeOK /\ DevresInv => HandlerOnLiveDevice
  <2> SUFFICES ASSUME TypeOK, DevresInv, inIrq
               PROVE  InDevres("mem") /\ InDevres("regs")
    BY DEF HandlerOnLiveDevice
  <2>1. Len(devres) >= 2
    BY DEF DevresInv
  <2>2. devres[1] = "mem" /\ devres[2] = "regs"
    BY <2>1 DEF DevresInv, DevresOrder
  <2> QED BY <2>1, <2>2 DEF InDevres, Contains
<1> QED BY <1>1, <1>2, ProbeTypeInit, DevresInvInit, PTL DEF Spec
=============================================================================
