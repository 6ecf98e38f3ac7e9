--------------------------- MODULE TrapStateProofs ---------------------------
(* The properties of the trap state for all addresses and any nesting.     *)
EXTENDS TrapState, Sequences, TLAPS

\* A trap that saves the state keeps the types of what it saves.
LEMMA SaveCauseType ==
  ASSUME TypeOK, NEW cause \in Cause, SaveCause(cause)
  PROVE  /\ priv_lvl' \in Priv /\ mstatus' \in Status /\ mepc' \in Pcs
         /\ mcause' \in Cause /\ mstack' \in Stack
  BY DEF TypeOK, SaveCause, mstack_d, Status, Stack, Priv, Cause

LEMMA LegalPriv == \A p \in Written : Legal(p) \in Priv
  BY DEF Legal, Priv, Written

LEMMA DeeperType == ASSUME TypeOK, Deeper PROVE depth' \in 0 .. MaxDepth /\ pc' \in Pcs
  BY TrapAssumption DEF TypeOK, Deeper

LEMMA TypeInit == Init => TypeOK
<1> SUFFICES ASSUME Init PROVE TypeOK
  OBVIOUS
<1>1. priv_lvl \in Priv /\ dcsr_prv \in Priv /\ mcause \in Cause
  BY DEF Init, Priv, Cause
<1>2. mstatus \in Status
  BY DEF Init, Status, Priv
<1>3. mstack \in Stack
  BY DEF Init, Stack, Priv, Cause
<1>4. depth \in 0 .. MaxDepth
  BY TrapAssumption DEF Init
<1>5. QED
  BY <1>1, <1>2, <1>3, <1>4, Zenon DEF Init, TypeOK

\* Every cycle keeps the types.
LEMMA TypeStep == TypeOK /\ [Next]_vars => TypeOK'
<1> SUFFICES ASSUME TypeOK, [Next]_vars PROVE TypeOK'
  OBVIOUS
<1>1. CASE Exception
  <2>1. "exception" \in Cause
    BY DEF Cause
  <2>2. QED
    BY <1>1, <2>1, SaveCauseType, DeeperType DEF Exception, TypeOK, debugVars
<1>2. CASE DebugException
  BY <1>2 DEF DebugException, TypeOK, debugVars, faultVars, Priv
<1>3. CASE Interrupt
  <2>1. "irq" \in Cause
    BY DEF Cause
  <2>2. QED
    BY <1>3, <2>1, SaveCauseType, DeeperType
    DEF Interrupt, TypeOK, debugVars, faultVars
<1>4. CASE Nmi
  <2>1. "nmi" \in Cause
    BY DEF Cause
  <2>2. QED
    BY <1>4, <2>1, SaveCauseType, DeeperType DEF Nmi, TypeOK, debugVars, faultVars
<1>5. CASE DebugEntry
  BY <1>5 DEF DebugEntry, TypeOK, faultVars, Priv
<1>6. CASE Mret
  <2>1. mstatus' \in Status /\ priv_lvl' \in Priv
    BY <1>6 DEF Mret, TypeOK, mstatus_mret, Status, Stack, Priv
  <2>2. mepc' \in Pcs /\ mcause' \in Cause
    BY <1>6 DEF Mret, TypeOK, Stack
  <2>3. depth' \in 0 .. MaxDepth
    BY <1>6, TrapAssumption DEF Mret, TypeOK
  <2>4. QED
    BY <1>6, <2>1, <2>2, <2>3 DEF Mret, TypeOK, debugVars
<1>7. CASE Dret
  BY <1>7 DEF Dret, TypeOK, faultVars
<1>8. CASE WriteMstatus
  <2>1. meddled' \in BOOLEAN
    BY <1>8, Zenon DEF WriteMstatus, TypeOK
  <2>2. QED
    BY <1>8, <2>1, LegalPriv DEF WriteMstatus, TypeOK, faultVars, Status
<1>9. CASE WriteMepc
  BY <1>9 DEF WriteMepc, TypeOK, faultVars, debugVars
<1>10. CASE WriteMcause
  BY <1>10 DEF WriteMcause, TypeOK, faultVars, debugVars
<1>11. CASE WriteCpuctrlsts
  <2>1. armed' \in BOOLEAN
    BY <1>11, Zenon DEF WriteCpuctrlsts, TypeOK
  <2>2. QED
    BY <1>11, <2>1 DEF WriteCpuctrlsts, TypeOK, debugVars
<1>12. CASE WriteDebug
  <2>1. meddled' \in BOOLEAN
    BY <1>12, Zenon DEF WriteDebug, TypeOK
  <2>2. QED
    BY <1>12, <2>1, LegalPriv DEF WriteDebug, TypeOK, faultVars
<1>13. CASE Execute
  BY <1>13 DEF Execute, TypeOK, faultVars, debugVars
<1>14. CASE UNCHANGED vars
  BY <1>14 DEF vars, TypeOK
<1>15. QED
  BY <1>1, <1>2, <1>3, <1>4, <1>5, <1>6, <1>7, <1>8, <1>9, <1>10, <1>11, <1>12,
     <1>13, <1>14 DEF Next

\* The registers have their types.
THEOREM TrapTypeOK == Spec => []TypeOK
  BY TypeInit, TypeStep, PTL DEF Spec

-----------------------------------------------------------------------------
\* A double fault is recognised only while a trap has not returned or after
\* software set the bit: the hardware sets it with a trap, and every return clears
\* it, whatever software and the debugger write to the other registers.
THEOREM TrapDoubleFault == Spec => []DoubleFaultInHandler
<1>1. Init => DoubleFaultInHandler
  BY DEF Init, DoubleFaultInHandler
<1>2. TypeOK /\ DoubleFaultInHandler /\ [Next]_vars => DoubleFaultInHandler'
  <2> SUFFICES ASSUME TypeOK, DoubleFaultInHandler, [Next]_vars
               PROVE  DoubleFaultInHandler'
    OBVIOUS
  <2> USE DEF DoubleFaultInHandler
  <2>1. depth \in Nat
    BY TrapAssumption DEF TypeOK
  <2>2. CASE Exception
    BY <2>1, <2>2 DEF Exception, Deeper
  <2>3. CASE Interrupt \/ Nmi
    <3>1. depth' = depth + 1
      BY <2>3 DEF Interrupt, Nmi, Deeper
    <3>2. QED
      BY <2>1, <3>1
  <2>4. CASE Mret
    BY <2>4 DEF Mret
  <2>5. CASE WriteCpuctrlsts
    BY <2>5 DEF WriteCpuctrlsts
  <2>6. CASE \/ DebugException \/ DebugEntry \/ Dret \/ WriteMstatus \/ WriteMepc
             \/ WriteMcause \/ WriteDebug \/ Execute \/ UNCHANGED vars
    BY <2>6 DEF DebugException, DebugEntry, Dret, WriteMstatus, WriteMepc,
                WriteMcause, WriteDebug, Execute, vars, faultVars
  <2>7. QED
    BY <2>2, <2>3, <2>4, <2>5, <2>6 DEF Next
<1>3. QED
  BY <1>1, <1>2, TypeInit, TypeStep, PTL DEF Spec

-----------------------------------------------------------------------------
\* U mode never runs with MPRV.  Debug mode interrupts a context, which must not
\* be one of U mode with MPRV either, and itself runs in M mode.
MprvInv ==
  ~meddled =>
    /\ priv_lvl = "U" => ~mstatus.mprv
    /\ debug_mode => priv_lvl = "M" /\ (dcsr_prv = "U" => ~mstatus.mprv)

THEOREM TrapMprvOnlyInM == Spec => []MprvOnlyInM
<1>1. Init => MprvInv
  BY DEF Init, MprvInv
<1>2. TypeOK /\ MprvInv /\ [Next]_vars => MprvInv'
  <2> SUFFICES ASSUME TypeOK, MprvInv, [Next]_vars, ~meddled' PROVE MprvInv'
    BY DEF MprvInv
  <2> USE DEF MprvInv
  <2>1. CASE Exception \/ Interrupt \/ Nmi
    BY <2>1 DEF Exception, Interrupt, Nmi, SaveCause, debugVars
  <2>2. CASE DebugException
    BY <2>2 DEF DebugException, debugVars
  <2>3. CASE DebugEntry
    BY <2>3 DEF DebugEntry, TypeOK
  <2>4. CASE Mret
    <3>1. mstatus_mret.mprv = (mstatus.mprv /\ mstatus.mpp = "M")
      BY DEF mstatus_mret, TypeOK, Status
    <3>2. QED
      BY <2>4, <3>1 DEF Mret, debugVars
  <2>5. CASE Dret
    BY <2>5 DEF Dret
  <2>6. CASE WriteMstatus
    BY <2>6 DEF WriteMstatus, TypeOK
  <2>7. CASE WriteDebug
    BY <2>7 DEF WriteDebug
  <2>8. CASE WriteMepc \/ WriteMcause \/ WriteCpuctrlsts \/ Execute \/ UNCHANGED vars
    BY <2>8 DEF WriteMepc, WriteMcause, WriteCpuctrlsts, Execute, vars, debugVars
  <2>9. QED
    BY <2>1, <2>2, <2>3, <2>4, <2>5, <2>6, <2>7, <2>8 DEF Next
<1>3. MprvInv => MprvOnlyInM
  BY DEF MprvInv, MprvOnlyInM
<1>4. QED
  BY <1>1, <1>2, <1>3, TypeInit, TypeStep, PTL DEF Spec

-----------------------------------------------------------------------------
(* The registers implement the stack: every cycle is a step of TrapStack.  *)

top == [pc |-> mepc, priv |-> mstatus.mpp, mie |-> mstatus.mpie, cause |-> mcause]

below == [pc |-> mstack.epc, priv |-> mstack.mpp, mie |-> mstack.mpie,
          cause |-> mstack.cause]

LEMMA SavedShape ==
  /\ ~nmi_mode => saved = <<top>> /\ Len(saved) = 1 /\ saved[1] = top
  /\ nmi_mode => saved = <<top, below>> /\ Len(saved) = 2 /\ saved[1] = top
  BY DEF saved, top, below

LEMMA TopType == TypeOK => top \in Promise!Frame
  BY DEF TypeOK, Status, Priv, Cause, top, Promise!Frame, Promise!Priv, Promise!Cause

\* What a trap saves is what the abstract trap pushes.
LEMMA TrapImplements ==
  ASSUME TypeOK, NEW cause \in Cause, ~debug_mode, SaveCause(cause), pc' \in Pcs,
         UNCHANGED debugVars,
         nmi_mode' = (nmi_mode \/ cause = "nmi")
  PROVE  Promise!Trap(cause)
<1>1. /\ mstatus'.mie = FALSE /\ mstatus'.mpie = mstatus.mie
      /\ mstatus'.mpp = priv_lvl
  BY DEF SaveCause, TypeOK, Status
<1>2. top' = Promise!Interrupted(cause)
  BY <1>1 DEF top, SaveCause, Promise!Interrupted
<1>3. below' = top
  BY DEF below, top, SaveCause, mstack_d
<1>4. Promise!two <=> nmi_mode
  BY SavedShape DEF Promise!two, TypeOK
<1>5. saved' = IF Promise!two \/ cause = "nmi"
                 THEN <<Promise!Interrupted(cause), saved[1]>>
                 ELSE <<Promise!Interrupted(cause)>>
  <2>1. CASE nmi_mode \/ cause = "nmi"
    BY <2>1, <1>2, <1>3, <1>4, SavedShape DEF saved, top, below
  <2>2. CASE ~(nmi_mode \/ cause = "nmi")
    BY <2>2, <1>2, <1>4 DEF saved, top
  <2>3. QED
    BY <2>1, <2>2
<1>6. QED
  BY <1>1, <1>5 DEF Promise!Trap, Promise!Handler, SaveCause, debugVars

\* A return pops what the abstract return pops.
LEMMA MretImplements ==
  ASSUME TypeOK, Mret
  PROVE  Promise!Return
<1>1. /\ mstatus_mret.mie = mstatus.mpie
      /\ mstatus_mret.mpie = IF nmi_mode THEN mstack.mpie ELSE TRUE
      /\ mstatus_mret.mpp = IF nmi_mode THEN mstack.mpp ELSE "U"
  BY DEF mstatus_mret, TypeOK, Status
<1>2. ~nmi_mode'
  BY DEF Mret
<1>3. saved' = <<top'>>
  BY <1>2 DEF saved, top
<1>4. CASE nmi_mode
  <2>1. saved[2] = below /\ Promise!two
    BY <1>4, SavedShape DEF saved, top, below, Promise!two
  <2>2. top' = below
    BY <1>1, <1>4 DEF Mret, top, below
  <2>3. QED
    BY <1>1, <1>3, <2>1, <2>2, SavedShape, <1>4
    DEF Mret, Promise!Return, debugVars, top
<1>5. CASE ~nmi_mode
  <2>1. ~Promise!two
    BY <1>5, SavedShape DEF Promise!two
  <2>2. top' = [pc |-> mepc, priv |-> "U", mie |-> TRUE, cause |-> mcause]
    BY <1>1, <1>5 DEF Mret, top
  <2>3. saved' = <<[pc |-> saved[1].pc, priv |-> "U", mie |-> TRUE,
                    cause |-> saved[1].cause]>>
    <3>1. saved[1] = top
      BY SavedShape, <1>5
    <3>2. saved[1].pc = mepc /\ saved[1].cause = mcause
      BY <3>1 DEF top
    <3>3. QED
      BY <1>3, <2>2, <3>2
  <2>4. saved[1].pc = mepc /\ saved[1].priv = mstatus.mpp
        /\ saved[1].mie = mstatus.mpie
    <3>1. saved[1] = top
      BY SavedShape, <1>5
    <3>2. QED
      BY <3>1 DEF top
  <2>5. QED
    BY <1>1, <2>1, <2>3, <2>4 DEF Mret, Promise!Return, debugVars
<1>6. QED
  BY <1>4, <1>5 DEF TypeOK

\* What software writes to mstatus, mepc and mcause is the context on top.
LEMMA SoftwareImplements ==
  ASSUME TypeOK, TypeOK', priv_lvl = "M", mstatus'.mie \in BOOLEAN,
         UNCHANGED <<priv_lvl, mstack, nmi_mode, dcsr_prv, depc, debug_mode, pc>>
  PROVE  Promise!Software
<1>1. top' \in Promise!Frame
  BY DEF TypeOK, Status, Priv, Cause, top, Promise!Frame, Promise!Priv,
         Promise!Cause
<1>2. saved' = [saved EXCEPT ![1] = top']
  BY DEF saved, top, below
<1>3. QED
  BY <1>1, <1>2 DEF Promise!Software

\* Debug mode runs in M mode.
DebugIsM == debug_mode => priv_lvl = "M"

LEMMA DebugIsMStep ==
  ASSUME DebugIsM, [Next]_vars PROVE DebugIsM'
<1> USE DEF DebugIsM
<1>1. CASE Exception \/ Interrupt \/ Nmi
  BY <1>1 DEF Exception, Interrupt, Nmi, SaveCause
<1>2. CASE DebugException \/ DebugEntry
  BY <1>2 DEF DebugException, DebugEntry
<1>3. CASE Mret \/ Dret
  BY <1>3 DEF Mret, Dret, debugVars
<1>4. CASE WriteMstatus \/ WriteMepc \/ WriteMcause \/ WriteCpuctrlsts
  BY <1>4 DEF WriteMstatus, WriteMepc, WriteMcause, WriteCpuctrlsts
<1>5. CASE WriteDebug \/ Execute \/ UNCHANGED vars
  BY <1>5 DEF WriteDebug, Execute, vars, debugVars
<1>6. QED
  BY <1>1, <1>2, <1>3, <1>4, <1>5 DEF Next

LEMMA InitImplements == ASSUME Init PROVE Promise!Init
<1>1. TypeOK
  BY TypeInit
<1>2. saved = <<top>> /\ top \in Promise!Frame
  BY <1>1, TopType, SavedShape DEF Init
<1>3. [pc |-> depc, priv |-> dcsr_prv] \in [pc : Pcs, priv : Promise!Priv]
  BY <1>1 DEF TypeOK, Priv, Promise!Priv
<1>4. QED
  BY <1>2, <1>3 DEF Init, Promise!Init

LEMMA StepImplements ==
  ASSUME TypeOK, TypeOK', DebugIsM, [Next]_vars
  PROVE  [Promise!Next]_(Promise!stackVars)
<1> USE DEF Promise!Next
<1>1. CASE Exception
  <2>1. Promise!Trap("exception")
    BY <1>1, TrapImplements DEF Exception, Cause, TypeOK, Deeper, debugVars
  <2>2. QED
    BY <2>1 DEF Promise!Exception
<1>2. CASE Interrupt
  <2>1. Promise!Trap("irq")
    BY <1>2, TrapImplements DEF Interrupt, Cause, TypeOK, Deeper, debugVars
  <2>2. ~Promise!two
    BY <1>2, SavedShape DEF Interrupt, Promise!two
  <2>3. QED
    BY <1>2, <2>1, <2>2 DEF Interrupt, Promise!Interrupt
<1>3. CASE Nmi
  <2>1. Promise!Trap("nmi")
    BY <1>3, TrapImplements DEF Nmi, Cause, TypeOK, Deeper, debugVars
  <2>2. ~Promise!two
    BY <1>3, SavedShape DEF Nmi, Promise!two
  <2>3. QED
    BY <2>1, <2>2 DEF Promise!Nmi
<1>4. CASE Mret
  BY <1>4, MretImplements
<1>5. CASE DebugException \/ Execute
  <2>1. saved' = saved
    BY <1>5 DEF DebugException, Execute, saved
  <2>2. Promise!Run
    BY <1>5, <2>1 DEF DebugException, Execute, DebugIsM, debugVars, Promise!Run
  <2>3. QED
    BY <2>2
<1>6. CASE DebugEntry
  <2>1. saved' = saved
    BY <1>6 DEF DebugEntry, saved
  <2>2. Promise!DebugEntry
    BY <1>6, <2>1 DEF DebugEntry, Promise!DebugEntry, TypeOK
  <2>3. QED
    BY <2>2
<1>7. CASE Dret
  <2>1. saved' = saved
    BY <1>7 DEF Dret, saved
  <2>2. Promise!DebugExit
    BY <1>7, <2>1 DEF Dret, Promise!DebugExit
  <2>3. QED
    BY <2>2
<1>8. CASE WriteDebug
  <2>1. saved' = saved
    BY <1>8 DEF WriteDebug, saved
  <2>2. [pc |-> depc, priv |-> dcsr_prv]' \in [pc : Pcs, priv : Promise!Priv]
    BY DEF TypeOK, Priv, Promise!Priv
  <2>3. Promise!Debugger
    BY <1>8, <2>1, <2>2 DEF WriteDebug, Promise!Debugger
  <2>4. QED
    BY <2>3
<1>9. CASE WriteMstatus \/ WriteMepc \/ WriteMcause
  <2>1. mstatus'.mie \in BOOLEAN
    BY DEF TypeOK, Status
  <2>2. Promise!Software
    BY <1>9, <2>1, SoftwareImplements
    DEF WriteMstatus, WriteMepc, WriteMcause, debugVars
  <2>3. QED
    BY <2>2
<1>10. CASE WriteCpuctrlsts \/ UNCHANGED vars
  <2>1. UNCHANGED <<priv_lvl, mstatus, mepc, mcause, mstack, dcsr_prv, depc,
                    nmi_mode, debug_mode, pc>>
    BY <1>10 DEF WriteCpuctrlsts, vars, debugVars
  <2>2. saved' = saved
    BY <2>1 DEF saved
  <2>3. QED
    BY <2>1, <2>2 DEF Promise!stackVars
<1>11. QED
  BY <1>1, <1>2, <1>3, <1>4, <1>5, <1>6, <1>7, <1>8, <1>9, <1>10 DEF Next

\* For all addresses and any nesting, the registers are the stack software
\* relies on.
THEOREM TrapImplementsStack == Spec => ImplementsTrapStack
<1>1. Init => DebugIsM
  BY DEF Init, DebugIsM
<1>2. DebugIsM /\ [Next]_vars => DebugIsM'
  BY DebugIsMStep
<1>3. TypeOK /\ TypeOK' /\ DebugIsM /\ [Next]_vars => [Promise!Next]_(Promise!stackVars)
  BY StepImplements
<1>4. QED
  BY <1>1, <1>2, <1>3, InitImplements, TypeInit, TypeStep, PTL
  DEF Spec, ImplementsTrapStack, Promise!Spec
=============================================================================
