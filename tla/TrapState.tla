------------------------------- MODULE TrapState -------------------------------
(***************************************************************************)
(* The trap and return state of rtl/ibex_cs_registers.sv: privilege level, *)
(* mstatus, mepc and mcause with the copy an NMI keeps of them, dcsr and   *)
(* dpc, and the bits that recognise a double fault.  One step is a cycle   *)
(* in which the controller saves or restores this state, software writes   *)
(* it, or instructions just run.  Trap values and the vector are left out; *)
(* nmi_mode and debug_mode are the controller's.                           *)
(***************************************************************************)
EXTENDS Naturals, TLC

CONSTANTS
  Pcs,         \* addresses
  MaxDepth     \* bound: traps that have not returned

Priv  == {"M", "U"}
Cause == {"exception", "irq", "nmi"}
Status == [mie : BOOLEAN, mpie : BOOLEAN, mpp : Priv, mprv : BOOLEAN]
Stack  == [mpie : BOOLEAN, mpp : Priv, epc : Pcs, cause : Cause]

ASSUME TrapAssumption == Pcs # {} /\ MaxDepth \in Nat

\* No action and no property tells one address from another.
Symmetry == Permutations(Pcs)

VARIABLES
  priv_lvl,        \* priv_lvl_q
  mstatus, mepc, mcause,
  mstack,          \* mstack_q, mstack_epc_q, mstack_cause_q
  dcsr_prv, depc,
  sync_exc_seen, double_fault_seen,   \* fields of cpuctrlsts
  nmi_mode, debug_mode,
  \* Observed:
  pc,              \* the instruction to execute next
  depth,           \* traps that have not returned
  meddled,         \* the debugger has written mstatus or dcsr.prv
  armed            \* software set sync_exc_seen itself

vars == <<priv_lvl, mstatus, mepc, mcause, mstack, dcsr_prv, depc,
          sync_exc_seen, double_fault_seen, nmi_mode, debug_mode, pc, depth,
          meddled, armed>>

debugVars == <<dcsr_prv, depc, debug_mode, meddled>>
faultVars == <<sync_exc_seen, double_fault_seen, armed>>

-----------------------------------------------------------------------------
(* The controller saves the state: csr_save_cause_i. *)

mstack_d == [mpie |-> mstatus.mpie, mpp |-> mstatus.mpp, epc |-> mepc,
             cause |-> mcause]

\* Mutant: only the NMI itself saves to the stack.
SaveCause_StackNmiOnly(cause) ==
  /\ priv_lvl' = "M"
  /\ mstatus' = [mstatus EXCEPT !.mie = FALSE, !.mpie = mstatus.mie,
                                !.mpp = priv_lvl]
  /\ mepc' = pc
  /\ mcause' = cause
  /\ mstack' = IF cause = "nmi" THEN mstack_d ELSE mstack

SaveCause(cause) ==
  /\ priv_lvl' = "M"
  /\ mstatus' = [mstatus EXCEPT !.mie = FALSE, !.mpie = mstatus.mie,
                                !.mpp = priv_lvl]
  /\ mepc' = pc
  /\ mcause' = cause
  /\ mstack' = mstack_d

Deeper == depth < MaxDepth /\ depth' = depth + 1 /\ pc' \in Pcs

\* A second exception before a return from the first is a double fault.
Exception ==
  /\ ~debug_mode
  /\ SaveCause("exception")
  /\ sync_exc_seen' = TRUE
  /\ double_fault_seen' = (double_fault_seen \/ sync_exc_seen)
  /\ Deeper
  /\ UNCHANGED <<nmi_mode, armed, debugVars>>

\* In debug mode an exception leaves every register alone.
DebugException ==
  /\ debug_mode
  /\ priv_lvl' = "M"
  /\ pc' \in Pcs
  /\ UNCHANGED <<mstatus, mepc, mcause, mstack, faultVars, nmi_mode, debugVars,
                 depth>>

Interrupt ==
  /\ ~debug_mode /\ ~nmi_mode
  /\ mstatus.mie \/ priv_lvl = "U"
  /\ SaveCause("irq")
  /\ Deeper
  /\ UNCHANGED <<faultVars, nmi_mode, debugVars>>

Nmi ==
  /\ ~debug_mode /\ ~nmi_mode
  /\ SaveCause("nmi")
  /\ nmi_mode' = TRUE
  /\ Deeper
  /\ UNCHANGED <<faultVars, debugVars>>

DebugEntry ==
  /\ ~debug_mode
  /\ debug_mode' = TRUE
  /\ priv_lvl' = "M"
  /\ dcsr_prv' = priv_lvl
  /\ depc' = pc
  /\ pc' \in Pcs
  /\ UNCHANGED <<mstatus, mepc, mcause, mstack, faultVars, nmi_mode, depth,
                 meddled>>

-----------------------------------------------------------------------------
(* The controller restores it: csr_restore_mret_i and csr_restore_dret_i. *)

\* Mutant: a return to U mode keeps MPRV.
mstatus_mret_KeepsMprv ==
  [mstatus EXCEPT !.mie  = mstatus.mpie,
                  !.mpie = IF nmi_mode THEN mstack.mpie ELSE TRUE,
                  !.mpp  = IF nmi_mode THEN mstack.mpp ELSE "U"]

mstatus_mret ==
  [mstatus EXCEPT !.mie  = mstatus.mpie,
                  !.mprv = mstatus.mprv /\ mstatus.mpp = "M",
                  !.mpie = IF nmi_mode THEN mstack.mpie ELSE TRUE,
                  !.mpp  = IF nmi_mode THEN mstack.mpp ELSE "U"]

\* Mutant: only a return from what mcause calls an exception clears the bit.
Mret_ByCause ==
  /\ ~debug_mode /\ priv_lvl = "M"
  /\ priv_lvl' = mstatus.mpp
  /\ mstatus' = mstatus_mret
  /\ pc' = mepc
  /\ mepc' = IF nmi_mode THEN mstack.epc ELSE mepc
  /\ mcause' = IF nmi_mode THEN mstack.cause ELSE mcause
  /\ sync_exc_seen' = (sync_exc_seen /\ mcause # "exception")
  /\ armed' = (armed /\ sync_exc_seen')
  /\ nmi_mode' = FALSE
  /\ depth' = IF depth = 0 THEN 0 ELSE depth - 1
  /\ UNCHANGED <<mstack, double_fault_seen, debugVars>>

\* mret is illegal in U mode, and no program of a debugger.
Mret ==
  /\ ~debug_mode /\ priv_lvl = "M"
  /\ priv_lvl' = mstatus.mpp
  /\ mstatus' = mstatus_mret
  /\ pc' = mepc
  /\ mepc' = IF nmi_mode THEN mstack.epc ELSE mepc
  /\ mcause' = IF nmi_mode THEN mstack.cause ELSE mcause
  /\ sync_exc_seen' = FALSE /\ armed' = FALSE
  /\ nmi_mode' = FALSE
  /\ depth' = IF depth = 0 THEN 0 ELSE depth - 1
  /\ UNCHANGED <<mstack, double_fault_seen, debugVars>>

Dret ==
  /\ debug_mode
  /\ debug_mode' = FALSE
  /\ priv_lvl' = dcsr_prv
  /\ pc' = depc
  /\ UNCHANGED <<mstatus, mepc, mcause, mstack, faultVars, nmi_mode, dcsr_prv,
                 depc, depth, meddled>>

-----------------------------------------------------------------------------
(* Writes of M mode software and of the debugger. *)

\* Privilege levels that software writes; "S" stands for those there are not.
Written == Priv \cup {"S"}

\* Mutant: the level is written as it is.
Legal_AsWritten(p) == p

Legal(p) == IF p \in Priv THEN p ELSE "U"

WriteMstatus ==
  /\ priv_lvl = "M"
  /\ \E mie, mpie, mprv \in BOOLEAN, p \in Written :
       mstatus' = [mie |-> mie, mpie |-> mpie, mpp |-> Legal(p), mprv |-> mprv]
  /\ meddled' = (meddled \/ debug_mode)
  /\ UNCHANGED <<priv_lvl, mepc, mcause, mstack, faultVars, nmi_mode, dcsr_prv,
                 depc, debug_mode, pc, depth>>

WriteMepc ==
  /\ priv_lvl = "M"
  /\ mepc' \in Pcs
  /\ UNCHANGED <<priv_lvl, mstatus, mcause, mstack, faultVars, nmi_mode,
                 debugVars, pc, depth>>

WriteMcause ==
  /\ priv_lvl = "M"
  /\ mcause' \in Cause
  /\ UNCHANGED <<priv_lvl, mstatus, mepc, mstack, faultVars, nmi_mode,
                 debugVars, pc, depth>>

\* The two bits are written as they are: software may set them as well as clear
\* what it has seen.
WriteCpuctrlsts ==
  /\ priv_lvl = "M"
  /\ sync_exc_seen' \in BOOLEAN
  /\ double_fault_seen' \in BOOLEAN
  /\ armed' = (sync_exc_seen' /\ (armed \/ ~sync_exc_seen))
  /\ UNCHANGED <<priv_lvl, mstatus, mepc, mcause, mstack, nmi_mode, debugVars,
                 pc, depth>>

WriteDebug ==
  /\ debug_mode
  /\ depc' \in Pcs
  /\ dcsr_prv' \in {Legal(p) : p \in Written}
  /\ meddled' = (meddled \/ dcsr_prv' # dcsr_prv)
  /\ UNCHANGED <<priv_lvl, mstatus, mepc, mcause, mstack, faultVars, nmi_mode,
                 debug_mode, pc, depth>>

Execute ==
  /\ pc' \in Pcs
  /\ UNCHANGED <<priv_lvl, mstatus, mepc, mcause, mstack, faultVars, nmi_mode,
                 debugVars, depth>>

Init ==
  /\ priv_lvl = "M"
  /\ mstatus = [mie |-> FALSE, mpie |-> TRUE, mpp |-> "U", mprv |-> FALSE]
  /\ mepc \in Pcs
  /\ mcause = "exception"   \* reset to 0, an exception code
  /\ mstack = [mpie |-> TRUE, mpp |-> "U", epc |-> mepc, cause |-> "exception"]
  /\ dcsr_prv = "M" /\ depc = mepc
  /\ sync_exc_seen = FALSE /\ double_fault_seen = FALSE
  /\ nmi_mode = FALSE /\ debug_mode = FALSE
  /\ pc \in Pcs /\ depth = 0 /\ meddled = FALSE /\ armed = FALSE

Next ==
  \/ Exception \/ DebugException \/ Interrupt \/ Nmi \/ DebugEntry
  \/ Mret \/ Dret
  \/ WriteMstatus \/ WriteMepc \/ WriteMcause \/ WriteCpuctrlsts \/ WriteDebug
  \/ Execute

Spec == Init /\ [][Next]_vars

-----------------------------------------------------------------------------
(* Properties. *)

TypeOK ==
  /\ priv_lvl \in Priv /\ mstatus \in Status
  /\ mepc \in Pcs /\ mcause \in Cause
  /\ mstack \in Stack
  /\ dcsr_prv \in Priv /\ depc \in Pcs
  /\ sync_exc_seen \in BOOLEAN /\ double_fault_seen \in BOOLEAN
  /\ nmi_mode \in BOOLEAN /\ debug_mode \in BOOLEAN
  /\ pc \in Pcs /\ depth \in 0 .. MaxDepth
  /\ meddled \in BOOLEAN /\ armed \in BOOLEAN

\* The contexts the registers can restore, the last interrupted one first.
saved ==
  LET top   == [pc |-> mepc, priv |-> mstatus.mpp, mie |-> mstatus.mpie,
                cause |-> mcause]
      below == [pc |-> mstack.epc, priv |-> mstack.mpp, mie |-> mstack.mpie,
                cause |-> mstack.cause]
  IN  IF nmi_mode THEN <<top, below>> ELSE <<top>>

\* The registers are the stack software relies on: a return resumes what the
\* last trap interrupted, and a return from an NMI leaves the registers as they
\* were for the handler it interrupted; debug mode disturbs none of it.
Promise == INSTANCE TrapStack WITH
  priv <- priv_lvl, mie <- mstatus.mie, debug <- debug_mode,
  dsaved <- [pc |-> depc, priv |-> dcsr_prv]
ImplementsTrapStack == Promise!Spec

\* U mode never runs with MPRV, which would give its loads and stores the
\* privilege in MPP; only a debugger that writes mstatus or dcsr.prv can bring that
\* about, since dret keeps MPRV.
MprvOnlyInM == ~meddled /\ ~debug_mode /\ priv_lvl = "U" => ~mstatus.mprv

\* The hardware takes a second exception for a double fault only while a trap has
\* not returned: sync_exc_seen is never left over from a handler that is done,
\* however traps nest and whatever the causes in mcause; outside a handler it is
\* set only where software wrote it so.
DoubleFaultInHandler == sync_exc_seen => depth > 0 \/ armed
=============================================================================
