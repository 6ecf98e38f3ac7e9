------------------------------ MODULE MCPipeline ------------------------------
(* Instances of Pipeline for TLC. *)
EXTENDS Pipeline

MCVector == [BOOT |-> 0, EXC |-> 2, IRQ |-> 1, DBD |-> 2, DBG_EXC |-> 0]

Plain(kind)       == [NoInstr EXCEPT !.kind = kind]
Reading(kind)     == [Plain(kind) EXCEPT !.reads = TRUE]
Failing(kind)     == [Plain(kind) EXCEPT !.fetch_err = TRUE]
To(kind, target)  == [Plain(kind) EXCEPT !.target = target]

\* What memory instructions, jumps, exceptions, returns, sleep and debug do to
\* each other.  Others add no control of their own: "dret" outside debug mode is
\* an illegal instruction, a branch that is not taken is like "alu", and "alu_multi"
\* is a multiplication that takes two cycles.
MCPrograms ==
  {Plain(k) : k \in {"muldiv", "load", "store", "ecall", "ebreak", "mret", "dret",
                     "wfi", "csr"}} \cup
  {Reading("alu"), Reading("load"), To("jump", 0), To("branch_taken", 2),
   Failing("jump")}

\* For liveness.
MCProgress ==
  {Plain(k) : k \in {"muldiv", "load", "ecall", "mret", "dret", "wfi", "csr"}} \cup
  {To("jump", 0), Reading("alu")}

\* An EBREAK next to a breakpoint.
MCBreakpoint == {Plain("alu"), Plain("ebreak"), Plain("csr"), Plain("dret")}

\* ibex_configs.yaml: every configuration named there is one of these two in its
\* pipeline, or the second without breakpoints and without integrity errors.
Small ==
  [WritebackStage |-> FALSE, BranchTargetALU |-> FALSE,
   DbgTriggerEn |-> FALSE, MemECC |-> FALSE]
Opentitan ==
  [WritebackStage |-> TRUE, BranchTargetALU |-> TRUE,
   DbgTriggerEn |-> TRUE, MemECC |-> TRUE]
Maxperf == [Opentitan EXCEPT !.DbgTriggerEn = FALSE, !.MemECC = FALSE]

SmallAndOpentitan == {Small, Opentitan}
OnlyOpentitan     == {Opentitan}
OnlyMaxperf       == {Maxperf}

\* None of the bits, step alone or ebreakm alone.
MCDcsr == {d \in Dcsr : ~(d.step /\ d.ebreakm) /\ ~d.ebreaku}

\* MCProgress has no EBREAK.
MCStep == {d \in Dcsr : ~d.ebreakm /\ ~d.ebreaku}
=============================================================================
