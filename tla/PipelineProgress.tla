--------------------------- MODULE PipelineProgress ---------------------------
(***************************************************************************)
(* Progress of the pipeline.  Every cycle is a step here, also one that    *)
(* leaves the pipeline as it is, because the clock changes: time passes,   *)
(* and the inputs of a cycle stay free.  Instructions arrive, accesses are *)
(* granted and answered, and multiplications end, in the end; nothing is   *)
(* assumed of interrupts and debug requests.  It is only checked by TLC, on *)
(* the instances of MCPipeline.                                            *)
(***************************************************************************)
EXTENDS MCPipeline

VARIABLE clk   \* parity of the cycle

clkVars == <<vars, clk>>

Tick(in) == Cycle(in) /\ clk' = ~clk

ClockInit == Init /\ clk = FALSE
ClockNext == \E in \in Inputs : Tick(in)

Fetched    == \E in \in Inputs : in.fetch /\ Tick(in)
Granted    == \E in \in Inputs : lsu_busy /\ in.done /\ Tick(in)
Answered   == \E in \in Inputs : in.resp # "none" /\ Tick(in)
Multiplied == \E in \in Inputs :
                multdiv_en_dec /\ instr_executing(in) /\ in.ex_valid /\ Tick(in)

FairSpec ==
  /\ ClockInit /\ [][ClockNext]_clkVars
  /\ WF_clkVars(ClockNext)
  /\ WF_clkVars(Fetched) /\ WF_clkVars(Granted) /\ WF_clkVars(Answered)
  /\ WF_clkVars(Multiplied)

\* The stalls of ID, WB and the controller never wait for each other: the hart
\* completes instructions or takes traps for ever, or it sleeps.
NeverStuck == []<>(retired # <<>> \/ transfer # <<>> \/ ctrl_fsm = "SLEEP")

\* Cycles in which a line is high; in debug mode, which looks at none, Inputs has
\* them low.
IrqHeld == \E in \in Inputs : (debug_mode \/ (in.irqs # {} /\ in.irq_enabled)) /\ Tick(in)
IrqPendingHeld == \E in \in Inputs : (debug_mode \/ in.irqs # {}) /\ Tick(in)
DebugReqHeld == \E in \in Inputs : (debug_mode \/ in.debug_req) /\ Tick(in)

\* An enabled interrupt that stays is taken, whatever the pipeline is doing, if
\* the debugger stops entering debug mode and NMI handlers return.
InterruptServed ==
  <>[][IrqHeld]_clkVars /\ <>[]~debug_mode /\ []<>~nmi_mode
    => []<>(transfer # <<>> /\ transfer[1].kind = "interrupt")

\* A debug request that stays is served.
DebugServed == <>[][DebugReqHeld]_clkVars => []<>debug_mode

\* What asks for the core from outside, and stays, is served.
RequestsServed == InterruptServed /\ DebugServed

\* A pending interrupt wakes the core, also if it is masked.
Wakes == <>[][IrqPendingHeld]_clkVars => []<>(ctrl_fsm # "SLEEP")
=============================================================================
