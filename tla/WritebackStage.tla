--------------------------- MODULE WritebackStage ---------------------------
(***************************************************************************)
(* The writeback stage, rtl/ibex_wb_stage.sv: the instruction that has     *)
(* left ID.  It stays one cycle, a load or a store until its response.     *)
(* Without the parameter WritebackStage there is no such stage and the     *)
(* register stays empty.                                                   *)
(*                                                                         *)
(* It is the first of the stages that depend on parameters of the RTL, so  *)
(* those that change the control of the pipeline are declared here.  A     *)
(* configuration is chosen once, when the core is built: the variable that *)
(* holds it never changes, so that one run covers several builds.          *)
(***************************************************************************)
EXTENDS IfStage, LsuPort

CONSTANT Configurations   \* the builds considered

Parameters ==
  [WritebackStage  : BOOLEAN,   \* three pipeline stages, or two
   BranchTargetALU : BOOLEAN,   \* an adder for branch targets
   DbgTriggerEn    : BOOLEAN,   \* hardware breakpoints
   MemECC          : BOOLEAN]   \* integrity errors raise an internal NMI

ASSUME ConfigurationAssumption == Configurations \subseteq Parameters

VARIABLE config

WritebackStage  == config.WritebackStage
BranchTargetALU == config.BranchTargetALU
DbgTriggerEn    == config.DbgTriggerEn
MemECC          == config.MemECC

-----------------------------------------------------------------------------
(* The stage. *)

VARIABLES
  wb_valid,   \* wb_valid_q
  wb_type,    \* wb_instr_type_q
  wb_pc       \* wb_pc_q

wbVars == <<wb_valid, wb_type, wb_pc>>

WbType == AccessType \cup {"other"}

outstanding_load_wb  == wb_valid /\ wb_type = "load"
outstanding_store_wb == wb_valid /\ wb_type = "store"

lsu_resp_valid(in) == in.resp # "none"

\* Mutant: an access that fails is never over.
wb_done_OkOnly(in) == wb_type = "other" \/ in.resp = "ok"

wb_done(in) == wb_type = "other" \/ lsu_resp_valid(in)

ready_wb(in) == ~wb_valid \/ wb_done(in)

WbInit == wb_valid = FALSE /\ wb_type = "other" /\ wb_pc = 0

\* One clock edge; en_wb: the instruction in ID is done, of this type.
WbCycle(in, en_wb, type) ==
  /\ wb_valid' =
       (WritebackStage /\ ((en_wb /\ ready_wb(in)) \/ (wb_valid /\ ~wb_done(in))))
  /\ IF WritebackStage /\ en_wb
       THEN wb_type' = type /\ wb_pc' = pc_id
       ELSE UNCHANGED <<wb_type, wb_pc>>
=============================================================================
