------------------------------ MODULE IbexConfig ------------------------------
(***************************************************************************)
(* A configuration of the core (ibex_config.py) and what is made of it: the *)
(* options with which a simulator builds the core, at compile time, when it *)
(* starts, or both (ibex_cmd.py); and the instruction sets that the         *)
(* generator, the compiler and the ISS are told.                            *)
(***************************************************************************)
EXTENDS Integers

known_fields ==
  [RV32E |-> "bool", RV32M |-> "str", RV32B |-> "str", RV32ZC |-> "str", RegFile |-> "str",
   BranchTargetALU |-> "bool", WritebackStage |-> "bool", ICache |-> "bool",
   ICacheECC |-> "bool", ICacheScramble |-> "bool", BranchPredictor |-> "bool",
   DbgTriggerEn |-> "bool", SecureIbex |-> "bool", PMPEnable |-> "bool",
   PMPGranularity |-> "int", PMPNumRegions |-> "int", MHPMCounterNum |-> "int",
   MHPMCounterWidth |-> "int"]

\* A value of the yaml file: a truth value, an integer (both with a number) or a
\* string.
Bool(n) == [type |-> "bool", n |-> n, s |-> ""]
Int_(n) == [type |-> "int", n |-> n, s |-> ""]
Str(s)  == [type |-> "str", n |-> 0, s |-> s]

Value == [type : {"bool"}, n : {0, 1}, s : {""}] \cup [type : {"int"}, n : Int, s : {""}]
           \cup [type : {"str"}, n : {0}, s : STRING]

\* Truth values are integers too, and 0 and 1 are truth values.
readable(type, val) ==
  CASE type = "bool" -> val.type = "bool" \/ (val.type = "int" /\ val.n \in {0, 1})
    [] type = "int"  -> val.type \in {"bool", "int"}
    [] OTHER         -> val.type = "str"

\* Whether a Config can be made of the entry of a configuration.
Config_ok(yml) ==
  /\ DOMAIN yml = DOMAIN known_fields
  /\ \A f \in DOMAIN yml : readable(known_fields[f], yml[f])

\* All configurations of the file have to be good.
parse_config_ok(configs, name) ==
  name \in DOMAIN configs /\ \A c \in DOMAIN configs : Config_ok(configs[c])

-----------------------------------------------------------------------------
\* The outputs: which of them sets parameters and which defines.
outputters ==
  [vcs_opts |-> {"param", "define"}, xlm_opts |-> {"param", "define"},
   dsim_opts |-> {"param", "define"},
   riviera_sim_opts |-> {"param"}, riviera_compile_opts |-> {"define"},
   questa_sim_opts |-> {"param"}, questa_compile_opts |-> {"define"}]

\* Strings are passed as defines, all else as the integer it is.
SimOpts(kinds, config) ==
  {[field |-> f, how |-> "define", value |-> Str(config[f].s)] :
     f \in {g \in DOMAIN known_fields : known_fields[g] = "str" /\ "define" \in kinds}}
  \cup
  {[field |-> f, how |-> "param", value |-> Int_(config[f].n)] :
     f \in {g \in DOMAIN known_fields : known_fields[g] # "str" /\ "param" \in kinds}}

FusesocOpts(config) == {[field |-> f, value |-> config[f]] : f \in DOMAIN known_fields}

\* What is not found is said so.
QueryOpts(config, fields) ==
  {[field |-> f, found |-> f \in DOMAIN config] : f \in fields}

\* The stages that take options: all in the first one, except where both do.
SIM_CFGS ==
  [vcs     |-> {"compile"}, xlm |-> {"compile"}, dsim |-> {"compile"},
   riviera |-> {"compile", "sim"}, questa |-> {"compile", "sim"}]

output_type(simulator, stage) ==
  CASE simulator = "vcs" -> "vcs_opts" [] simulator = "xlm" -> "xlm_opts"
    [] simulator = "dsim" -> "dsim_opts"
    [] simulator = "riviera" -> IF stage = "sim" THEN "riviera_sim_opts" ELSE "riviera_compile_opts"
    [] simulator = "questa" -> IF stage = "sim" THEN "questa_sim_opts" ELSE "questa_compile_opts"

\* Mutant: the options for the start of a simulation are not asked for.
get_x_opts_Compile(config, simulator, stage) ==
  IF stage # "compile" THEN {} ELSE SimOpts(outputters[output_type(simulator, stage)], config)

get_x_opts(config, simulator, stage) ==
  IF stage \notin SIM_CFGS[simulator] THEN {}
  ELSE SimOpts(outputters[output_type(simulator, stage)], config)

-----------------------------------------------------------------------------
bitmanip_mapping ==
  [RV32BNone |-> {}, RV32BBalanced |-> {"Zba", "Zbb", "Zbs", "XZbf", "XZbt"},
   RV32BOTEarlGrey |-> {"Zba", "Zbb", "Zbc", "Zbs", "XZbf", "XZbp", "XZbr", "XZbt"},
   RV32BFull |-> {"Zba", "Zbb", "Zbc", "Zbs", "XZbe", "XZbf", "XZbp", "XZbr", "XZbt"}]

\* The extensions of the generator and the compiler, and those of the ISS.
get_isas_for_config(config) ==
  LET base == {IF config["RV32E"].n # 0 THEN "e" ELSE "i", "c"}
                \cup (IF config["RV32M"].s # "RV32MNone" THEN {"m"} ELSE {})
      rv32b == config["RV32B"].s
  IN  IF rv32b \notin DOMAIN bitmanip_mapping THEN [ok |-> FALSE, toolchain |-> {}, iss |-> {}]
      ELSE [ok |-> TRUE,
            toolchain |-> base \cup (IF rv32b # "RV32BNone" THEN {"b"} ELSE {}),
            iss |-> base \cup bitmanip_mapping[rv32b]]
=============================================================================
