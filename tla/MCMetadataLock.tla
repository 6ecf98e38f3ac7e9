---------------------------- MODULE MCMetadataLock ----------------------------
(***************************************************************************)
(* The scripts of one regression with one test: two that set the generator *)
(* up, the build of the testbench beside them, two scripts of the test, and *)
(* those that come after all tests.                                         *)
(***************************************************************************)
EXTENDS MetadataLock

\* What a script does with the metadata.  "reads": it loads it without the lock.
\* "locks": it uses LockedMetadata, and sets the fields "sets" in its body.  "runs":
\* it runs commands after that, on which it can fail.
script(reads, locks, sets, runs) ==
  [reads |-> reads, locks |-> locks, sets |-> sets, runs |-> runs]

\* Prints the template under the lock.
render_config_template == script(FALSE, TRUE, {}, FALSE)

build_instr_gen == script(FALSE, TRUE, {"riscvdv_build_stdout", "riscvdv_build_cmds"}, TRUE)

\* The commands for the testbench are made under the lock, pkg-config is called
\* for them; they run one after the other until one fails.
compile_tb == script(FALSE, TRUE, {"tb_build_log", "tb_build_stdout", "tb_build_cmds"}, TRUE)

get_fcov == script(FALSE, TRUE, {"riscvdv_fcov_cmds", "riscvdv_fcov_stdout"}, TRUE)

\* Both merges get the metadata that main has loaded before, and load it again
\* under the lock.
merge_cov_vcs ==
  script(TRUE, TRUE, {"cov_merge_log", "cov_merge_stdout", "cov_merge_cmds"}, TRUE)

merge_cov_xlm ==
  script(TRUE, TRUE, {"cov_merge_db_list", "cov_merge_log", "cov_merge_stdout", "cov_merge_cmds",
                      "cov_report_log", "cov_report_stdout", "cov_report_cmds"}, TRUE)

\* Other simulators have no merge: the script reads and raises.
merge_cov(simulator) ==
  CASE simulator = "vcs" -> merge_cov_vcs
    [] simulator = "xlm" -> merge_cov_xlm
    [] OTHER -> script(TRUE, FALSE, {}, TRUE)

\* All reports are written under the lock.
collect_results == script(FALSE, TRUE, {"regr_log", "regr_log_junit", "regr_log_junit_merged"}, FALSE)

\* The scripts of a test.
run_instr_gen == script(TRUE, FALSE, {}, TRUE)
run_rtl       == script(TRUE, FALSE, {}, FALSE)

MCDoes ==
  [render_config_template |-> render_config_template,
   build_instr_gen |-> build_instr_gen,
   run_instr_gen   |-> run_instr_gen,
   compile_tb      |-> compile_tb,
   run_rtl         |-> run_rtl,
   get_fcov        |-> get_fcov,
   merge_cov       |-> merge_cov("vcs"),
   collect_results |-> collect_results]

MCScripts == DOMAIN MCDoes

\* The stages of the regression, from wrapper.mk and ibex_sim.mk.
MCBefore ==
  [render_config_template |-> {},
   build_instr_gen |-> {"render_config_template"},
   run_instr_gen   |-> {"build_instr_gen"},
   compile_tb      |-> {},
   run_rtl         |-> {"compile_tb", "run_instr_gen"},
   get_fcov        |-> {"run_rtl"},
   merge_cov       |-> {"get_fcov"},
   collect_results |-> {"merge_cov"}]
=============================================================================
