---------------------------- MODULE TestRunResult ----------------------------
(***************************************************************************)
(* The record of one test (test_run_result.py), what the scripts of its    *)
(* stages do to it, and what they read out of the files that a simulation  *)
(* leaves: the verdict in the UVM log and the instructions in the trace of *)
(* the core.  Lines are told apart by the texts that the scripts look for. *)
(* Of the fields of the record it has those that one script sets and       *)
(* another reads: the verdict and the path of the assembly file.           *)
(***************************************************************************)
EXTENDS Naturals, Sequences

CONSTANT CONTEXT   \* lines around an error that are shown: 5 in the code

ASSUME UvmLogAssumption == CONTEXT \in Nat

\* A line with 'UVM_ERROR', 'UVM_FATAL' or 'Error'; one of them with the message
\* of the wall-clock timeout; the two lines of core_ibex_report_server.
ErrorLine == {"error", "walltime"}
Line == ErrorLine \cup {"plain", "passed", "failed"}

\* The loop over the lines; "ended" is its break.
Scanning == [passed |-> FALSE, failed |-> FALSE, error_linenum |-> 0,
             test_result_seen |-> FALSE, ended |-> FALSE]

scan_line(s, line, n) ==
  LET error == line \in ErrorLine /\ ~s.test_result_seen
  IN  [passed           |-> s.passed \/ line = "passed",
       failed           |-> s.failed \/ error \/ line = "failed",
       error_linenum    |-> IF error THEN n ELSE s.error_linenum,
       test_result_seen |-> s.test_result_seen \/ line \in {"passed", "failed"},
       ended            |-> line = "failed"]

scan(log) ==
  LET after[n \in 0 .. Len(log)] ==
        IF n = 0 THEN Scanning
        ELSE IF after[n - 1].ended THEN after[n - 1]
        ELSE scan_line(after[n - 1], log[n], n)
  IN  after[Len(log)]

\* A FAILED line without an error line before it leaves error_line at None, and
\* the search in it raises a TypeError.
Raises(log) == scan(log).failed /\ scan(log).error_linenum = 0

\* The numbers of the lines that are shown, and the result for a log on which the
\* script does not raise.
log_out(log) ==
  LET e == scan(log).error_linenum
  IN  {n \in DOMAIN log : n + CONTEXT >= e /\ n < e + CONTEXT}

\* Mutant: a log without errors is a pass.
check_ibex_uvm_log_Clean(log) ==
  [passed |-> ~scan(log).failed, log_out |-> {},
   failure_mode |-> IF scan(log).failed THEN "LOG_ERROR" ELSE "NONE"]

check_ibex_uvm_log(log) ==
  LET s == scan(log)
  IN  [passed       |-> s.passed /\ ~s.failed,
       log_out      |-> IF s.failed THEN log_out(log) ELSE {},
       failure_mode |-> IF ~s.failed THEN "NONE"
                        ELSE IF log[s.error_linenum] = "walltime" THEN "TIMEOUT"
                        ELSE "LOG_ERROR"]

-----------------------------------------------------------------------------
\* The trace, of lines "instr", "other" and "ecall": what comes from the first
\* ecall on is not read.  A csv with no instruction is an error.
instr_cnt(trace) ==
  LET read == {n \in DOMAIN trace : \A m \in 1 .. n : trace[m] # "ecall"}
  IN  {n \in read : trace[n] = "instr"}

process_ibex_sim_log_ok(trace) == instr_cnt(trace) # {}

-----------------------------------------------------------------------------
Failure_Modes == {"NONE", "TIMEOUT", "FILE_ERROR", "LOG_ERROR"}

\* "unset" is None.
TestRun == [passed       : {"unset", "true", "false"},
            failure_mode : Failure_Modes \cup {"unset"},
            assembly     : BOOLEAN]

\* What create_metadata makes.
NewTestRun == [passed |-> "unset", failure_mode |-> "unset", assembly |-> FALSE]

\* What is on disk while a record is written, or after a writer was killed.
Torn == [torn |-> TRUE]

\* What one simulation leaves.  "killed": the process outlived its time.
\* "started": the simulator ran and wrote its log.  "exists": there is an
\* rtl_sim.log.  A log of no lines is one that cannot be opened.
Outcome == [started : BOOLEAN, killed : BOOLEAN, exists : BOOLEAN, log : Seq(Line),
            trace : Seq({"instr", "other", "ecall"})]

\* A test that was never simulated leaves neither log nor trace.
NoOutcome == [started |-> FALSE, killed |-> FALSE, exists |-> FALSE, log |-> <<>>,
              trace |-> <<>>]

\* What run_rtl does to the record after the simulation.
after_run_rtl(trr, outcome) ==
  IF outcome.killed THEN [trr EXCEPT !.failure_mode = "TIMEOUT"] ELSE trr

failed_by(trr, mode) == [trr EXCEPT !.passed = "false", !.failure_mode = mode]

\* Mutant: a log without a verdict is good enough.
compare_test_run_Lax(trr, files) ==
  CASE trr.failure_mode = "TIMEOUT" -> [trr EXCEPT !.passed = "false"]
    [] trr.failure_mode # "TIMEOUT" /\ scan(files.log).failed ->
         [trr EXCEPT !.failure_mode = check_ibex_uvm_log(files.log).failure_mode]
    [] OTHER -> [trr EXCEPT !.passed = "true"]

\* An error in the UVM log sets the failure mode and leaves "passed" as it was.
compare_test_run(trr, files) ==
  LET uvm == check_ibex_uvm_log(files.log)
  IN  CASE trr.failure_mode = "TIMEOUT" -> [trr EXCEPT !.passed = "false"]
        [] trr.failure_mode # "TIMEOUT" /\ ~process_ibex_sim_log_ok(files.trace) ->
             failed_by(trr, "FILE_ERROR")
        [] trr.failure_mode # "TIMEOUT" /\ process_ibex_sim_log_ok(files.trace)
             /\ files.log = <<>> -> failed_by(trr, "FILE_ERROR")
        [] OTHER -> IF uvm.passed THEN [trr EXCEPT !.passed = "true"]
                    ELSE [trr EXCEPT !.failure_mode = uvm.failure_mode]

\* The record is not touched when the script raises.
compare_raises(trr, files) ==
  /\ trr.failure_mode # "TIMEOUT"
  /\ process_ibex_sim_log_ok(files.trace)
  /\ Raises(files.log)

\* The verdict of collect_results.
verdict(trr) == IF trr.passed = "true" THEN "PASS"
                ELSE IF trr.failure_mode = "TIMEOUT" THEN "FAILED {T}"
                ELSE "FAILED"

-----------------------------------------------------------------------------
\* The log of a pass: it says so, no error comes before that, and it has no FAILED.
PassedLog(log) ==
  /\ \E n \in DOMAIN log : log[n] = "passed" /\ \A m \in 1 .. n : log[m] \notin ErrorLine
  /\ \A n \in DOMAIN log : log[n] # "failed"

\* The files of a pass: instructions were executed, and the log is one of a pass.
PassedFiles(files) ==
  /\ \E n \in DOMAIN files.trace :
       files.trace[n] = "instr" /\ \A m \in 1 .. n : files.trace[m] # "ecall"
  /\ PassedLog(files.log)

\* A simulation is a pass: it ran to its end and left the files of one.
Good(outcome) == outcome.started /\ ~outcome.killed /\ PassedFiles(outcome)
=============================================================================
