--------------------------- MODULE DirectedTestlist ---------------------------
(***************************************************************************)
(* gen_testlist.py writes directed_testlist.yaml: the configurations, the  *)
(* tests that are written by hand, and a test for every file that is found *)
(* in the directories of the suites that are asked for.                    *)
(***************************************************************************)
EXTENDS Naturals, SequencesExt

PMPEnable(values) == <<[name |-> "PMPEnable", values |-> values]>>

\* Mutant: the configuration of the ePMP tests is forgotten.
directed_configs_Two ==
  [c \in {"riscv-tests", "riscv-arch-tests"} |-> [valid |-> TRUE, rtl_params |-> PMPEnable({0, 1})]]

directed_configs ==
  [c \in {"riscv-tests", "riscv-arch-tests", "epmp-tests"} |->
     [valid |-> TRUE, rtl_params |-> PMPEnable(IF c = "epmp-tests" THEN {1} ELSE {0, 1})]]

custom_directed_tests ==
  {<<"empty">>, <<"mcounteren_test">>, <<"mcounteren_lock_test">>, <<"access_pmp_overlap">>,
   <<"u_mode_exec_test">>}

\* The tests of mseccfg: with rule locking bypassed or not, the lock bits set
\* before and then, what becomes of the next entry, and U mode.
pmp_mseccfg_tests(u) ==
  {<<"pmp_mseccfg_test", "rlb1", prev, l, "none", u>> : prev \in {"l0", "l1"}, l \in {"0", "1"}}
    \cup {<<"pmp_mseccfg_test", "rlb0", "l0", "0", "none", u>>}
    \cup {<<"pmp_mseccfg_test", "rlb0", "l0", "1", next, u>> :
            next \in {"l1", "r1", "w1", "x1", "r1_w1", "r1_x1", "w1_x1", "r1_w1_x1"}}

handwritten_tests ==
  custom_directed_tests \cup pmp_mseccfg_tests("u0") \cup pmp_mseccfg_tests("u1")

\* The directory and the name of the source of each.
handwritten_srcs(t) ==
  IF t = <<"mcounteren_lock_test">> THEN <<"mcounteren_test", t[1]>> ELSE <<t[1], t[1]>>

\* The sources that this checkout has for them: no directory is named "empty".
checked_in == {handwritten_srcs(t) : t \in handwritten_tests \ {<<"empty">>}}

\* An entry is "valid" when the path that it gives exists.
Entry(test, test_srcs, config, exists) ==
  [test |-> test, test_srcs |-> test_srcs, config |-> config, iterations |-> 1, valid |-> exists]

\* All of them have the configuration of riscv-tests.
add_handwritten_directed_tests(here) ==
  {Entry(t, handwritten_srcs(t), "riscv-tests", handwritten_srcs(t) \in here) :
     t \in handwritten_tests}

\* A file is listed when the letter of its extension comes after any other; what
\* stands before the extension is the name of its test, whichever directory it is
\* in, and the path of its source is made of directory and name again.
append_directed_testlist(groups, config, ls) ==
  UNION {{Entry(f.name, <<d, f.name>>, config, f.is_source) : f \in {g \in ls[d] : g.greps}} :
           d \in groups}

isa_tests  == {"rv32mi", "rv32uc", "rv32um", "rv32ui"}
arch_tests == {"M", "C", "Zifencei", "I", "B"}
epmp_tests == {"outputs"}

\* Names of suites that are not known are ignored; "all" has to stand alone.  The
\* order of the entries does not matter.
generated(suites, here, ls) ==
  LET asked(s) == s \in suites \/ suites = {"all"}
      of(s, groups) == IF asked(s) THEN append_directed_testlist(groups, s, ls) ELSE {}
      tests == add_handwritten_directed_tests(here)
                 \cup of("riscv-tests", isa_tests)
                 \cup of("riscv-arch-tests", arch_tests)
                 \cup of("epmp-tests", epmp_tests)
  IN  [configs |-> directed_configs, tests |-> FoldSet(LAMBDA t, seq : Append(seq, t), <<>>, tests)]
=============================================================================
