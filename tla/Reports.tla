------------------------------- MODULE Reports --------------------------------
(***************************************************************************)
(* collect_results and its reports (report_lib): two JUnit files, regr.log, *)
(* and then those that also show coverage.  A test is a record of its name, *)
(* its seed and whether it has passed.                                     *)
(***************************************************************************)
EXTENDS Integers, SequencesExt, FiniteSets

None == -1
\* Of nothing: "(0/0)".
Empty == -2

-----------------------------------------------------------------------------
\* A coverage report: lines with the names of the metrics of the columns, at which
\* the text "name" is looked for, and lines with a module and its values, in
\* hundreds of a percent; None where there is "n/a".
Line(named, metrics, module, values) ==
  [named |-> named, metrics |-> metrics, module |-> module, values |-> values]

\* The last line with "name" and the one after it are skipped, the columns of all
\* of them are put together.
parse_xcelium_cov_report(lines) ==
  LET heads   == {i \in DOMAIN lines : lines[i].named}
      start   == 2 + CHOOSE i \in heads : \A j \in heads : j <= i
      metrics == FlattenSeq([i \in DOMAIN lines |-> lines[i].metrics])
      filled(i) == {k \in DOMAIN lines[i].values : lines[i].values[k] # None}
      read(i) == [m \in {metrics[k] : k \in filled(i)} |->
                    lines[i].values[CHOOSE k \in filled(i) : metrics[k] = m]]
      rows    == {i \in DOMAIN lines : i >= start}
  IN  IF heads = {} \/ \E i \in rows : Len(lines[i].values) > Len(metrics)
      THEN [ok |-> FALSE, modules |-> <<>>]
      ELSE [ok |-> TRUE,
            modules |-> [m \in {lines[i].module : i \in rows} |->
                           read(CHOOSE i \in rows : lines[i].module = m)]]

COVERGROUP_IGNORE == {"push_pull_agent_pkg"}
IBEX_COVERAGE_METRICS ==
  {"block", "branch", "statement", "expression", "toggle", "fsm", "assertion"}

total(f, S) == FoldFunctionOnSet(+, 0, f, S)

\* The mean over the modules that have covergroups, rounded down here.
calc_cg_average(modules) ==
  LET counted == {m \in DOMAIN modules \ COVERGROUP_IGNORE : "covergroup" \in DOMAIN modules[m]}
  IN  IF counted = {} THEN None
      ELSE total([m \in counted |-> modules[m]["covergroup"]], counted) \div Cardinality(counted)

\* Without a report of the coverage there is no summary; what is in it is what the
\* top module has, and the mean.
create_cov_summary_dict(cov, cg) ==
  LET top == IF "ibex_top" \in DOMAIN cov.modules THEN cov.modules["ibex_top"] ELSE <<>>
      has == DOMAIN top \cap IBEX_COVERAGE_METRICS
  IN  [m \in has \cup {"covergroup"} |->
         IF m = "covergroup" THEN calc_cg_average(cg.modules) ELSE top[m]]

-----------------------------------------------------------------------------
names(tests) == {tests[i].name : i \in DOMAIN tests}
count(tests, name, passed) ==
  Cardinality({i \in DOMAIN tests : tests[i].name = name /\ tests[i].passed = passed})

\* Mutant: one run of a test is enough for it to pass.
create_test_summary_dict_Any(tests) ==
  [n \in names(tests) |->
     [passing |-> count(tests, n, TRUE) + IF count(tests, n, TRUE) > 0 THEN count(tests, n, FALSE) ELSE 0,
      failing |-> IF count(tests, n, TRUE) > 0 THEN 0 ELSE count(tests, n, FALSE)]]

create_test_summary_dict(tests) ==
  [n \in names(tests) |-> [passing |-> count(tests, n, TRUE), failing |-> count(tests, n, FALSE)]]

\* Per test a suite with a case for each run; merged, a suite with one case.
junit_xml(passing, failing) ==
  LET all == passing \o failing
  IN  [n \in names(all) |->
         {[seed |-> all[i].seed, failed |-> ~all[i].passed] :
            i \in {j \in DOMAIN all : all[j].name = n}}]

\* The case always has a failure, without a text when all runs have passed.
junit_merged_xml(passing, failing) ==
  [n \in names(passing \o failing) |->
     [failure |-> TRUE,
      failures |-> {failing[i].seed : i \in {j \in DOMAIN failing : failing[j].name = n}}]]

\* The line at the top and the verdicts.
text(passing, failing) ==
  [passed |-> Len(passing), failed |-> Len(failing),
   summary |-> {<<passing[i].name, passing[i].seed, "PASS">> : i \in DOMAIN passing}
                 \cup {<<failing[i].name, failing[i].seed, "FAILED">> : i \in DOMAIN failing}]

html(summary) ==
  [tests |-> [n \in DOMAIN summary |-> summary[n].passing + summary[n].failing],
   passing |-> total([n \in DOMAIN summary |-> summary[n].passing], DOMAIN summary),
   total |-> total([n \in DOMAIN summary |-> summary[n].passing + summary[n].failing],
                   DOMAIN summary)]

\* Every metric of the template has to be there.
html_ok(cov) ==
  DOMAIN cov = {} \/ (IBEX_COVERAGE_METRICS \cup {"covergroup"} \subseteq DOMAIN cov
                     /\ cov["covergroup"] # None)

\* The pass rate in hundredths of a percent; a coverage of None raises.
dvsim_json(summary, cov) ==
  [ok |-> \A m \in DOMAIN cov : cov[m] # None,
   tests |-> [n \in DOMAIN summary |->
     LET runs == summary[n].passing + summary[n].failing
     IN  [passing |-> summary[n].passing, runs |-> runs,
          rate |-> (summary[n].passing * 10000) \div runs]]]

\* The picture shows the mean of five metrics, all of which have to be there.  It
\* is made of elements side by side, with gaps between them.
Code == {"block", "branch", "statement", "expression", "fsm"}
Dashboard(cov) ==
  <<120 + 60, 120 + 60>> \o IF DOMAIN cov = {} THEN <<>> ELSE <<150 + 60, 120 + 60>>

svg(summary, cov) ==
  LET sum(f) == total([n \in DOMAIN summary |-> summary[n][f]], DOMAIN summary)
  IN  [ok    |-> DOMAIN cov = {} \/ (Code \cup {"covergroup"} \subseteq DOMAIN cov
                                     /\ cov["covergroup"] # None),
       total |-> sum("passing") + sum("failing"), passing |-> sum("passing"),
       width |-> FoldSeq(LAMBDA w, acc : acc + w + 5, 0, Dashboard(cov)) - 5]

\* A metric of the top that has nothing to cover divides by zero.
divides(cov) ==
  "ibex_top" \in DOMAIN cov.modules =>
    \A m \in IBEX_COVERAGE_METRICS \cap DOMAIN cov.modules["ibex_top"] :
      cov.modules["ibex_top"][m] # Empty

\* The reports that are made.  A record that cannot be loaded raises before any of
\* them; so does the branch for a RuntimeError, which makes a TestRunResult of a
\* field that it does not have.  Without tests the first raises that divides by
\* their number, the coverage is read after regr.log, and what raises later is
\* missing together with all that comes after it.
collect_results(tests, xlm, cov, cg) ==
  LET passing == SelectSeq(tests, LAMBDA t : t.passed)
      failing == SelectSeq(tests, LAMBDA t : ~t.passed)
      summary == create_test_summary_dict(passing \o failing)
      covered == IF xlm THEN create_cov_summary_dict(cov, cg) ELSE <<>>
      loaded  == \A i \in DOMAIN tests : tests[i].readable
      ok      == loaded /\ tests # <<>>
      ok_cov  == ok /\ (xlm => cov.ok /\ cg.ok /\ divides(cov))
      ok_html == ok_cov /\ html_ok(covered)
      ok_json == ok_html /\ dvsim_json(summary, covered).ok
      ok_svg  == ok_json /\ svg(summary, covered).ok
  IN  [junit |-> IF loaded THEN junit_xml(passing, failing) ELSE <<>>,
       merged |-> IF loaded THEN junit_merged_xml(passing, failing) ELSE <<>>,
       text |-> IF ok THEN <<text(passing, failing)>> ELSE <<>>,
       html |-> IF ok_html THEN <<html(summary)>> ELSE <<>>,
       json |-> IF ok_json THEN <<dvsim_json(summary, covered)>> ELSE <<>>,
       svg  |-> IF ok_svg THEN <<svg(summary, covered)>> ELSE <<>>,
       status |-> IF ok_svg /\ failing = <<>> THEN 0 ELSE 1]
=============================================================================
