---------------------------- MODULE TestSelection ----------------------------
(***************************************************************************)
(* How create_metadata finds the tests of a regression: the arguments of   *)
(* make, the two kinds of test lists, the parameters that the chosen       *)
(* configuration of the core has, and at last one record for every test    *)
(* and seed.  What raises gives a result whose "ok" is FALSE.              *)
(***************************************************************************)
EXTENDS Integers, Sequences, FiniteSets

Done(tests) == [ok |-> TRUE, tests |-> tests]
Raised      == [ok |-> FALSE, tests |-> <<>>]

\* A list with each element as many times as it is said; and with only those at
\* some of its places.
repeated(list, times) ==
  LET upto[i \in 0 .. Len(list)] ==
        IF i = 0 THEN <<>> ELSE upto[i - 1] \o [k \in 1 .. times[i] |-> list[i]]
  IN  upto[Len(list)]

chosen(list, at) == repeated(list, [i \in DOMAIN list |-> IF i \in at THEN 1 ELSE 0])

-----------------------------------------------------------------------------
\* The arguments, KEY=VALUE: a value is empty, a number or another word.
Type == [seed |-> "int", waves |-> "bool", iterations |-> "optional", simulator |-> "str"]

castable(f, val) ==
  \/ Type[f] = "str" \/ val.kind = "number"
  \/ Type[f] = "optional" /\ val.kind = "empty"

\* The fields that an argument does not name have their defaults; an argument that
\* names no field is ignored.  0 is None for "iterations".
RegressionMetadata == [seed |-> 1, iterations |-> 0]

arg_list_initializer(args) ==
  LET set(f) == IF f \in DOMAIN args /\ args[f].kind = "number" THEN args[f].n
                ELSE RegressionMetadata[f]
  IN  [ok |-> \A f \in DOMAIN args \cap DOMAIN Type : castable(f, args[f]),
       md |-> [seed |-> set("seed"), iterations |-> set("iterations")]]

get_ibex_metadata_ok(args) ==
  /\ "iterations" \in DOMAIN args /\ args["iterations"].kind = "number"
       => args["iterations"].n > 0
  /\ arg_list_initializer(args).md.seed >= 0

-----------------------------------------------------------------------------
\* The list of riscv-dv.  An entry with no iterations is not run, whatever the
\* argument says.
process_riscvdv_testlist(test, iterations, list) ==
  LET counted == [i \in DOMAIN list |->
                    IF iterations > 0 /\ list[i].iterations > 0
                    THEN [list[i] EXCEPT !.iterations = iterations] ELSE list[i]]
      matches(e) == /\ e.test \in test \/ test \cap {"all", "all_riscvdv"} # {}
                    /\ e.iterations > 0
  IN  chosen(counted, {i \in DOMAIN list : matches(counted[i])})

\* A directed list has entries for configurations and entries for tests; a test
\* has what its configuration has, and may overwrite it.  Only the tests that are
\* selected are looked at, but all configurations.
import_model(yaml, selected) ==
  LET raw == chosen(yaml.tests, {i \in DOMAIN yaml.tests : yaml.tests[i].test \in selected})
      ok  == /\ \A t \in {raw[i] : i \in DOMAIN raw} :
                  t.config \in DOMAIN yaml.configs /\ t.valid /\ t.iterations > 0
             /\ \A c \in DOMAIN yaml.configs : yaml.configs[c].valid
  IN  IF ~ok THEN Raised
      ELSE Done([i \in DOMAIN raw |->
                   [test |-> raw[i].test, iterations |-> raw[i].iterations, limited |-> TRUE,
                    rtl_params |-> yaml.configs[raw[i].config].rtl_params]])

listed(yaml) == {yaml.tests[i].test : i \in DOMAIN yaml.tests}

with_iterations(iterations, tests) ==
  [i \in DOMAIN tests |->
     [tests[i] EXCEPT !.iterations = IF iterations > 0 THEN iterations ELSE @]]

\* The custom list comes first, if there is one.
process_directed_testlist(test, iterations, files) ==
  LET selected(yaml, all) == IF test \cap all # {} THEN listed(yaml) ELSE test
      custom ==
        IF files.custom_exists
        THEN import_model(files.custom, selected(files.custom, {"all_directed", "all_custom"}))
        ELSE Done(<<>>)
      directed ==
        IF files.custom_exists /\ "all_custom" \in test THEN Done(<<>>)
        ELSE import_model(files.directed, selected(files.directed, {"all_directed"}))
  IN  IF custom.ok /\ directed.ok
      THEN Done(with_iterations(iterations, custom.tests \o directed.tests)) ELSE Raised

\* The parameters are looked at in their order; a test is kept once for each that
\* matches before one does not.
kept(cfg, params) ==
  {i \in DOMAIN params : \A j \in 1 .. i : cfg[params[j].name] \in params[j].values}

\* A parameter that the configuration does not have raises, when it is reached.
unknown(cfg, params) ==
  \E i \in DOMAIN params : /\ params[i].name \notin DOMAIN cfg
                           /\ \A j \in 1 .. i - 1 : cfg[params[j].name] \in params[j].values

\* How often a test is listed.
\* Mutant: a test without the key is not kept.
times_Strict(cfg, t) == Cardinality(kept(cfg, t.rtl_params))

\* "limited" tells whether its entry has the key rtl_params: with the key and no
\* parameter under it, a test is never appended.
times(cfg, t) == IF t.limited THEN Cardinality(kept(cfg, t.rtl_params)) ELSE 1

filter_tests_by_config(cfg, tests) ==
  IF \E i \in DOMAIN tests : unknown(cfg, tests[i].rtl_params) THEN Raised
  ELSE Done(repeated(tests, [i \in DOMAIN tests |-> times(cfg, tests[i])]))

-----------------------------------------------------------------------------
\* The directed lists are looked at only when they are asked for as a whole, or
\* when no test of riscv-dv is selected.
get_tests_and_counts(test, iterations, cfg, files) ==
  LET riscvdv  == process_riscvdv_testlist(test, iterations, files.riscvdv)
      directed == IF test \cap {"all_directed", "all_custom"} # {} \/ riscvdv = <<>>
                  THEN process_directed_testlist(test, iterations, files) ELSE Done(<<>>)
      riscvdv_filtered  == filter_tests_by_config(cfg, riscvdv)
      directed_filtered == filter_tests_by_config(cfg, directed.tests)
      typed(tests, type) == [i \in DOMAIN tests |-> <<tests[i].test, tests[i].iterations, type>>]
  IN  IF \/ ~directed.ok \/ riscvdv \o directed.tests = <<>>
         \/ ~riscvdv_filtered.ok \/ ~directed_filtered.ok
      THEN Raised
      ELSE Done(typed(riscvdv_filtered.tests, "RISCVDV")
                  \o typed(directed_filtered.tests, "DIRECTED"))

\* create_metadata, up to the records: one for each test and seed.
create(args, test, cfg, files) ==
  LET md    == arg_list_initializer(args).md
      found == get_tests_and_counts(test, md.iterations, cfg, files)
  IN  IF /\ arg_list_initializer(args).ok /\ get_ibex_metadata_ok(args)
         /\ found.ok /\ found.tests # <<>>
      THEN Done(found.tests) ELSE Raised

\* What print_field tells make for the field of a type, and the records there are:
\* test and seed.
tds(tests, seed, type) ==
  UNION {{<<tests[i][1], s>> : s \in seed .. seed + tests[i][2] - 1} :
           i \in {j \in DOMAIN tests : tests[j][3] = type}}
=============================================================================
