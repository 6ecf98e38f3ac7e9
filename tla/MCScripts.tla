------------------------------ MODULE MCScripts -------------------------------
(***************************************************************************)
(* Small inputs for the algorithms of the scripts.                         *)
(***************************************************************************)
EXTENDS ScriptTasks

Sets(S, max) == UNION {kSubset(k, S) : k \in 0 .. max}

Number(n) == [kind |-> "number", n |-> n]
Word      == [kind |-> "word", n |-> 0]
Empty     == [kind |-> "empty", n |-> 0]

Entry(test, iterations, params) ==
  [test |-> test, iterations |-> iterations, limited |-> params # <<>>, rtl_params |-> params]

riscvdv_list ==
  <<Entry("arith", 2, <<>>), Entry("pmp", 3, Gen!PMPEnable({1})), Entry("off", 0, <<>>)>>

DTest(test, config, iterations) ==
  [test |-> test, config |-> config, iterations |-> iterations, valid |-> TRUE]

configs(valid) ==
  [base |-> [valid |-> valid, rtl_params |-> Gen!PMPEnable({0, 1})],
   epmp |-> [valid |-> TRUE, rtl_params |-> Gen!PMPEnable({1})]]

\* "broken": a configuration is not valid; "lost": a test has one that is not there;
\* "idle": a test has no iterations.
Files(exists, state) ==
  [riscvdv |-> riscvdv_list, custom_exists |-> exists,
   custom |-> [configs |-> configs(TRUE), tests |-> <<DTest("mine", "base", 1), DTest("lock", "epmp", 1)>>],
   directed |-> [configs |-> configs(state # "broken"),
                 tests |-> <<DTest("csr", "base", 2)>>
                             \o CASE state = "lost" -> <<DTest("last", "none", 1)>>
                                  [] state = "idle" -> <<DTest("last", "base", 0)>>
                                  [] OTHER -> <<>>]]

Names == {"arith", "pmp", "off", "mine", "lock", "csr", "last"}
Keywords == {"all", "all_riscvdv", "all_directed", "all_custom"}

Arguments ==
  {[f \in fs |-> IF f = "seed" THEN s ELSE n] :
     fs \in {{}, {"seed"}, {"seed", "iterations"}}, s \in {Number(0), Number(-1), Number(3), Word},
     n \in {Number(2), Number(0), Empty, Word}}

\* "Other": a core without the parameter.
MCSelections ==
  {[args |-> args, test |-> test, cfg |-> cfg, files |-> Files(exists, state)] :
     args \in Arguments, test \in Sets(Names \cup Keywords, 2) \ {{}},
     cfg \in {[PMPEnable |-> 0], [PMPEnable |-> 1], [Other |-> 0]},
     exists \in BOOLEAN, state \in {"good", "broken", "lost", "idle"}}

-----------------------------------------------------------------------------
\* A path of a command that the generator has given.
paths ==
  {<<>>, <<"src">>, <<"placeholder">>}
    \cup {<<"placeholder", p>> : p \in {"vcs_simv", "work", "asm_test", "notes"}}
    \cup {<<"placeholder", "asm_test", "t">>, <<"placeholder", "sim_0.log", "t">>}

MCRelocations ==
  {[simulator |-> simulator, lines |-> <<<<Cmd!Word("", p)>>, <<Cmd!Word("+arg=", q)>>>>] :
     simulator \in {"vcs", "xlm", "dsim", "questa", "riviera"}, p \in paths, q \in paths}

-----------------------------------------------------------------------------
base_config ==
  [f \in DOMAIN Cfg!known_fields |->
     CASE f = "RV32M" -> Cfg!Str("RV32MFast") [] f = "RV32B" -> Cfg!Str("RV32BNone")
       [] f = "RV32ZC" -> Cfg!Str("RV32Zca") [] f = "RegFile" -> Cfg!Str("RegFileFF")
       [] f = "PMPNumRegions" -> Cfg!Int_(16) [] OTHER -> Cfg!Int_(0)]

values ==
  [RV32E |-> {Cfg!Bool(1), Cfg!Int_(1), Cfg!Int_(2)}, RV32M |-> {Cfg!Str("RV32MNone"), Cfg!Int_(0)},
   RV32B |-> {Cfg!Str("RV32BBalanced"), Cfg!Str("RV32BFull"), Cfg!Str("other")},
   PMPNumRegions |-> {Cfg!Bool(1), Cfg!Int_(4), Cfg!Str("4")}]

Changed == UNION {{[f \in {g} |-> v] : v \in values[g]} : g \in DOMAIN values}

MCConfigurations ==
  {[f \in (DOMAIN base_config \ without) \cup extra |->
      CASE f \in DOMAIN a -> a[f] [] f \in DOMAIN b -> b[f]
        [] f \in extra -> Cfg!Int_(0) [] OTHER -> base_config[f]] :
     a \in Changed, b \in Changed, without \in {{}, {"ICache"}}, extra \in {{}, {"Other"}}}

-----------------------------------------------------------------------------
VcsOf(releases) ==
  {[major |-> release[1], minor |-> release[2], sp |-> sp, patch |-> patch, suffix |-> suffix] :
     release \in releases, sp \in {Req!None, 1, 2}, patch \in {Req!None, 1, 12}, suffix \in BOOLEAN}

\* The release that is asked for, and one of another year.
MCVcsVersions == VcsOf({<<2020, 3>>, <<2021, 9>>})
\* And a later one of that year.
AllVcsVersions == VcsOf({<<2020, 3>>, <<2021, 9>>, <<2020, 12>>})

-----------------------------------------------------------------------------
Source(name, kind, includes) == [name |-> name, kind |-> kind, includes |-> includes]

MCSourceLists ==
  {<<Source("h", "svh", {}), Source("p", "pkg", {}), Source("a", "sv", {"h"}), Source("b", "sv", {"h"}),
     Source("x", "other", {})>>,
   <<Source("a", "sv", {}), Source("b", "sv", {"h"}), Source("p", "pkg", {"h"}), Source("h", "svh", {})>>}
=============================================================================
