----------------------------- MODULE ToolCommands -----------------------------
(***************************************************************************)
(* How the scripts make the commands that they run: from the templates of  *)
(* rtl_simulation.yaml, and from what riscv-dv would run itself in a        *)
(* directory that does not exist.                                          *)
(***************************************************************************)
EXTENDS Naturals, SequencesExt

Cmds(cmds) == [ok |-> TRUE, cmds |-> cmds]
Raised     == [ok |-> FALSE, cmds |-> <<>>]

-----------------------------------------------------------------------------
\* A text is a sequence of literals and parameters, and the value of a parameter
\* is a text again.
Par(name) == [kind |-> "par", name |-> name]
Lit(name) == [kind |-> "lit", name |-> name]

parameters(text) == {w \in {text[i] : i \in DOMAIN text} : w.kind = "par"}

subst_opt(text, name, value) ==
  FlattenSeq([i \in DOMAIN text |-> IF text[i] = Par(name) THEN value ELSE <<text[i]>>])

\* One key after the other; what a value contains is replaced by a later key only.
subst_dict(text, dict) ==
  FoldLeft(LAMBDA t, kv : subst_opt(t, kv.name, kv.value), text, dict)

\* Every variable that is named has to be set, whether it occurs or not.
subst_env_vars(text, names, environ) ==
  IF \E i \in DOMAIN names : names[i] \notin DOMAIN environ THEN [ok |-> FALSE, text |-> text]
  ELSE [ok |-> TRUE,
        text |-> subst_dict(text, [i \in DOMAIN names |->
                                     [name |-> names[i], value |-> environ[names[i]]]])]

entries_for(yaml, simulator) == {i \in DOMAIN yaml : yaml[i].tool = simulator}

get_yaml_for_simulator(yaml, simulator) ==
  yaml[CHOOSE i \in entries_for(yaml, simulator) :
         \A j \in entries_for(yaml, simulator) : i <= j]

\* Mutant: what the user gives is substituted first.
substituted_UserFirst(entry, opts, user, environ, cmd) ==
  subst_env_vars(subst_dict(subst_dict(cmd, user), opts), entry.env_var, environ)

substituted(entry, opts, user, environ, cmd) ==
  subst_env_vars(subst_dict(subst_dict(cmd, opts), user), entry.env_var, environ)

\* The options of the entry, those of the user, the environment; a parameter that
\* is left raises.
get_tool_cmds(yaml, simulator, type, enables, user, environ) ==
  LET entry == get_yaml_for_simulator(yaml, simulator)
      opts  == [i \in DOMAIN entry[type].opts |->
                  [entry[type].opts[i] EXCEPT !.value = IF entry[type].opts[i].name \in enables
                                                        THEN @ ELSE <<>>]]
      made  == [i \in DOMAIN entry[type].cmd |->
                  substituted(entry, opts, user, environ, entry[type].cmd[i])]
  IN  IF \/ entries_for(yaml, simulator) = {}
         \/ \E i \in DOMAIN made : ~made[i].ok \/ parameters(made[i].text) # {}
      THEN Raised ELSE Cmds([i \in DOMAIN made |-> made[i].text])

-----------------------------------------------------------------------------
\* Words that are paths, with the plusarg before them; a path is a sequence of
\* names, of which the first is the directory that is meant.
Word(pre, path) == [pre |-> pre, path |-> path]

\* For the simulators that the generator can be run on: what of a build is
\* mentioned in a command.
sim_relocs ==
  [vcs   |-> {<<"vcs_simv">>},
   xlm   |-> {<<>>},
   dsim  |-> {<<"dsim">>},
   questa |-> {<<>>, <<"questa_sim.tcl">>, <<"modelsim.ini">>, <<"work">>}]

\* The test, the directory of tests (riscv_csr_test), and the log.
always_relocs(testname) ==
  {<< <<"asm_test", testname>>, <<"scratch", "test">> >>,
   << <<"asm_test">>, <<"scratch">> >>,
   << <<"sim_0.log", testname>>, <<"scratch", "gen.log">> >>}

\* Mutant: a path that is not known is taken to be of the build.
reloc_word_Build(simulator, testname, word) ==
  LET rest  == Tail(word.path)
      fixed == {r \in always_relocs(testname) : r[1] = rest}
  IN  IF word.path = <<>> \/ word.path[1] # "placeholder" THEN Cmds(word)
      ELSE Cmds([word EXCEPT !.path = IF fixed # {} THEN (CHOOSE r \in fixed : TRUE)[2]
                                      ELSE <<"build">> \o rest])

reloc_word(simulator, testname, word) ==
  LET rest  == Tail(word.path)
      fixed == {r \in always_relocs(testname) : r[1] = rest}
  IN  CASE word.path = <<>> \/ word.path[1] # "placeholder" -> Cmds(word)
        [] OTHER -> CASE rest \in sim_relocs[simulator] ->
                           Cmds([word EXCEPT !.path = <<"build">> \o rest])
                      [] rest \notin sim_relocs[simulator] /\ fixed # {} ->
                           Cmds([word EXCEPT !.path = (CHOOSE r \in fixed : TRUE)[2]])
                      [] OTHER -> Raised

reloc_commands(simulator, testname, lines) ==
  LET made == [i \in DOMAIN lines |->
                 [j \in DOMAIN lines[i] |-> reloc_word(simulator, testname, lines[i][j])]]
  IN  IF \/ simulator \notin DOMAIN sim_relocs
         \/ \E i \in DOMAIN lines : \E j \in DOMAIN lines[i] : ~made[i][j].ok
      THEN Raised
      ELSE Cmds([i \in DOMAIN lines |-> [j \in DOMAIN lines[i] |-> made[i][j].cmds]])

\* What is copied out of the scratch directory, in this order.
file_copies(testname) ==
  IF testname = "riscv_csr_test"
  THEN <<[src |-> "riscv_csr_test_0.S", dst |-> "test.S", on_fail |-> FALSE]>>
  ELSE <<[src |-> "gen.log", dst |-> "gen.log", on_fail |-> TRUE],
         [src |-> "test_0.S", dst |-> "test.S", on_fail |-> FALSE]>>

\* Mutant: what is missing is passed over.
do_file_copies_Skips(scratch, rules, run_failed) ==
  [ok |-> TRUE,
   copied |-> {r.dst : r \in {q \in ToSet(rules) : q.src \in scratch /\ (q.on_fail \/ ~run_failed)}}]

\* The first file that is missing raises, unless the commands have failed anyway.
do_file_copies(scratch, rules, run_failed) ==
  LET due     == {i \in DOMAIN rules : rules[i].on_fail \/ ~run_failed}
      missing == {i \in due : rules[i].src \notin scratch}
      raises  == ~run_failed /\ missing # {}
      done    == {i \in due \ missing : raises => \A m \in missing : i < m}
  IN  [ok |-> ~raises, copied |-> {rules[i].dst : i \in done}]

-----------------------------------------------------------------------------
\* A command for a test: what it runs, what it reads and makes.
Cmd(tool, reads, makes) == [tool |-> tool, reads |-> reads, makes |-> makes]

placeholder(file) == <<"placeholder", file>>

\* What riscv-dv has its compiler do; in which the paths are replaced.
rewrite(path) ==
  IF path \in {placeholder("S"), placeholder("o"), placeholder("bin")}
  THEN <<"test", path[2]>> ELSE path

rewritten(cmds) ==
  [i \in DOMAIN cmds |-> Cmd(cmds[i].tool, {rewrite(p) : p \in cmds[i].reads},
                             {rewrite(p) : p \in cmds[i].makes})]

\* With the debug module in a memory of its own the last command goes, the linker
\* script is another, and four images are made.
ddm_cmds(cmds) ==
  LET linked(c) == [c EXCEPT !.reads = {IF p[2] = "link.ld" THEN <<"ext", "ddm_link.ld">> ELSE p :
                                          p \in @}]
      kept == SubSeq(cmds, 1, Len(cmds) - 1)
  IN  [i \in DOMAIN kept |-> linked(kept[i])]
        \o [i \in 1 .. 4 |->
              Cmd("objcopy", {<<"test", "o">>},
                  {<<"test", <<"dm.vmem", "main.vmem", "dm.bin", "main.bin">>[i]>>})]

\* When riscv-dv fails the function returns its status, and its caller takes that
\* for a list.
get_riscvdv_compile_cmds(dv_ret, cmds, ddm) ==
  LET paths(c) == c.reads \cup c.makes
      new == rewritten(cmds)
  IN  IF dv_ret # 0 \/ \E i \in DOMAIN new : \E p \in paths(new[i]) : p[1] = "placeholder"
      THEN Raised ELSE Cmds(IF ddm THEN ddm_cmds(new) ELSE new)

get_directed_compile_cmds(environ, directed_data) ==
  IF ~({"RISCV_TOOLCHAIN", "RISCV_GCC", "RISCV_OBJCOPY"} \subseteq environ) THEN Raised
  ELSE Cmds(<<Cmd("gcc", {directed_data.test_srcs, directed_data.includes, directed_data.ld_script}
                           \cup (IF directed_data.config = "riscv-arch-tests"
                                 THEN {<<"directed_tests", "riscv_arch_test_boot.S">>} ELSE {}),
                  {<<"test", "o">>}),
              Cmd("objcopy", {<<"test", "o">>}, {<<"test", "bin">>})>>)

\* What the test bench loads: the four images, with the debug module in a memory of
\* its own, or the one of the program.
rtl_images(ddm) ==
  IF ddm THEN {<<"test", "main.vmem">>, <<"test", "dm.vmem">>,
               <<"test", "main.bin">>, <<"test", "dm.bin">>}
  ELSE {<<"test", "bin">>}
=============================================================================
