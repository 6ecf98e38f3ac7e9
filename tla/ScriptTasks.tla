----------------------------- MODULE ScriptTasks ------------------------------
(***************************************************************************)
(* The algorithms of the scripts at work.  Every behaviour gives one of     *)
(* them one input; the conversion of a list of sources then goes on, step   *)
(* by step.  What the algorithms should do is said here, once more and      *)
(* without their order of doing it.                                        *)
(***************************************************************************)
EXTENDS Integers, SequencesExt, FiniteSetsExt

Sel == INSTANCE TestSelection
Gen == INSTANCE DirectedTestlist
Cmd == INSTANCE ToolCommands
Cfg == INSTANCE IbexConfig
Req == INSTANCE ToolRequirements
Sv  == INSTANCE Sv2v
Rep == INSTANCE Reports

CONSTANTS
  Selections,      \* what create_metadata is given, and the lists that it reads
  Relocations,     \* commands of the generator, and the simulator they are for
  Configurations,  \* entries of ibex_configs.yaml
  VcsVersions,     \* the versions of VCS that may be installed
  SourceLists      \* the lists of files to convert

VARIABLE task      \* an algorithm and its input

Elements(s) == {s[i] : i \in DOMAIN s}

TaskInit == task = [op |-> "none"]

-----------------------------------------------------------------------------
Argument      == [kind : {"number", "word", "empty"}, n : Int]
Param         == [name : STRING, values : SUBSET Int]
RiscvdvEntry  == [test : STRING, iterations : Int, limited : BOOLEAN, rtl_params : Seq(Param)]
DirectedEntry == [test : STRING, config : STRING, iterations : Int, valid : BOOLEAN]
ConfigEntry   == [valid : BOOLEAN, rtl_params : Seq(Param)]

Distinct(tests) == \A i, j \in DOMAIN tests : tests[i].test = tests[j].test => i = j

DirectedYaml(yaml) ==
  /\ yaml.tests \in Seq(DirectedEntry) /\ Distinct(yaml.tests)
  /\ \A c \in DOMAIN yaml.configs :
       yaml.configs[c] \in ConfigEntry /\ Len(yaml.configs[c].rtl_params) = 1

\* As in the repository: a name is that of one test, and an entry with the key
\* rtl_params has one parameter under it.
SelectionInput(x) ==
  /\ \A f \in DOMAIN x.args : x.args[f] \in Argument
  /\ x.files.custom_exists \in BOOLEAN
  /\ x.files.riscvdv \in Seq(RiscvdvEntry) /\ Distinct(x.files.riscvdv)
  /\ \A e \in Elements(x.files.riscvdv) : Len(e.rtl_params) = IF e.limited THEN 1 ELSE 0
  /\ DirectedYaml(x.files.custom) /\ DirectedYaml(x.files.directed)
  /\ \A d \in Elements(x.files.custom.tests), e \in Elements(x.files.directed.tests) :
       d.test # e.test

ASSUME SelectionAssumption == \A x \in Selections : SelectionInput(x)

SelectTests == \E x \in Selections : task' = [op |-> "select", in |-> x]

\* The tests that are asked for: by their names, by the name of their list, or by
\* "all", as metadata.py:268 says, 'Use the special name "all" to run all the tests.'
asked_riscvdv(x) ==
  {e \in Elements(x.files.riscvdv) :
     e.iterations > 0 /\ (e.test \in x.test \/ x.test \cap {"all", "all_riscvdv"} # {})}

asked_custom(x) ==
  {e \in Elements(x.files.custom.tests) :
     /\ x.files.custom_exists
     /\ e.test \in x.test \/ x.test \cap {"all", "all_directed", "all_custom"} # {}}
asked_own(x) ==
  {e \in Elements(x.files.directed.tests) :
     e.test \in x.test \/ x.test \cap {"all", "all_directed"} # {}}

directed_looked_at(x) ==
  x.test \cap {"all_directed", "all_custom"} # {} \/ asked_riscvdv(x) = {}
custom_looked_at(x) == directed_looked_at(x) /\ x.files.custom_exists
own_looked_at(x) == directed_looked_at(x) /\ ~(x.files.custom_exists /\ "all_custom" \in x.test)

\* Those of them that are left out all the same, without a word: a directed test
\* beside tests of riscv-dv, unless a whole directed list is asked for, and whenever
\* it is "all" that asks for it; beside all_custom, one of the other list.
left_out_custom(x) ==
  {e \in asked_custom(x) :
     \/ ~custom_looked_at(x)
     \/ e.test \notin x.test /\ x.test \cap {"all_directed", "all_custom"} = {}}
left_out_own(x) ==
  {e \in asked_own(x) :
     ~own_looked_at(x) \/ (e.test \notin x.test /\ "all_directed" \notin x.test)}

taken_custom(x) == asked_custom(x) \ left_out_custom(x)
taken_own(x)    == asked_own(x) \ left_out_own(x)

\* What can be wrong with the arguments, and with a list that is looked at.
refused(args) ==
  \/ \E f \in DOMAIN args \cap {"seed", "waves"} : args[f].kind # "number"
  \/ "seed" \in DOMAIN args /\ args["seed"].n < 0
  \/ /\ "iterations" \in DOMAIN args
     /\ \/ args["iterations"].kind = "word"
        \/ args["iterations"].kind = "number" /\ args["iterations"].n <= 0

faulty(yaml, entries) ==
  \/ \E c \in DOMAIN yaml.configs : ~yaml.configs[c].valid
  \/ \E e \in entries : e.config \notin DOMAIN yaml.configs \/ ~e.valid \/ e.iterations <= 0

params_known(cfg, params) == \A p \in Elements(params) : p.name \in DOMAIN cfg
params_met(cfg, params)   == \A p \in Elements(params) : cfg[p.name] \in p.values

params_of(yaml, e) == yaml.configs[e.config].rtl_params

\* What stops it, and what is to be run: the name, how often, and the type.
stopped(x) ==
  \/ refused(x.args)
  \/ custom_looked_at(x) /\ faulty(x.files.custom, taken_custom(x))
  \/ own_looked_at(x) /\ faulty(x.files.directed, taken_own(x))
  \/ \E e \in asked_riscvdv(x) : ~params_known(x.cfg, e.rtl_params)
  \/ \E e \in taken_custom(x) : ~params_known(x.cfg, params_of(x.files.custom, e))
  \/ \E e \in taken_own(x) : ~params_known(x.cfg, params_of(x.files.directed, e))

runs(args, n) ==
  IF "iterations" \in DOMAIN args /\ args["iterations"].kind = "number"
  THEN args["iterations"].n ELSE n

wanted(x) ==
  {<<e.test, runs(x.args, e.iterations), "RISCVDV">> :
     e \in {d \in asked_riscvdv(x) : params_met(x.cfg, d.rtl_params)}}
  \cup {<<e.test, runs(x.args, e.iterations), "DIRECTED">> :
     e \in {d \in taken_custom(x) : params_met(x.cfg, params_of(x.files.custom, d))}}
  \cup {<<e.test, runs(x.args, e.iterations), "DIRECTED">> :
     e \in {d \in taken_own(x) : params_met(x.cfg, params_of(x.files.directed, d))}}

Selected(x) ==
  LET made == Sel!create(x.args, x.test, x.cfg, x.files)
      seed == IF "seed" \in DOMAIN x.args THEN x.args["seed"].n ELSE 1
  IN  /\ made.ok <=> ~stopped(x) /\ wanted(x) # {}
      /\ made.ok => /\ Elements(made.tests) = wanted(x)
                    /\ \A i, j \in DOMAIN made.tests : made.tests[i] = made.tests[j] => i = j
                    /\ \A type \in {"RISCVDV", "DIRECTED"} :
                         Sel!tds(made.tests, seed, type)
                           = UNION {{<<w[1], s>> : s \in seed .. seed + w[2] - 1} :
                                      w \in {v \in wanted(x) : v[3] = type}}

\* Nothing is run that is not asked for. What is asked for is run, with each of its
\* seeds and once, when the core has what it needs, save the directed tests that are
\* left out as said above; and when what is to be run cannot be run as it is, or is
\* nothing, then nothing is. (metadata.py:262, ibex_cmd.py:126)
SelectionExact == task.op = "select" => Selected(task.in)

-----------------------------------------------------------------------------
File(name, is_source) == [name |-> name, greps |-> TRUE, is_source |-> is_source]
Other(name) == [name |-> name, greps |-> FALSE, is_source |-> FALSE]

Suites == {"riscv-tests", "riscv-arch-tests", "epmp-tests", "all", "other"}

\* What is in the directories of the suites.  With "twin" two of them have a file of
\* the same name, with "stray" one has a file that only looks like a source.
Listing(stray, twin) ==
  [d \in Gen!isa_tests \cup Gen!arch_tests \cup Gen!epmp_tests |->
     {File(IF twin /\ d \in {"rv32um", "rv32ui"} THEN <<"t1">> ELSE <<d, "t1">>, TRUE),
      Other(<<d, "Makefrag">>)}
       \cup (IF d = "outputs" /\ stray THEN {File(<<d, "notes">>, FALSE)} ELSE {})]

\* "added": somebody has put empty/empty.S where it is looked for.
GenerateTestlist ==
  \E suites \in SUBSET Suites \ {{}}, stray, twin, added \in BOOLEAN :
    LET here == Gen!checked_in \cup (IF added THEN {<<"empty", "empty">>} ELSE {})
        ls   == Listing(stray, twin)
    IN  task' = [op |-> "generate", suites |-> suites, here |-> here, ls |-> ls,
                 yaml |-> Gen!generated(suites, here, ls)]

\* What stands behind a name: the sources it should be made of, each with whether it
\* is there and with the parameters of its suite.
Behind(name, suites, here, ls) ==
  LET asked(s) == s \in suites \/ suites = {"all"}
      dirs == UNION {IF asked("riscv-tests") THEN Gen!isa_tests ELSE {},
                     IF asked("riscv-arch-tests") THEN Gen!arch_tests ELSE {},
                     IF asked("epmp-tests") THEN Gen!epmp_tests ELSE {}}
      src  == Gen!handwritten_srcs(name)
  IN  {<<d, \E f \in ls[d] : f.name = name /\ f.is_source,
         Gen!PMPEnable(IF d = "outputs" THEN {1} ELSE {0, 1})>> :
         d \in {g \in dirs : \E f \in ls[g] : f.name = name /\ f.greps}}
      \cup (IF name \in Gen!handwritten_tests
            THEN {<<src[1], src \in here, Gen!PMPEnable({0, 1})>>} ELSE {})

ImportsAs(model, behind) ==
  /\ model.ok <=> \A b \in behind : b[2]
  /\ model.ok => /\ Len(model.tests) = Cardinality(behind)
                 /\ {t.rtl_params : t \in Elements(model.tests)} = {b[3] : b \in behind}

\* A test of the generated list can be imported exactly when its source is there,
\* then once for every file that has its name, with the parameters of its suite, and
\* whatever is the matter with the others; and the list as a whole exactly when the
\* sources of all are. So the whole list never is in this checkout, where
\* gen_testlist.py:80 names a file that there is not.
\* (gen_testlist.py:430, directed_test_schema.py:140)
GeneratedTestsImport ==
  task.op = "generate" =>
    LET model(names) == Sel!import_model(task.yaml, names)
        behind(name) == Behind(name, task.suites, task.here, task.ls)
        names == Gen!handwritten_tests \cup {f.name : f \in UNION {task.ls[d] : d \in DOMAIN task.ls}}
    IN  /\ \A name \in names : ImportsAs(model({name}), behind(name))
        /\ model(Sel!listed(task.yaml)).ok <=> \A name \in names : \A b \in behind(name) : b[2]
-----------------------------------------------------------------------------
Option(name, value) == [name |-> name, value |-> value]

templates == {<<w>> : w \in {Cmd!Lit("sim"), Cmd!Par("cov_opts"), Cmd!Par("out"), Cmd!Par("PRJ")}}

rtl_simulation ==
  [i \in 1 .. 2 |->
     [tool |-> <<"vcs", "xlm">>[i], env_var |-> IF i = 1 THEN <<"PRJ">> ELSE <<>>]]

Simulation(i, cmd) ==
  [tool |-> rtl_simulation[i].tool, env_var |-> rtl_simulation[i].env_var,
   sim |-> [cmd |-> <<cmd>>,
            opts |-> <<Option("cov_opts", <<Cmd!Lit("cov"), Cmd!Par("out")>>)>>]]

BuildCommand ==
  \E a, b \in templates, enables \in SUBSET {"cov_opts"}, given, set \in BOOLEAN,
     tool \in {"vcs", "xlm", "none"} :
    task' = [op |-> "command", cmd |-> a \o b, tool |-> tool, enables |-> enables,
             user |-> IF given THEN <<Option("out", <<Cmd!Lit("dir"), Cmd!Par("PRJ")>>)>> ELSE <<>>,
             environ |-> IF set THEN [PRJ |-> <<Cmd!Lit("root")>>] ELSE <<>>]

ASSUME RelocationAssumption ==
  \A x \in Relocations : \A i \in DOMAIN x.lines : \A j \in DOMAIN x.lines[i] :
    x.lines[i][j] \in [pre : STRING, path : Seq(STRING)]

RelocateCommand == \E x \in Relocations : task' = [op |-> "relocate", in |-> x]

riscvdv_cmds(stray) ==
  <<Cmd!Cmd("gcc", {Cmd!placeholder(IF stray THEN "h" ELSE "S"), <<"riscv-dv", "link.ld">>},
            {Cmd!placeholder("o")}),
    Cmd!Cmd("objcopy", {Cmd!placeholder("o")}, {Cmd!placeholder("bin")})>>

CompileTest ==
  \/ \E dv_ret \in {0, 1}, ddm, stray \in BOOLEAN :
       task' = [op |-> "compile", ddm |-> ddm, good |-> dv_ret = 0 /\ ~stray,
                made |-> Cmd!get_riscvdv_compile_cmds(dv_ret, riscvdv_cmds(stray), ddm)]
  \/ \E config \in {"riscv-tests", "riscv-arch-tests"},
        env \in SUBSET {"RISCV_TOOLCHAIN", "RISCV_GCC", "RISCV_OBJCOPY"} :
       task' = [op |-> "compile", ddm |-> FALSE, good |-> Cardinality(env) = 3,
                made |-> Cmd!get_directed_compile_cmds(env,
                           [test_srcs |-> <<"src", "S">>, includes |-> <<"src", "inc">>,
                            ld_script |-> <<"src", "link.ld">>, config |-> config])]

CopyFiles ==
  \E test \in {"riscv_csr_test", "arith"}, run_failed \in BOOLEAN,
     scratch \in SUBSET {"gen.log", "test_0.S", "riscv_csr_test_0.S"} :
    task' = [op |-> "copy", test |-> test, run_failed |-> run_failed, scratch |-> scratch]

\* A command is made exactly when everything in it has a meaning, and is then what
\* these meanings make of it: options first, in which the user's may occur, in which
\* the environment may. (riscvdv_interface.py:81)
CommandsComplete ==
  task.op = "command" =>
    LET yaml == [i \in 1 .. 2 |-> Simulation(i, task.cmd)]
        made == Cmd!get_tool_cmds(yaml, task.tool, "sim", task.enables, task.user, task.environ)
        has(p) == CASE p = "cov_opts" -> TRUE
                    [] p = "out" -> task.user # <<>>
                    [] p = "PRJ" -> task.tool = "vcs" /\ task.environ # <<>>
        means(p) == CASE p = "cov_opts" -> IF task.enables = {} THEN <<>>
                                           ELSE <<Cmd!Lit("cov"), Cmd!Par("out")>>
                      [] p = "out" -> <<Cmd!Lit("dir"), Cmd!Par("PRJ")>>
                      [] p = "PRJ" -> <<Cmd!Lit("root")>>
        once(text) == FlattenSeq([i \in DOMAIN text |->
                        IF text[i].kind = "par" /\ has(text[i].name) THEN means(text[i].name)
                        ELSE <<text[i]>>])
        full == once(once(once(task.cmd)))
    IN  /\ made.ok <=> /\ task.tool # "none"
                       /\ (task.tool = "vcs" => task.environ # <<>>)
                       /\ \A i \in DOMAIN full : full[i].kind = "lit"
        /\ made.ok => made.cmds = <<full>>

\* What a build has made for a simulator that the generator runs on.
built == [vcs |-> {"vcs_simv"}, dsim |-> {"dsim"}, xlm |-> {},
          questa |-> {"questa_sim.tcl", "modelsim.ini", "work"}]

Relocated(x) ==
  LET made == Cmd!reloc_commands(x.simulator, "t", x.lines)
      from_elsewhere(p) == p = <<>> \/ p[1] # "placeholder"
  IN  made.ok =>
        /\ DOMAIN made.cmds = DOMAIN x.lines
        /\ \A i \in DOMAIN x.lines :
             /\ DOMAIN made.cmds[i] = DOMAIN x.lines[i]
             /\ \A j \in DOMAIN x.lines[i] :
                  LET p == made.cmds[i][j].path
                  IN  \/ p = x.lines[i][j].path /\ from_elsewhere(p)
                      \/ p[1] = "scratch"
                      \/ p[1] = "build" /\ (Len(p) = 1 \/ p[2] \in built[x.simulator])

Compiled(ddm, good, made) ==
  LET before(i) == UNION {made.cmds[j].makes : j \in 1 .. i - 1}
  IN  /\ made.ok <=> good
      /\ made.ok =>
           /\ \A i \in DOMAIN made.cmds : \A p \in made.cmds[i].reads :
                p[1] = "test" => p[2] = "S" \/ p \in before(i)
           /\ Cmd!rtl_images(ddm) \subseteq before(Len(made.cmds) + 1)

Copied(test, run_failed, scratch) ==
  LET made == Cmd!do_file_copies(scratch, Cmd!file_copies(test), run_failed)
  IN  /\ run_failed => made.ok
      /\ made.ok => ("test.S" \in made.copied <=> ~run_failed)

\* What a test needs is made for it and by it alone: the commands of the generator
\* mention, besides files from elsewhere, only what the build has made and the
\* directory of the test; and those of the compiler make the images that the
\* simulation loads, each from files that are there by then. And the assembly file
\* of the test appears only when the generator has succeeded, which a script that
\* goes on relies on.
\* (run_instr_gen.py:54, compile_test.py:28)
TestCommandsClosed ==
  /\ task.op = "relocate" => Relocated(task.in)
  /\ task.op = "compile" => Compiled(task.ddm, task.good, task.made)
  /\ task.op = "copy" => Copied(task.test, task.run_failed, task.scratch)

-----------------------------------------------------------------------------
ASSUME ConfigurationAssumption ==
  \A yml \in Configurations : \A f \in DOMAIN yml : yml[f] \in Cfg!Value

Configure == \E yml \in Configurations : task' = [op |-> "configure", in |-> yml]

\* As an integer, what is not a string.
as_option(value) == IF value.type = "str" THEN value ELSE Cfg!Int_(value.n)

Built(yml) ==
  LET isas == Cfg!get_isas_for_config(yml)
      opts(sim, stage) == Cfg!get_x_opts(yml, sim, stage)
  IN  /\ \A sim \in DOMAIN Cfg!SIM_CFGS :
           LET all == opts(sim, "compile") \cup opts(sim, "sim")
           IN  /\ opts(sim, "compile") \cap opts(sim, "sim") = {}
               /\ \A f \in DOMAIN yml :
                    \E o \in all : o.value = as_option(yml[f]) /\ {p \in all : p.field = f} = {o}
      /\ {o.field : o \in Cfg!FusesocOpts(yml)} = DOMAIN yml
      /\ \A o \in Cfg!QueryOpts(yml, {"RV32B", "ICache", "none"}) :
           o.found <=> \E p \in Cfg!FusesocOpts(yml) : p.field = o.field
      /\ isas.ok => /\ "e" \in isas.iss <=> yml["RV32E"].n = 1
                    /\ "m" \in isas.iss <=> yml["RV32M"].s # "RV32MNone"
                    /\ isas.toolchain \cap {"i", "e", "m", "c"} = isas.iss \cap {"i", "e", "m", "c"}
                    /\ "b" \in isas.toolchain <=> "Zbb" \in isas.iss

\* A configuration that is accepted is built as it is written: every simulator is
\* given each of its fields, once, counting the options of both stages; and the
\* instruction sets have what the core has. (ibex_config.py, ibex_cmd.py)
ConfigurationBuilt ==
  task.op = "configure" /\ Cfg!parse_config_ok([chosen |-> task.in], "chosen") => Built(task.in)

-----------------------------------------------------------------------------
Part == Nat \cup {Req!None}

\* What the comment at check_tool_requirements.py:264 says of the numbers of a
\* version, and of that which is asked for.
VcsVersion == [major : Nat, minor : Nat, sp : {n \in Part : n < 100},
               patch : {n \in Part : n < 100}, suffix : BOOLEAN]

ASSUME VcsAssumption == VcsVersions \subseteq VcsVersion

vcs_required == [major |-> 2020, minor |-> 3, sp |-> 2, patch |-> Req!None, suffix |-> FALSE]

Requirement(kind, min, needed, others, version) ==
  [kind |-> kind, min_version |-> min, as_needed |-> needed, others |-> others, version |-> version]

\* The file of requirements, or one with a mistake in the entry of Vivado.
required(state) ==
  [vcs |-> Requirement("dict", "good", "true", FALSE, vcs_required),
   vivado |-> Requirement(IF state = "other" THEN "other" ELSE "dict",
                          IF state = "missing" THEN "absent" ELSE "good",
                          IF state = "word" THEN "wrong" ELSE "true", state = "more", <<2020, 2>>),
   verilator |-> Requirement("string", "absent", "absent", FALSE, <<4, 210>>)]

Says(version) == [runs |-> TRUE, output |-> <<[matches |-> TRUE, version |-> version]>>]
Absent == [runs |-> FALSE, output |-> <<>>]

CheckTools ==
  \E vcs \in VcsVersions, named \in SUBSET {"vcs", "vivado", "other"},
     vivado \in {Says(<<2020, 2>>), Says(<<2020, 1>>), Absent},
     verilator \in {Says(<<4, 210>>), Says(<<4, 30, 1>>), Says(<<5>>)},
     state \in {"good", "other", "missing", "word", "more"} :
    task' = [op |-> "tools", named |-> named, state |-> state, vcs |-> vcs,
             vivado |-> vivado, verilator |-> verilator]

\* The order that a version of VCS is meant to have.
vcs_older(v, w) ==
  LET part(x) == IF x = Req!None THEN 0 ELSE x
  IN  \/ v.major < w.major
      \/ v.major = w.major /\ v.minor < w.minor
      \/ v.major = w.major /\ v.minor = w.minor /\ part(v.sp) < part(w.sp)
      \/ /\ v.major = w.major /\ v.minor = w.minor /\ part(v.sp) = part(w.sp)
         /\ part(v.patch) < part(w.patch)

Checked(named, state, vcs, vivado, verilator) ==
  LET installed == [vcs |-> Says(vcs), vivado |-> vivado, verilator |-> verilator]
      recent(t) == CASE t = "vcs" -> ~vcs_older(vcs, vcs_required)
                     [] t = "vivado" -> vivado = Says(<<2020, 2>>)
                     [] t = "verilator" -> verilator # Says(<<4, 30, 1>>)
  IN  Req!main(named, required(state), installed) = 0
        <=> /\ state = "good" /\ "other" \notin named
            /\ \A t \in named \cup {"verilator"} : recent(t)

\* The check succeeds exactly when everything that is named is known, and every tool
\* that is always needed, or named, is there and not older than it may be.
\* (check_tool_requirements.py:399)
ToolsChecked ==
  task.op = "tools" =>
    Checked(task.named, task.state, task.vcs, task.vivado, task.verilator)

\* What the comment at check_tool_requirements.py:264 says: a version of VCS made into
\* one of three numbers has the order that releases, service packs and patches have.
VcsOrdered ==
  task.op = "tools" =>
    (Req!older(Req!vcs_semver(task.vcs), Req!vcs_semver(vcs_required))
       <=> vcs_older(task.vcs, vcs_required))

-----------------------------------------------------------------------------
\* The kind of a file is the end of its path.
ASSUME SourceAssumption ==
  \A list \in SourceLists : \A i, j \in DOMAIN list :
    list[i].name = list[j].name => list[i].kind = list[j].kind

ConvertSources ==
  \/ /\ task.op = "none"
     /\ \E list \in SourceLists : \E broken \in SUBSET Sv!names(list, DOMAIN list) :
          task' = [op |-> "convert", list |-> list, broken |-> broken, s |-> Sv!Started]
  \/ /\ task.op = "convert" /\ task.s.status = "runs"
     /\ \E step \in Sv!next_step(task.list, task.s.done) : \E disk \in Sv!outcomes(step) :
          task' = [task EXCEPT !.s = Sv!run_step(task.list, task.broken, @, step, disk)]

Converted(list, broken, s) ==
  LET sv  == Sv!sv_paths(list)
      svh == Sv!svh_paths(list)
  IN  /\ s.changed # {} => s.tmp = sv /\ broken \cap Sv!names(list, sv) = {}
      /\ s.changed \cap Sv!names(list, svh) # {} => Sv!names(list, sv) \subseteq s.changed
      /\ Sv!steps(list) \subseteq s.done => s.changed = Sv!names(list, sv \cup svh)

\* Wherever the script ends or fails, a file has been replaced only when all of them
\* have been converted, from what they were; and a header has been emptied only when
\* no source is left that includes it. When it comes to its end, all are replaced
\* that it has to do with, and no others. What it does not do is to undo: between the
\* first copy back and the last, some files are Verilog and some are not.
\* (sv2v_in_place.py:83, 180)
ReplacedAfterAllConverted ==
  task.op = "convert" => Converted(task.list, task.broken, task.s)

-----------------------------------------------------------------------------
Result(name, seed, passed, readable) ==
  [name |-> name, seed |-> seed, passed |-> passed, readable |-> readable]

Columns == <<"block", "branch", "statement", "expression", "toggle", "fsm", "assertion", "covergroup">>

CovReport(values_) ==
  <<Rep!Line(TRUE, Columns, "", <<>>), Rep!Line(FALSE, <<>>, "", <<>>),
    Rep!Line(FALSE, <<>>, "ibex_top", values_)>>

AllValues == <<9000, 8000, 7000, 6000, 5000, 4000, 3000, 2000>>

\* "torn": the record of the last test cannot be loaded; "zero": the top has no
\* branches at all.
CollectResults ==
  \E a, b, c \in {"none", "passed", "failed"}, xlm, torn \in BOOLEAN,
     hole \in {0, 6, 8}, headless, zero \in BOOLEAN :
    task' = [op |-> "collect", xlm |-> xlm, hole |-> hole, headless |-> headless, zero |-> zero,
             tests |-> SelectSeq(<<Result("t", 1, a = "passed", TRUE), Result("t", 2, b = "passed", TRUE),
                                   Result("u", 1, c = "passed", ~torn)>>,
                                 LAMBDA r : (CASE r.name = "u" -> c [] r.seed = 1 -> a
                                               [] OTHER -> b) # "none"),
             cov |-> IF headless THEN <<>>
                     ELSE CovReport([i \in DOMAIN AllValues |->
                            CASE i = 2 /\ zero -> Rep!Empty
                              [] i = hole -> Rep!None
                              [] OTHER -> AllValues[i]])]

\* All reports that are made count the same, and count what the tests have done, and
\* the status is success only for a regression without a failure; regr.log is there
\* whatever the coverage is like, and no report of tests one of which cannot be loaded.
\* (collect_results.py, report_lib)
ReportsAgree ==
  task.op = "collect" =>
    LET cov == Rep!parse_xcelium_cov_report(task.cov)
        r   == Rep!collect_results(task.tests, task.xlm, cov, cov)
        num(name, passed) == Cardinality({i \in DOMAIN task.tests :
                               task.tests[i].passed = passed /\ task.tests[i].name = name})
        good == num("t", TRUE) + num("u", TRUE)
        bad  == num("t", FALSE) + num("u", FALSE)
        loaded == \A t \in Elements(task.tests) : t.readable
        counted == task.tests # <<>> /\ loaded
        whole == counted /\ (task.xlm => ~task.headless /\ task.hole = 0 /\ ~task.zero)
    IN  /\ r.status = 0 <=> bad = 0 /\ whole
        /\ counted <=> r.text # <<>>
        /\ loaded <=> DOMAIN r.junit = {t.name : t \in Elements(task.tests)}
        /\ r.text # <<>> => /\ r.text[1].passed = good /\ r.text[1].failed = bad
                            /\ Cardinality(r.text[1].summary) = good + bad
        /\ \A n \in DOMAIN r.junit :
             /\ Cardinality({x \in r.junit[n] : x.failed}) = num(n, FALSE)
             /\ Cardinality(r.junit[n]) = num(n, TRUE) + num(n, FALSE)
             /\ Cardinality(r.merged[n].failures) = num(n, FALSE)
        /\ whole => r.html # <<>> /\ r.json # <<>> /\ r.svg # <<>>
        /\ r.html # <<>> => r.html[1].total = good + bad /\ r.html[1].passing = good
        /\ r.json # <<>> => \A n \in DOMAIN r.json[1].tests :
                              r.json[1].tests[n].passing = num(n, TRUE)
        /\ r.svg # <<>> => r.svg[1].total = good + bad /\ r.svg[1].passing = good

-----------------------------------------------------------------------------
TaskNext ==
  \/ /\ task.op = "none"
     /\ \/ SelectTests \/ GenerateTestlist \/ BuildCommand \/ RelocateCommand \/ CopyFiles
        \/ CompileTest \/ Configure \/ CheckTools \/ CollectResults
  \/ ConvertSources

TaskSpec == TaskInit /\ [][TaskNext]_task
=============================================================================
