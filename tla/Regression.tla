------------------------------ MODULE Regression ------------------------------
(***************************************************************************)
(* A regression: make (wrapper.mk, ibex_sim.mk, riscvdv.mk) runs one Python *)
(* script per file of every test, each of which loads the record of the     *)
(* test, works, and exports the record again.  make can be stopped between  *)
(* any two steps and started again, and the sources of the core can change  *)
(* in between; what it does then follows from the times of the files.       *)
(*                                                                          *)
(* Not here: the build of the generator, which comes before the tests, and  *)
(* coverage (COV is 0), whose two stages then only make their stamps.       *)
(***************************************************************************)
EXTENDS TestRunResult, FiniteSets

CONSTANTS Tests,       \* the tests (with their seeds) of the regression
          Directed,    \* those of them that come from a directed test list
          Outcomes,    \* what a simulation of each test can leave
          Vcs,         \* the simulator is VCS, whose log is its standard output
          MaxSessions, MaxCrashes, MaxEdits   \* bounds of the model

ASSUME RegressionAssumption ==
  /\ IsFiniteSet(Tests) /\ Directed \subseteq Tests
  /\ \A t \in Tests : Outcomes[t] \subseteq Outcome
  /\ \A t \in Tests : \A o \in Outcomes[t] : o.started => o.exists
  /\ Vcs \in BOOLEAN
  /\ MaxSessions \in Nat /\ MaxCrashes \in Nat /\ MaxEdits \in Nat

VARIABLES
  make,      \* "down", or what it does: "create", "commit" (the metadata), "up"
  keep_going,  \* it was called with --keep-going
  failed,    \* what failed in this session
  md,        \* metadata.pickle: "none", "torn" or "whole"
  created,   \* the tests whose record create_metadata has written
  trr,       \* the pickle of each test
  job,       \* the script that runs for each test
  stale,     \* the files of each test that are missing or older than a prerequisite
  todo,      \* those that make will make, by the times it has read
  tb_stale, tb_todo, tb,    \* the same for the testbench, and its script
  stamp_stale, collect,     \* regr.log.stamp, and the script that collects
  out,       \* what the last simulation of each test left
  report,    \* the verdicts in regr.log
  counts     \* sessions, crashes and edits so far

\* History: simulations started of each test, whether one of them left the files of
\* a pass, and the tests whose log was checked after their last simulation.
VARIABLES sims, everPassed, checked

\* History: what is due of each test before a report, a simulation ("sim") since the
\* testbench was built, a check ("check") of the log this make has written; the
\* tests whose generator was stopped when it had copied the assembly and not yet
\* recorded where it is.
VARIABLES due, orphaned

makeVars == <<make, keep_going, failed, created, tb_todo, todo>>
ghosts   == <<sims, everPassed, checked, due, orphaned>>
vars     == <<makeVars, md, trr, job, stale, tb_stale, tb, stamp_stale, collect,
              out, report, counts, ghosts>>

-----------------------------------------------------------------------------
\* test.S, test.bin, rtl_sim.log and trr.yaml, in the order of their making.
Stages(t) == IF t \in Directed THEN <<"bin", "log", "yaml">>
             ELSE <<"asm", "bin", "log", "yaml">>

\* Mutant: the stamp of the report is a file of the test.
Dependents_Stamp(f) ==
  CASE f = "asm" -> {"bin"} [] f = "bin" -> {"log"} [] f = "log" -> {"yaml"} [] OTHER -> {"stamp"}

\* What depends on a file.
Dependents(f) == CASE f = "asm" -> {"bin"} [] f = "bin" -> {"log"} [] f = "log" -> {"yaml"}
                   [] OTHER -> {}

\* A script: its stage, where it is, where it goes on after its export, its exit
\* status, and the record it holds.
Idle == [stage |-> "none", step |-> "idle", then |-> "end", exit |-> 0, mem |-> NewTestRun]

\* A file of a test is written: it is newer than all others now, also for make,
\* which keeps the times it read of those that are still to be made.
Write(t, f) ==
  /\ stale' = [stale EXCEPT ![t] = (@ \ {f}) \cup Dependents(f)]
  /\ todo' = [todo EXCEPT ![t] = @ \cup Dependents(f)]
  /\ stamp_stale' = (stamp_stale \/ f = "yaml")

Running(t) == job[t].step # "idle"
Ended(t)   == ~Running(t) /\ todo[t] = {} /\ ~tb_todo

\* Mutant: what failed is tried again.
MayStart_Retry(deps) == make = "up" /\ (failed = {} \/ keep_going)

\* make starts no job after a failure, except with --keep-going.
MayStart(deps) == make = "up" /\ (failed = {} \/ (keep_going /\ failed \cap deps = {}))

\* Mutant: the files of a test are made in any order.
TestReady_Any(t, s) ==
  /\ MayStart({t, "metadata"}) /\ ~Running(t) /\ (s \in {"log", "yaml"} => ~tb_todo)
  /\ s \in todo[t]

\* What make can start: the first stage still to be made of a test, a simulation
\* only with the testbench of now; the testbench; the collection, when everything
\* it depends on is made.
TestReady(t, s) ==
  /\ MayStart({t, "metadata"}) /\ ~Running(t) /\ (s \in {"log", "yaml"} => ~tb_todo)
  /\ \E i \in DOMAIN Stages(t) :
       Stages(t)[i] = s /\ s \in todo[t] /\ \A j \in 1 .. i - 1 : Stages(t)[j] \notin todo[t]

TbReady == tb = "idle" /\ tb_todo /\ MayStart({"tb", "metadata"})

\* Mutant: a test that is not being worked on has its verdict.
CollectReady_Idle ==
  collect = "idle" /\ stamp_stale /\ make = "up" /\ failed = {} /\ \A t \in Tests : ~Running(t)
CollectReady ==
  collect = "idle" /\ stamp_stale /\ make = "up" /\ failed = {} /\ \A t \in Tests : Ended(t)

Init ==
  /\ make = "down" /\ keep_going = FALSE /\ failed = {} /\ created = {}
  /\ md = "none" /\ trr = [t \in Tests |-> NewTestRun] /\ job = [t \in Tests |-> Idle]
  /\ stale = [t \in Tests |-> {Stages(t)[i] : i \in DOMAIN Stages(t)}]
  /\ todo = [t \in Tests |-> {}] /\ tb_stale = TRUE /\ tb_todo = FALSE /\ tb = "idle"
  /\ stamp_stale = TRUE /\ collect = "idle"
  /\ out = [t \in Tests |-> NoOutcome] /\ report = <<>>
  /\ counts = [sessions |-> 0, crashes |-> 0, edits |-> 0]
  /\ sims = [t \in Tests |-> 0] /\ everPassed = [t \in Tests |-> FALSE] /\ checked = {}
  /\ due = [t \in Tests |-> {"sim"}] /\ orphaned = {}

-----------------------------------------------------------------------------
\* make reads the times of all files when it starts on the targets.
Plan == todo' = stale /\ tb_todo' = tb_stale

\* Metadata that exists is not made again; when it cannot be read, print_field
\* fails and there is nothing that make could make.
BeginSession ==
  /\ make = "down" /\ counts.sessions < MaxSessions
  /\ counts' = [counts EXCEPT !.sessions = @ + 1]
  /\ keep_going' \in BOOLEAN /\ created' = {}
  /\ failed' = IF md = "torn" THEN {"metadata"} ELSE {}
  /\ IF md = "none" THEN make' = "create" /\ UNCHANGED <<todo, tb_todo>>
     ELSE make' = "up" /\ Plan
  /\ due' = [t \in Tests |-> due[t] \ {"check"}]
  /\ UNCHANGED <<md, trr, job, stale, tb_stale, tb, stamp_stale, collect, out, report,
                 sims, everPassed, checked, orphaned>>

\* create_metadata exports a new record for every test, then the metadata; until
\* that exists another session begins all over.
CreateRecord(t) ==
  /\ make = "create" /\ t \notin created
  /\ trr' = [trr EXCEPT ![t] = NewTestRun] /\ created' = created \cup {t}
  /\ stale' = [stale EXCEPT ![t] = @ \ {"yaml"}]
  /\ UNCHANGED <<make, keep_going, failed, tb_todo, todo, md, job, tb_stale, tb, stamp_stale,
                 collect, out, report, counts, ghosts>>

CreateMetadata ==
  /\ \/ make = "create" /\ created = Tests /\ make' = "commit" /\ md' = "torn"
        /\ UNCHANGED <<todo, tb_todo>>
     \/ make = "commit" /\ make' = "up" /\ md' = "whole" /\ Plan
  /\ UNCHANGED <<keep_going, failed, created, trr, job, stale, tb_stale, tb, stamp_stale,
                 collect, out, report, counts, ghosts>>

-----------------------------------------------------------------------------
\* export: the pickle is truncated, written, and then the yaml file is written.
Export(t) ==
  LET at(step) == job' = [job EXCEPT ![t].step = step]
  IN  \/ job[t].step = "tear" /\ at("dump")
         /\ trr' = [trr EXCEPT ![t] = Torn] /\ UNCHANGED <<stale, todo, stamp_stale>>
      \/ job[t].step = "dump" /\ at("yaml")
         /\ trr' = [trr EXCEPT ![t] = job[t].mem] /\ UNCHANGED <<stale, todo, stamp_stale>>
      \/ job[t].step = "yaml" /\ at(job[t].then) /\ Write(t, "yaml") /\ UNCHANGED trr

rest == <<make, keep_going, created, tb_todo, md, tb_stale, tb, collect, report, counts>>

\* The script of the next stage of a test starts, and reads the metadata, without
\* the lock, and the record of its test.
Start(t) ==
  \E s \in {"asm", "bin", "log", "yaml"} :
    /\ TestReady(t, s)
    /\ IF md = "torn" \/ trr[t] = Torn
       THEN failed' = failed \cup {t} /\ UNCHANGED job
       ELSE /\ job' = [job EXCEPT ![t] = [Idle EXCEPT !.stage = s, !.step = "work",
                                                    !.mem = trr[t]]]
            /\ UNCHANGED failed
    /\ UNCHANGED <<rest, trr, stale, todo, stamp_stale, out, ghosts>>

\* The script raises, or returns nonzero.
Fails(t) == failed' = failed \cup {t} /\ job' = [job EXCEPT ![t] = Idle]

\* The script returns, and make goes on with the next file of the test; a log that
\* is still missing does not keep it from the check.
End(t) ==
  /\ job[t].step = "end"
  /\ IF job[t].exit # 0 THEN Fails(t) /\ UNCHANGED todo
     ELSE /\ job' = [job EXCEPT ![t] = Idle] /\ UNCHANGED failed
          /\ todo' = [todo EXCEPT ![t] =
               (@ \ {job[t].stage})
                 \cup (IF job[t].stage = "log" /\ ~out[t].exists THEN {"yaml"} ELSE {})]
  /\ UNCHANGED <<rest, trr, stale, stamp_stale, out, ghosts>>

\* The generator is asked for its commands, they are run, and what they made is
\* copied to the test, all before the record says where the assembly is.
run_instr_gen(t) ==
  /\ job[t].stage = "asm"
  /\ \/ /\ job[t].step = "work"
        /\ \/ Fails(t) /\ UNCHANGED <<stale, todo, stamp_stale>>
           \/ /\ job' = [job EXCEPT ![t].step = "tear", ![t].exit = 1, ![t].mem.assembly = TRUE]
              /\ UNCHANGED <<failed, stale, todo, stamp_stale>>
           \/ /\ job' = [job EXCEPT ![t].step = "tear", ![t].mem.assembly = TRUE]
              /\ Write(t, "asm") /\ UNCHANGED failed
        /\ UNCHANGED trr
     \/ Export(t) /\ UNCHANGED failed
  /\ UNCHANGED <<rest, out, ghosts>>

\* The record is exported before the commands run; they fail when it does not
\* have the assembly of the test, or for reasons of their own.
compile_test(t) ==
  /\ job[t].stage = "bin"
  /\ \/ /\ job[t].step = "work"
        /\ \/ Fails(t)
           \/ /\ job' = [job EXCEPT ![t].step = "tear", ![t].then = "run",
                                    ![t].mem.assembly = @ \/ t \in Directed]
              /\ UNCHANGED failed
        /\ UNCHANGED <<trr, stale, todo, stamp_stale>>
     \/ Export(t) /\ UNCHANGED failed
     \/ /\ job[t].step = "run"
        /\ \/ Fails(t) /\ UNCHANGED <<stale, todo, stamp_stale>>
           \/ /\ job[t].mem.assembly /\ Write(t, "bin") /\ UNCHANGED failed
              /\ job' = [job EXCEPT ![t].step = "end"]
        /\ UNCHANGED trr
  /\ UNCHANGED <<rest, out, ghosts>>

\* The log of a simulation that still runs.
Partial == [started |-> TRUE, killed |-> FALSE, exists |-> TRUE, log |-> <<"plain">>,
            trace |-> <<"instr">>]

\* What a simulator that does not start leaves: the files that were there, except
\* that the log of VCS is the one that run_rtl itself has opened.
Absent(files, o) ==
  [files EXCEPT !.started = FALSE, !.killed = o.killed,
                !.log = IF Vcs THEN <<"plain">> ELSE @]

\* The exit status of the simulator is not looked at.
simulate(t) ==
  \/ /\ job[t].step = "run"
     /\ \/ /\ Write(t, "log") /\ out' = [out EXCEPT ![t] = Partial]
           /\ job' = [job EXCEPT ![t].step = "sim"]
           /\ due' = [due EXCEPT ![t] = {"check"}]
        \/ \E o \in Outcomes[t] :
             /\ ~o.started
             /\ out' = [out EXCEPT ![t] = Absent(@, o)]
             /\ job' = [job EXCEPT ![t].step = "tear", ![t].then = "end",
                                   ![t].mem = after_run_rtl(@, o)]
             /\ due' = [due EXCEPT ![t] = (@ \ {"sim"})
                                            \cup (IF out[t].exists THEN {} ELSE {"check"})]
             /\ UNCHANGED <<stale, todo, stamp_stale>>
     /\ sims' = [sims EXCEPT ![t] = IF @ = 2 THEN 2 ELSE @ + 1]
     /\ checked' = checked \ {t} /\ UNCHANGED <<everPassed, orphaned>>
  \/ /\ job[t].step = "sim"
     /\ \E o \in Outcomes[t] :
          /\ o.started
          /\ Write(t, "log") /\ out' = [out EXCEPT ![t] = o]
          /\ job' = [job EXCEPT ![t].step = "tear", ![t].then = "end",
                                ![t].mem = after_run_rtl(@, o)]
          /\ everPassed' = [everPassed EXCEPT ![t] = @ \/ PassedFiles(o)]
     /\ UNCHANGED <<sims, checked, due, orphaned>>

\* The script raises when it finds no command for the test; the record is exported
\* before the simulation and after it.
run_rtl(t) ==
  /\ job[t].stage = "log"
  /\ \/ /\ job[t].step = "work"
        /\ \/ Fails(t)
           \/ job' = [job EXCEPT ![t].step = "tear", ![t].then = "run"] /\ UNCHANGED failed
        /\ UNCHANGED <<trr, stale, todo, stamp_stale, out, ghosts>>
     \/ Export(t) /\ UNCHANGED <<failed, out, ghosts>>
     \/ simulate(t) /\ UNCHANGED <<failed, trr>>
  /\ UNCHANGED rest

check_logs(t) ==
  /\ job[t].stage = "yaml"
  /\ \/ /\ job[t].step = "work"
        /\ \/ compare_raises(job[t].mem, out[t]) /\ Fails(t) /\ UNCHANGED ghosts
           \/ /\ ~compare_raises(job[t].mem, out[t])
              /\ job' = [job EXCEPT ![t].step = "tear",
                                    ![t].mem = compare_test_run(@, out[t])]
              /\ checked' = checked \cup {t} /\ due' = [due EXCEPT ![t] = @ \ {"check"}]
              /\ UNCHANGED <<failed, sims, everPassed, orphaned>>
        /\ UNCHANGED <<trr, stale, todo, stamp_stale>>
     \/ Export(t) /\ UNCHANGED <<failed, ghosts>>
  /\ UNCHANGED <<rest, out>>

-----------------------------------------------------------------------------
tb_rest == <<make, keep_going, created, trr, job, stamp_stale, collect, out, report, counts,
             sims, everPassed, checked, orphaned>>

\* The metadata is locked while the commands are made, also when that fails, and
\* exported; then the commands run, and the stamp is touched when they succeed.
compile_tb ==
  /\ \/ /\ TbReady
        /\ IF md = "torn" THEN failed' = failed \cup {"tb"} /\ UNCHANGED tb
           ELSE tb' = "locked" /\ UNCHANGED failed
        /\ UNCHANGED <<md, due, stale, todo, tb_stale, tb_todo>>
     \/ /\ tb = "locked" /\ tb' = "export" /\ md' = "torn"
        /\ UNCHANGED <<failed, due, stale, todo, tb_stale, tb_todo>>
     \/ /\ tb = "export" /\ tb' = "build" /\ md' = "whole"
        /\ UNCHANGED <<failed, due, stale, todo, tb_stale, tb_todo>>
     \/ /\ tb = "build" /\ tb' = "idle" /\ UNCHANGED md
        /\ \/ failed' = failed \cup {"tb"} /\ UNCHANGED <<due, stale, todo, tb_stale, tb_todo>>
           \/ /\ tb_stale' = FALSE /\ tb_todo' = FALSE
              /\ stale' = [t \in Tests |-> stale[t] \cup {"log"}]
              /\ todo' = [t \in Tests |-> todo[t] \cup {"log"}]
              /\ due' = [t \in Tests |-> due[t] \cup {"sim"}]
              /\ UNCHANGED failed
  /\ UNCHANGED tb_rest

\* All verdicts are reached before the report is written.  A record that cannot
\* be unpickled raises, which ends the script after its export of the metadata;
\* when a test has not passed its status is 1 and the stamp is not touched.
collect_results ==
  /\ \/ /\ CollectReady
        /\ IF md = "torn" THEN failed' = failed \cup {"collect"} /\ UNCHANGED collect
           ELSE collect' = "locked" /\ UNCHANGED failed
        /\ UNCHANGED <<md, report, stamp_stale>>
     \/ /\ collect = "locked"
        /\ IF \E t \in Tests : trr[t] = Torn THEN collect' = "broken" /\ UNCHANGED report
           ELSE /\ report' = [t \in Tests |-> verdict(trr[t])]
                /\ collect' = IF \A t \in Tests : trr[t].passed = "true" THEN "passed"
                              ELSE "broken"
        /\ md' = "torn" /\ UNCHANGED <<failed, stamp_stale>>
     \/ /\ collect \in {"passed", "broken"} /\ collect' = "idle" /\ md' = "whole"
        /\ IF collect = "passed" THEN stamp_stale' = FALSE /\ UNCHANGED failed
           ELSE failed' = failed \cup {"collect"} /\ UNCHANGED stamp_stale
        /\ UNCHANGED report
  /\ UNCHANGED <<make, keep_going, created, tb_todo, todo, trr, job, stale, tb_stale, tb, out,
                 counts, ghosts>>

-----------------------------------------------------------------------------
Step == \/ CreateMetadata \/ compile_tb \/ collect_results
        \/ \E t \in Tests : \/ CreateRecord(t) \/ Start(t) \/ End(t) \/ run_instr_gen(t)
                            \/ compile_test(t) \/ run_rtl(t) \/ check_logs(t)

\* make ends when no script runs and it can start none.
EndSession ==
  /\ make = "up" /\ \A t \in Tests : ~Running(t)
  /\ tb = "idle" /\ collect = "idle" /\ ~TbReady /\ ~CollectReady
  /\ \A t \in Tests, s \in {"asm", "bin", "log", "yaml"} : ~TestReady(t, s)
  /\ make' = "down" /\ failed' = {} /\ tb_todo' = FALSE /\ todo' = [t \in Tests |-> {}]
  /\ UNCHANGED <<keep_going, created, md, trr, job, stale, tb_stale, tb, stamp_stale, collect,
                 out, report, counts, ghosts>>

\* make and all scripts are killed (SIGKILL, a machine that goes down): the files
\* stay as they are.  Locks go with their owners.
Crash ==
  /\ make # "down" /\ counts.crashes < MaxCrashes
  /\ counts' = [counts EXCEPT !.crashes = @ + 1]
  /\ make' = "down" /\ failed' = {} /\ tb_todo' = FALSE /\ todo' = [t \in Tests |-> {}]
  /\ job' = [t \in Tests |-> Idle] /\ tb' = "idle" /\ collect' = "idle"
  /\ orphaned' = orphaned \cup
       {t \in Tests : job[t].stage = "asm" /\ job[t].step = "tear" /\ job[t].exit = 0}
  /\ UNCHANGED <<keep_going, created, md, trr, stale, tb_stale, stamp_stale, out, report,
                 sims, everPassed, checked, due>>

\* A source of the core or of the testbench changes between two sessions.
EditRtl ==
  /\ make = "down" /\ ~tb_stale /\ counts.edits < MaxEdits
  /\ counts' = [counts EXCEPT !.edits = @ + 1] /\ tb_stale' = TRUE
  /\ UNCHANGED <<makeVars, md, trr, job, stale, tb, stamp_stale, collect, out, report, ghosts>>

Next == Step \/ EndSession \/ BeginSession \/ Crash \/ EditRtl

\* make goes on while there is something to do; nobody has to start it again.
Spec == Init /\ [][Next]_vars /\ WF_vars(Step) /\ WF_vars(EndSession)

-----------------------------------------------------------------------------
\* Every variable has its type.
TypeOK ==
  /\ make \in {"down", "create", "commit", "up"} /\ keep_going \in BOOLEAN
  /\ failed \subseteq Tests \cup {"tb", "collect", "metadata"} /\ created \subseteq Tests
  /\ md \in {"none", "torn", "whole"} /\ trr \in [Tests -> TestRun \cup {Torn}]
  /\ job \in [Tests ->
       [stage : {"none", "asm", "bin", "log", "yaml"},
        step : {"idle", "work", "tear", "dump", "yaml", "run", "sim", "end"},
        then : {"run", "end"}, exit : {0, 1}, mem : TestRun]]
  /\ stale \in [Tests -> SUBSET {"asm", "bin", "log", "yaml"}]
  /\ todo \in [Tests -> SUBSET {"asm", "bin", "log", "yaml"}]
  /\ tb \in {"idle", "locked", "export", "build"} /\ {tb_stale, tb_todo, stamp_stale} \subseteq BOOLEAN
  /\ collect \in {"idle", "locked", "passed", "broken"}
  /\ out \in [Tests -> Outcome]
  /\ report = <<>> \/ report \in [Tests -> {"PASS", "FAILED", "FAILED {T}"}]
  /\ sims \in [Tests -> 0 .. 2] /\ everPassed \in [Tests -> BOOLEAN] /\ checked \subseteq Tests
  /\ due \in [Tests -> SUBSET {"sim", "check"}] /\ orphaned \subseteq Tests

\* A pass is earned: a test is recorded and reported as passed only when one of
\* its simulations left the log and the trace of a pass, however make was stopped
\* and started again.  That such a simulation was killed afterwards is known only to
\* the record, and lost when make stops before the record is exported; without
\* that, FirstVerdictExact has the killed ones too.
\* (check_logs.py, run_rtl.py, collect_results.py)
PassEarned ==
  \A t \in Tests :
    \/ everPassed[t]
    \/ /\ trr[t] = Torn \/ trr[t].passed # "true"
       /\ report = <<>> \/ report[t] # "PASS"

\* The first verdict is exact: after one simulation and the check of its log, the
\* test has passed exactly when the simulation was good. (check_logs.py)
FirstVerdictExact ==
  \A t \in Tests :
    sims[t] = 1 /\ t \in checked /\ ~Running(t) /\ trr[t] # Torn /\ counts.crashes = 0
      => (verdict(trr[t]) = "PASS" <=> Good(out[t]))

\* Whatever was stopped and changed before, a report is written only when every test
\* was simulated, or tried to be, with the testbench of the sources of now, and when
\* each log that this make has written, or found missing, was checked.  It is not
\* said of a log of an earlier make: trr.yaml, which run_rtl exports after the
\* simulation, is newer than it, checked or not.  (ibex_sim.mk: regr.log.stamp
\* depends on trr.yaml of all tests, that on the log, and that on the testbench)
ReportsAfterChecks ==
  [][report' # report => ~tb_stale /\ \A t \in Tests : due[t] = {}]_vars

\* The script that compiles a test finds in its record where the assembly is, however
\* make is stopped, except for a test whose generator was stopped between the copy of
\* the assembly and the export: then make takes the file as made, now and ever after.
\* (run_instr_gen.py copies the file before it exports)
CompileKnowsSource ==
  \A t \in Tests :
    job[t].stage = "bin" /\ job[t].step = "run" /\ t \notin orphaned => job[t].mem.assembly

\* A make that got as far as running scripts comes to an end, whatever fails in it.
SessionEnds == make = "up" ~> make = "down"

\* What check_logs.py:5 says of a verdict, for every report: a test whose log was
\* checked passes exactly when its last simulation was good.
ReportsLastRun ==
  \A t \in Tests :
    t \in checked /\ ~Running(t) /\ trr[t] # Torn
      => (verdict(trr[t]) = "PASS" <=> Good(out[t]))

\* The state of a regression as a whole: who runs and what is on disk.
RegressionInv == TypeOK /\ CompileKnowsSource
=============================================================================
