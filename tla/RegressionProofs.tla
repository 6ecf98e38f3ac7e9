--------------------------- MODULE RegressionProofs ---------------------------
(* What holds of the scripts of a regression: of the scan of a log of any      *)
(* length, and of every set of tests, whatever their simulations leave, over   *)
(* any number of sessions, crashes and changes of the core.                    *)
EXTENDS Regression, WellFoundedInduction, TLAPS

-----------------------------------------------------------------------------
(* Induction on the lines of a log, from the well-foundedness of < on Nat. *)

LEMMA LeastNumber ==
  ASSUME NEW S \in SUBSET Nat, S # {}
  PROVE  \E n \in S : \A m \in S : n <= m
<1>1. PICK n \in S : \A m \in S : <<m, n>> \notin OpToRel(<, Nat)
  BY NatLessThanWellFounded, WFMin
<1>2. \A m \in S : ~(m < n)
  BY <1>1 DEF OpToRel
<1>3. QED
  BY <1>2

LEMMA LineByLine ==
  ASSUME NEW N \in Nat, NEW S, 0 \in S, \A n \in 1 .. N : n - 1 \in S => n \in S
  PROVE  0 .. N \subseteq S
<1>1. SUFFICES ASSUME (0 .. N) \ S # {} PROVE FALSE
  OBVIOUS
<1>2. PICK n \in (0 .. N) \ S : \A m \in (0 .. N) \ S : n <= m
  <2>1. (0 .. N) \ S \in SUBSET Nat
    OBVIOUS
  <2>2. QED
    BY <1>1, <2>1, LeastNumber
<1>3. n \in 1 .. N /\ n - 1 \in 0 .. N /\ ~(n <= n - 1)
  BY <1>2
<1>4. QED
  BY <1>2, <1>3

-----------------------------------------------------------------------------
(* check_ibex_uvm_log *)

\* The state of the scan after the line before.
scan_next(s, log, n) == IF s.ended THEN s ELSE scan_line(s, log[n], n)

Scans(f, log, N) ==
  f = [n \in 0 .. N |-> IF n = 0 THEN Scanning ELSE scan_next(f[n - 1], log, n)]

LEMMA ScanExists ==
  ASSUME NEW log \in Seq(Line)
  PROVE  \E f : Scans(f, log, Len(log))
<1> DEFINE S == {N \in Nat : \E f : Scans(f, log, N)}
<1>1. 0 \in S
  <2>1. Scans([n \in 0 .. 0 |-> Scanning], log, 0)
    BY DEF Scans
  <2>2. QED
    BY <2>1
<1>2. ASSUME NEW N \in 1 .. Len(log), N - 1 \in S PROVE N \in S
  <2>1. PICK f : Scans(f, log, N - 1)
    BY <1>2
  <2> DEFINE g == [n \in 0 .. N |-> IF n = N THEN scan_next(f[N - 1], log, N) ELSE f[n]]
  <2>2. \A n \in 0 .. N - 1 : g[n] = f[n] /\ n # N
    OBVIOUS
  <2>3. \A n \in 0 .. N : g[n] = IF n = 0 THEN Scanning ELSE scan_next(g[n - 1], log, n)
    <3>1. TAKE n \in 0 .. N
    <3>2. CASE n = N
      BY <2>2, <3>2
    <3>3. CASE n # N
      <4>1. n \in 0 .. N - 1 /\ (n # 0 => n - 1 \in 0 .. N - 1)
        BY <3>3
      <4>2. f[n] = IF n = 0 THEN Scanning ELSE scan_next(f[n - 1], log, n)
        BY <2>1, <4>1 DEF Scans
      <4>3. QED
        BY <2>2, <4>1, <4>2
    <3>4. QED
      BY <3>2, <3>3
  <2>4. Scans(g, log, N)
    BY <2>3 DEF Scans
  <2>5. QED
    BY <2>4
<1>3. QED
  <2>1. Len(log) \in Nat
    OBVIOUS
  <2>2. 0 .. Len(log) \subseteq S
    BY <1>1, <1>2, <2>1, LineByLine
  <2>3. QED
    BY <2>1, <2>2

LEMMA ScanByLine ==
  ASSUME NEW log \in Seq(Line)
  PROVE  \E f : Scans(f, log, Len(log)) /\ scan(log) = f[Len(log)]
<1> DEFINE f == CHOOSE f : Scans(f, log, Len(log))
<1>1. Scans(f, log, Len(log))
  BY ScanExists
<1>2. scan(log) = f[Len(log)]
  BY DEF scan, Scans, scan_next
<1>3. QED
  BY <1>1, <1>2

\* What the scan has found after n lines.
ErrorAt(log, k) == log[k] \in ErrorLine /\ \A m \in 1 .. k - 1 : log[m] \notin {"passed", "failed"}

Found(s, log, n) ==
  /\ s.passed \in BOOLEAN /\ s.failed \in BOOLEAN /\ s.ended \in BOOLEAN
  /\ s.test_result_seen \in BOOLEAN /\ s.error_linenum \in 0 .. n
  /\ s.failed <=> \E k \in 1 .. n : log[k] = "failed" \/ ErrorAt(log, k)
  /\ s.passed => \E k \in 1 .. n : log[k] = "passed"
  /\ s.ended => \E k \in 1 .. n : log[k] = "failed"
  /\ ~s.ended => /\ s.passed <=> \E k \in 1 .. n : log[k] = "passed"
                 /\ s.test_result_seen <=> \E k \in 1 .. n : log[k] \in {"passed", "failed"}
  /\ s.error_linenum = 0 <=> \A k \in 1 .. n : ~ErrorAt(log, k)
  /\ s.error_linenum # 0 => ErrorAt(log, s.error_linenum)

LEMMA FoundByLine ==
  ASSUME NEW log \in Seq(Line), NEW f, Scans(f, log, Len(log)), NEW n \in 0 .. Len(log)
  PROVE  Found(f[n], log, n)
<1> DEFINE S == {i \in 0 .. Len(log) : Found(f[i], log, i)}
<1>1. 0 \in S
  <2>1. f[0] = Scanning /\ 0 \in 0 .. Len(log) /\ 1 .. 0 = {}
    BY DEF Scans
  <2>2. Found(Scanning, log, 0)
    BY <2>1 DEF Scanning, Found
  <2>3. QED
    BY <2>1, <2>2
<1>2. ASSUME NEW i \in 1 .. Len(log), i - 1 \in S PROVE i \in S
  <2> DEFINE s == f[i - 1]
             t == f[i]
  <2>1. Found(s, log, i - 1)
    BY <1>2
  <2>2. t = IF s.ended THEN s ELSE scan_line(s, log[i], i)
    BY DEF Scans, scan_next
  <2>3. i \in Nat /\ i - 1 \in Nat /\ i # 0 /\ log[i] \in Line
        /\ \A k : k \in 1 .. i <=> k \in 1 .. i - 1 \/ k = i
    OBVIOUS
  <2> HIDE DEF s, t
  <2>4. ASSUME s.ended PROVE Found(t, log, i)
    <3>1. t = s
      BY <2>2, <2>4
    <3>2. \E k \in 1 .. i - 1 : log[k] = "failed"
      BY <2>1, <2>4 DEF Found
    <3>3. ~ErrorAt(log, i)
      BY <3>2 DEF ErrorAt
    <3>4. s.failed /\ \E k \in 1 .. i : log[k] = "failed"
      BY <2>1, <3>2 DEF Found
    <3>5. Found(s, log, i)
      BY <2>1, <2>3, <2>4, <3>3, <3>4 DEF Found
    <3>6. QED
      BY <3>1, <3>5
  <2>5. ASSUME ~s.ended PROVE Found(t, log, i)
    <3>1. ErrorAt(log, i) <=> log[i] \in ErrorLine /\ ~s.test_result_seen
      BY <2>1, <2>5 DEF Found, ErrorAt
    <3>2. /\ t.passed = (s.passed \/ log[i] = "passed")
          /\ t.failed = (s.failed \/ ErrorAt(log, i) \/ log[i] = "failed")
          /\ t.error_linenum = IF ErrorAt(log, i) THEN i ELSE s.error_linenum
          /\ t.test_result_seen = (s.test_result_seen \/ log[i] \in {"passed", "failed"})
          /\ t.ended = (log[i] = "failed")
      BY <2>2, <2>5, <3>1, Zenon DEF scan_line
    <3>3. t.error_linenum \in 0 .. i /\ t.passed \in BOOLEAN /\ t.failed \in BOOLEAN
          /\ t.ended \in BOOLEAN /\ t.test_result_seen \in BOOLEAN
      BY <2>1, <2>3, <3>2 DEF Found
    <3>4. /\ t.failed <=> \E k \in 1 .. i : log[k] = "failed" \/ ErrorAt(log, k)
          /\ t.passed <=> \E k \in 1 .. i : log[k] = "passed"
          /\ t.test_result_seen <=> \E k \in 1 .. i : log[k] \in {"passed", "failed"}
          /\ t.ended => \E k \in 1 .. i : log[k] = "failed"
      BY <2>1, <2>3, <2>5, <3>2 DEF Found
    <3>5. /\ t.error_linenum = 0 <=> \A k \in 1 .. i : ~ErrorAt(log, k)
          /\ t.error_linenum # 0 => ErrorAt(log, t.error_linenum)
      BY <2>1, <2>3, <3>2 DEF Found
    <3>6. QED
      BY <3>3, <3>4, <3>5 DEF Found
  <2>6. Found(t, log, i)
    BY <2>4, <2>5
  <2>7. QED
    BY <2>6 DEF t
<1>3. QED
  <2>1. Len(log) \in Nat
    OBVIOUS
  <2>2. 0 .. Len(log) \subseteq S
    BY <1>1, <1>2, <2>1, LineByLine
  <2>3. QED
    BY <2>2

LEMMA ScanFound == ASSUME NEW log \in Seq(Line) PROVE Found(scan(log), log, Len(log))
<1>1. PICK f : Scans(f, log, Len(log)) /\ scan(log) = f[Len(log)]
  BY ScanByLine
<1>2. Len(log) \in 0 .. Len(log)
  OBVIOUS
<1>3. QED
  BY <1>1, <1>2, FoundByLine

\* A log of any length is a pass for check_ibex_uvm_log exactly if it says so, no error
\* comes before that, and it has no FAILED line; what it reports is a failure mode
\* of the record, unless it raises. (ibex_log_to_trace_csv.py, lines 177-251)
THEOREM UvmVerdictExact ==
  ASSUME NEW log \in Seq(Line)
  PROVE  /\ check_ibex_uvm_log(log).passed <=> PassedLog(log)
         /\ check_ibex_uvm_log(log).failure_mode \in Failure_Modes
         /\ PassedLog(log) => ~Raises(log)
<1> DEFINE s == scan(log)
<1>1. Found(s, log, Len(log)) /\ Len(log) \in Nat /\ DOMAIN log = 1 .. Len(log)
  BY ScanFound
<1> HIDE DEF s
<1>2. ASSUME PassedLog(log) PROVE s.passed /\ ~s.failed
  <2>1. PICK n \in 1 .. Len(log) : log[n] = "passed" /\ \A m \in 1 .. n : log[m] \notin ErrorLine
    BY <1>1, <1>2 DEF PassedLog
  <2>2. \A k \in 1 .. Len(log) : log[k] # "failed"
    BY <1>1, <1>2 DEF PassedLog
  <2>3. ASSUME NEW k \in 1 .. Len(log), ErrorAt(log, k) PROVE FALSE
    <3>1. ~(k <= n)
      BY <2>1, <2>3 DEF ErrorAt
    <3>2. n \in 1 .. k - 1
      BY <3>1
    <3>3. QED
      BY <2>1, <2>3, <3>2 DEF ErrorAt
  <2>4. QED
    BY <1>1, <2>1, <2>2, <2>3 DEF Found
<1>3. ASSUME s.passed, ~s.failed PROVE PassedLog(log)
  <2>1. \A k \in 1 .. Len(log) : log[k] # "failed" /\ ~ErrorAt(log, k)
    BY <1>1, <1>3 DEF Found
  <2> DEFINE P == {k \in 1 .. Len(log) : log[k] = "passed"}
  <2>2. P # {} /\ P \in SUBSET Nat
    BY <1>1, <1>3 DEF Found
  <2>3. PICK n \in P : \A m \in P : n <= m
    <3> HIDE DEF P
    <3> QED BY <2>2, LeastNumber
  <2>4. \A m \in 1 .. n - 1 : log[m] \notin {"passed", "failed"}
    BY <1>1, <2>1, <2>3
  <2>5. \A m \in 1 .. n : log[m] \notin ErrorLine
    <3>1. SUFFICES ASSUME NEW m \in 1 .. n, log[m] \in ErrorLine PROVE FALSE
      OBVIOUS
    <3>2. m \in 1 .. Len(log) /\ \A i \in 1 .. m - 1 : i \in 1 .. n - 1
      BY <1>1, <2>3
    <3>3. ErrorAt(log, m)
      BY <2>4, <3>1, <3>2 DEF ErrorAt
    <3>4. QED
      BY <2>1, <3>2, <3>3
  <2>6. QED
    BY <1>1, <2>1, <2>3, <2>5 DEF PassedLog
<1>4. check_ibex_uvm_log(log).passed <=> PassedLog(log)
  BY <1>1, <1>2, <1>3 DEF check_ibex_uvm_log, s, Found
<1>5. check_ibex_uvm_log(log).failure_mode \in Failure_Modes
  BY DEF check_ibex_uvm_log, Failure_Modes
<1>6. PassedLog(log) => ~Raises(log)
  BY <1>2 DEF Raises, s
<1>7. QED
  BY <1>4, <1>5, <1>6

-----------------------------------------------------------------------------
(* The record of a test. *)

LEMMA TornIsNoRecord == Torn \notin TestRun
<1>1. DOMAIN Torn = {"torn"} /\ \A r \in TestRun : "passed" \in DOMAIN r
  BY DEF Torn, TestRun
<1>2. QED
  BY <1>1

\* What the scripts after a simulation do to a record.
LEMMA RecordChanges ==
  ASSUME NEW r \in TestRun, NEW o \in Outcome
  PROVE  /\ after_run_rtl(r, o) \in TestRun
         /\ after_run_rtl(r, o).passed = r.passed
         /\ after_run_rtl(r, o).assembly = r.assembly
         /\ after_run_rtl(r, o).failure_mode = IF o.killed THEN "TIMEOUT" ELSE r.failure_mode
         /\ compare_test_run(r, o) \in TestRun
         /\ compare_test_run(r, o).assembly = r.assembly
         /\ r.failure_mode = "TIMEOUT" =>
              compare_test_run(r, o).passed = "false" /\ compare_test_run(r, o).failure_mode = "TIMEOUT"
         /\ r.failure_mode # "TIMEOUT" /\ PassedFiles(o) =>
              /\ compare_test_run(r, o).passed = "true"
              /\ compare_test_run(r, o).failure_mode = r.failure_mode
         /\ r.failure_mode # "TIMEOUT" /\ ~PassedFiles(o) =>
              compare_test_run(r, o).passed \in {"false", r.passed}
<1>1. after_run_rtl(r, o) = [r EXCEPT !.failure_mode = IF o.killed THEN "TIMEOUT" ELSE @]
  BY DEF after_run_rtl, TestRun
<1>2. PassedFiles(o) <=> process_ibex_sim_log_ok(o.trace) /\ check_ibex_uvm_log(o.log).passed
  <2>1. o.log \in Seq(Line)
    BY DEF Outcome
  <2>2. check_ibex_uvm_log(o.log).passed <=> PassedLog(o.log)
    BY <2>1, UvmVerdictExact
  <2>3. QED
    BY <2>2 DEF PassedFiles, process_ibex_sim_log_ok, instr_cnt
<1>3. check_ibex_uvm_log(o.log).failure_mode \in Failure_Modes
  BY UvmVerdictExact DEF Outcome
<1>4. compare_test_run(r, o) =
        IF r.failure_mode = "TIMEOUT" THEN [r EXCEPT !.passed = "false"]
        ELSE IF ~process_ibex_sim_log_ok(o.trace) \/ o.log = <<>>
          THEN [r EXCEPT !.passed = "false", !.failure_mode = "FILE_ERROR"]
        ELSE IF check_ibex_uvm_log(o.log).passed THEN [r EXCEPT !.passed = "true"]
        ELSE [r EXCEPT !.failure_mode = check_ibex_uvm_log(o.log).failure_mode]
  BY DEF compare_test_run, failed_by
<1>5. PassedFiles(o) => o.log # <<>>
  BY DEF PassedFiles, PassedLog
<1>6. QED
  BY <1>1, <1>2, <1>3, <1>4, <1>5 DEF TestRun, Failure_Modes

-----------------------------------------------------------------------------
(* The invariant of the flow. *)

\* The record of a test as the flow has it: on disk, or in the script that runs.
Current(t) == IF Running(t) THEN job[t].mem ELSE trr[t]

\* A record, or a copy, that says passed has a good simulation behind it; so do
\* the files, when they are those of a pass.
Earned(t) ==
  \/ everPassed[t]
  \/ /\ trr[t] = Torn \/ trr[t].passed # "true"
     /\ job[t].mem.passed # "true" /\ ~PassedFiles(out[t])
     /\ report = <<>> \/ report[t] # "PASS"

\* Jobs and make.
Jobs(t) ==
  /\ ~Running(t) => job[t] = Idle
  /\ Running(t) => make = "up" /\ job[t].stage # "none"
  /\ job[t].exit # 0 => job[t].stage = "asm" /\ job[t].step # "work"
  /\ t \in Directed => "asm" \notin stale[t] \cup todo[t] /\ job[t].stage # "asm"
  /\ md = "none" \/ make \in {"create", "commit"} =>
       ~Running(t) /\ sims[t] = 0 /\ (t \notin Directed => "asm" \in stale[t])

\* Whether the script that simulates is past the start of its simulation.
Simulated(t) ==
  /\ job[t].stage = "log"
  /\ job[t].step \in {"sim", "end"} \/ (job[t].step \in {"tear", "dump", "yaml"} /\ job[t].then = "end")

\* The file has what the script has, except from a change to the end of the export;
\* only the generator changes whether the assembly is known.
Stored(t) ==
  /\ job[t].step = "dump" => trr[t] = Torn
  /\ job[t].step \in {"work", "yaml", "run", "sim", "end"} => trr[t] = job[t].mem
  /\ job[t].step = "tear" /\ job[t].stage # "asm" /\ t \notin Directed
       => trr[t] = Torn \/ trr[t].assembly = job[t].mem.assembly

\* Short of a crash a file is torn only in an export.
Recorded(t) == trr[t] = Torn => job[t].step = "dump"

\* The assembly is recorded before it is used.
Assembled(t) ==
  /\ t \notin Directed /\ t \notin orphaned /\ "asm" \notin stale[t]
       => Current(t) = Torn \/ Current(t).assembly
  /\ job[t].stage = "bin" /\ job[t].step # "work" /\ t \notin orphaned => job[t].mem.assembly
  /\ job[t].stage = "bin" /\ t \notin Directed => "asm" \notin stale[t]
  /\ make = "up" /\ "asm" \in stale[t] => "asm" \in todo[t]
  /\ "asm" \in todo[t] /\ job[t].stage # "asm" => "asm" \in stale[t]
  /\ job[t].stage = "asm" =>
       ("asm" \in stale[t] <=> job[t].step = "work" \/ job[t].exit # 0)

NoVerdict(t) == Current(t).passed = "unset"

\* From the creation of the record to the second simulation.
FirstRun(t) ==
  /\ sims[t] = 0 => /\ out[t] = NoOutcome /\ NoVerdict(t) /\ Current(t).failure_mode = "unset"
                    /\ "log" \in stale[t] /\ (make = "up" => "log" \in todo[t])
                    /\ job[t].stage # "yaml" /\ t \notin checked /\ ~Simulated(t)
  /\ job[t].step = "sim" => out[t] = Partial /\ t \notin checked
  /\ sims[t] = 1 /\ ~out[t].started => ~PassedFiles(out[t])
  /\ sims[t] = 1 /\ t \notin checked =>
       NoVerdict(t) /\ Current(t).failure_mode = IF out[t].killed THEN "TIMEOUT" ELSE "unset"
  /\ sims[t] = 1 /\ t \in checked =>
       /\ Current(t).passed = "true" <=> Good(out[t])
       /\ out[t].killed => Current(t).failure_mode = "TIMEOUT"
       /\ Current(t).failure_mode = "TIMEOUT" => ~Good(out[t])

\* What is due is still to be made.
Due(t) ==
  /\ "sim" \in due[t] =>
       "log" \in stale[t] /\ (make = "up" => "log" \in todo[t]) /\ ~Simulated(t)
  /\ "check" \in due[t] => make \in {"up", "down"}
  /\ "check" \in due[t] /\ make = "up" =>
       "yaml" \in todo[t] \/ (Simulated(t) /\ ~out[t].exists)
  /\ job[t].stage = "yaml" /\ job[t].step # "work" => "check" \notin due[t]
  /\ job[t].stage = "log" => ~tb_todo

OfTest(t) ==
  /\ Earned(t) /\ Jobs(t) /\ Stored(t) /\ Assembled(t) /\ Due(t)
  /\ counts.crashes = 0 => Recorded(t) /\ FirstRun(t)

\* make and the two scripts for all tests.
MakeInv ==
  /\ counts \in [sessions : Nat, crashes : Nat, edits : Nat]
  /\ make = "up" => md # "none"
  /\ make = "create" => md = "none"
  /\ make = "commit" => md = "torn"
  /\ tb # "idle" => tb_todo /\ make = "up"
  /\ collect # "idle" => make = "up"
  /\ collect = "locked" => \A t \in Tests : Ended(t)
  /\ make = "up" /\ tb_stale => tb_todo

FlowInv == MakeInv /\ \A t \in Tests : OfTest(t)

-----------------------------------------------------------------------------
(* Types. *)

File == {"asm", "bin", "log", "yaml"}
At   == {"idle", "work", "tear", "dump", "yaml", "run", "sim", "end"}
Job  == [stage : {"none", "asm", "bin", "log", "yaml"}, step : At, then : {"run", "end"},
         exit : {0, 1}, mem : TestRun]

LEMMA NewRecordType == NewTestRun \in TestRun
  BY DEF NewTestRun, TestRun

LEMMA IdleType == Idle \in Job
  BY NewRecordType DEF Idle, Job, At

LEMMA TypeInit == Init => TypeOK
<1> SUFFICES ASSUME Init PROVE TypeOK
  OBVIOUS
<1>1. NoOutcome \in Outcome
  <2>1. <<>> \in Seq(Line) /\ <<>> \in Seq({"instr", "other", "ecall"})
    OBVIOUS
  <2>2. QED
    BY <2>1 DEF NoOutcome, Outcome
<1>2. \A t \in Tests : {Stages(t)[i] : i \in DOMAIN Stages(t)} \subseteq File
  BY DEF Stages, File
<1>3. job \in [Tests -> Job] /\ trr \in [Tests -> TestRun]
  BY IdleType, NewRecordType DEF Init
<1>4. stale \in [Tests -> SUBSET File] /\ todo \in [Tests -> SUBSET File]
  BY <1>2 DEF Init
<1>5. QED
  <2>1. out \in [Tests -> Outcome]
    BY <1>1 DEF Init
  <2>2. sims \in [Tests -> 0 .. 2] /\ everPassed \in [Tests -> BOOLEAN] /\ checked \subseteq Tests
    BY DEF Init
  <2>3. /\ {tb_stale, tb_todo, stamp_stale} \subseteq BOOLEAN
        /\ due \in [Tests -> SUBSET {"sim", "check"}] /\ orphaned \subseteq Tests
    BY DEF Init
  <2>4. QED
    BY <1>3, <1>4, <2>1, <2>2, <2>3 DEF Init, TypeOK, Job, At, File

\* A field of a job is set.
LEMMA SetField ==
  ASSUME NEW j \in Job, NEW step \in At, NEW then \in {"run", "end"}, NEW exit \in {0, 1},
         NEW mem \in TestRun
  PROVE  /\ [j EXCEPT !.step = step] =
              [stage |-> j.stage, step |-> step, then |-> j.then, exit |-> j.exit, mem |-> j.mem]
         /\ [j EXCEPT !.then = then] =
              [stage |-> j.stage, step |-> j.step, then |-> then, exit |-> j.exit, mem |-> j.mem]
         /\ [j EXCEPT !.exit = exit] =
              [stage |-> j.stage, step |-> j.step, then |-> j.then, exit |-> exit, mem |-> j.mem]
         /\ [j EXCEPT !.mem = mem] =
              [stage |-> j.stage, step |-> j.step, then |-> j.then, exit |-> j.exit, mem |-> mem]
<1>1. [j EXCEPT !.step = step] =
              [stage |-> j.stage, step |-> step, then |-> j.then, exit |-> j.exit, mem |-> j.mem]
  BY DEF Job
<1>2. [j EXCEPT !.then = then] =
              [stage |-> j.stage, step |-> j.step, then |-> then, exit |-> j.exit, mem |-> j.mem]
  BY DEF Job
<1>3. [j EXCEPT !.exit = exit] =
              [stage |-> j.stage, step |-> j.step, then |-> j.then, exit |-> exit, mem |-> j.mem]
  BY DEF Job
<1>4. [j EXCEPT !.mem = mem] =
              [stage |-> j.stage, step |-> j.step, then |-> j.then, exit |-> j.exit, mem |-> mem]
  BY DEF Job
<1>5. QED
  BY <1>1, <1>2, <1>3, <1>4

LEMMA JobForm ==
  ASSUME NEW j \in Job
  PROVE  /\ j.stage \in {"none", "asm", "bin", "log", "yaml"} /\ j.step \in At
         /\ j.then \in {"run", "end"} /\ j.exit \in {0, 1} /\ j.mem \in TestRun
  BY DEF Job

-----------------------------------------------------------------------------
(* What a step of a script does: to its job, to the files of its test, and not *)
(* to other tests.                                                             *)

Others(t) ==
  \A u \in Tests \ {t} :
    /\ trr'[u] = trr[u] /\ job'[u] = job[u] /\ stale'[u] = stale[u] /\ todo'[u] = todo[u]
    /\ out'[u] = out[u] /\ sims'[u] = sims[u] /\ everPassed'[u] = everPassed[u]
    /\ u \in checked' <=> u \in checked
    /\ due'[u] = due[u] /\ (u \in orphaned' <=> u \in orphaned)

TestTypes ==
  /\ failed \subseteq Tests \cup {"tb", "collect", "metadata"}
  /\ trr \in [Tests -> TestRun \cup {Torn}] /\ job \in [Tests -> Job]
  /\ stale \in [Tests -> SUBSET File] /\ todo \in [Tests -> SUBSET File]
  /\ stamp_stale \in BOOLEAN /\ out \in [Tests -> Outcome]
  /\ sims \in [Tests -> 0 .. 2] /\ everPassed \in [Tests -> BOOLEAN] /\ checked \subseteq Tests
  /\ due \in [Tests -> SUBSET {"sim", "check"}] /\ orphaned \subseteq Tests

LEMMA TestTypesOK == TypeOK => TestTypes
  BY DEF TypeOK, TestTypes, Job, At, File

\* The script goes on at a step.
Goes(t, step, then, exit, mem) ==
  /\ job' \in [Tests -> Job] /\ \A u \in Tests \ {t} : job'[u] = job[u]
  /\ job'[t].stage = job[t].stage /\ job'[t].step = step /\ job'[t].then = then
  /\ job'[t].exit = exit /\ job'[t].mem = mem

LEMMA JobGoes ==
  ASSUME job \in [Tests -> Job], NEW t \in Tests, NEW step \in At, NEW then \in {"run", "end"},
         NEW exit \in {0, 1}, NEW mem \in TestRun, NEW k,
         k = [stage |-> job[t].stage, step |-> step, then |-> then, exit |-> exit, mem |-> mem],
         job' = [job EXCEPT ![t] = k]
  PROVE  Goes(t, step, then, exit, mem)
<1>1. /\ k \in Job /\ k.stage = job[t].stage /\ k.step = step /\ k.then = then /\ k.exit = exit
      /\ k.mem = mem
  BY JobForm DEF Job
<1>2. job' \in [Tests -> Job] /\ job'[t] = k /\ \A u \in Tests \ {t} : job'[u] = job[u]
  BY <1>1
<1>3. QED
  BY <1>1, <1>2 DEF Goes

\* The forms in which the scripts go on.
LEMMA JobSteps ==
  ASSUME job \in [Tests -> Job], NEW t \in Tests, NEW step \in At, NEW then \in {"run", "end"},
         NEW exit \in {0, 1}, NEW mem \in TestRun
  PROVE  /\ job' = [job EXCEPT ![t].step = step] =>
              Goes(t, step, job[t].then, job[t].exit, job[t].mem)
         /\ job' = [job EXCEPT ![t].step = step, ![t].then = then] =>
              Goes(t, step, then, job[t].exit, job[t].mem)
         /\ job' = [job EXCEPT ![t].step = step, ![t].mem = mem] =>
              Goes(t, step, job[t].then, job[t].exit, mem)
         /\ job' = [job EXCEPT ![t].step = step, ![t].then = then, ![t].mem = mem] =>
              Goes(t, step, then, job[t].exit, mem)
         /\ job' = [job EXCEPT ![t].step = step, ![t].exit = exit, ![t].mem = mem] =>
              Goes(t, step, job[t].then, exit, mem)
<1> DEFINE j == job[t]
           a == [j EXCEPT !.step = step]
           b == [a EXCEPT !.then = then]
           c == [a EXCEPT !.exit = exit]
           am == [a EXCEPT !.mem = mem]
           bm == [b EXCEPT !.mem = mem]
           cm == [c EXCEPT !.mem = mem]
<1>1. /\ j \in Job /\ j.step \in At /\ j.then \in {"run", "end"} /\ j.exit \in {0, 1}
      /\ j.mem \in TestRun
  BY JobForm
<1>2. /\ job' = [job EXCEPT ![t].step = step] => job' = [job EXCEPT ![t] = a]
      /\ job' = [job EXCEPT ![t].step = step, ![t].then = then] => job' = [job EXCEPT ![t] = b]
      /\ job' = [job EXCEPT ![t].step = step, ![t].mem = mem] => job' = [job EXCEPT ![t] = am]
      /\ job' = [job EXCEPT ![t].step = step, ![t].then = then, ![t].mem = mem]
           => job' = [job EXCEPT ![t] = bm]
      /\ job' = [job EXCEPT ![t].step = step, ![t].exit = exit, ![t].mem = mem]
           => job' = [job EXCEPT ![t] = cm]
  BY Zenon DEF Job
<1>3. a \in Job /\ a = [stage |-> j.stage, step |-> step, then |-> j.then, exit |-> j.exit, mem |-> j.mem]
  <2> HIDE DEF j
  <2>1. a = [stage |-> j.stage, step |-> step, then |-> j.then, exit |-> j.exit, mem |-> j.mem]
    BY <1>1, SetField
  <2> HIDE DEF a
  <2>2. QED
    BY <1>1, <2>1 DEF Job
<1>4. b \in Job /\ b = [stage |-> j.stage, step |-> step, then |-> then, exit |-> j.exit, mem |-> j.mem]
  <2> HIDE DEF a
  <2>1. b = [stage |-> j.stage, step |-> step, then |-> then, exit |-> j.exit, mem |-> j.mem]
    BY <1>1, <1>3, SetField
  <2> HIDE DEF b
  <2>2. QED
    BY <1>1, <2>1 DEF Job
<1>5. c \in Job /\ c = [stage |-> j.stage, step |-> step, then |-> j.then, exit |-> exit, mem |-> j.mem]
  <2> HIDE DEF a
  <2>1. c = [stage |-> j.stage, step |-> step, then |-> j.then, exit |-> exit, mem |-> j.mem]
    BY <1>1, <1>3, SetField
  <2> HIDE DEF c
  <2>2. QED
    BY <1>1, <2>1 DEF Job
<1>6. am \in Job /\ am = [stage |-> j.stage, step |-> step, then |-> j.then, exit |-> j.exit, mem |-> mem]
  <2> HIDE DEF a
  <2>1. am = [stage |-> j.stage, step |-> step, then |-> j.then, exit |-> j.exit, mem |-> mem]
    BY <1>1, <1>3, SetField
  <2> HIDE DEF am
  <2>2. QED
    BY <1>1, <2>1 DEF Job
<1>7. bm \in Job /\ bm = [stage |-> j.stage, step |-> step, then |-> then, exit |-> j.exit, mem |-> mem]
  <2> HIDE DEF b
  <2>1. bm = [stage |-> j.stage, step |-> step, then |-> then, exit |-> j.exit, mem |-> mem]
    BY <1>1, <1>4, SetField
  <2> HIDE DEF bm
  <2>2. QED
    BY <1>1, <2>1 DEF Job
<1>8. cm \in Job /\ cm = [stage |-> j.stage, step |-> step, then |-> j.then, exit |-> exit, mem |-> mem]
  <2> HIDE DEF c
  <2>1. cm = [stage |-> j.stage, step |-> step, then |-> j.then, exit |-> exit, mem |-> mem]
    BY <1>1, <1>5, SetField
  <2> HIDE DEF cm
  <2>2. QED
    BY <1>1, <2>1 DEF Job
<1> HIDE DEF a, b, c, am, bm, cm
<1>9. QED
  BY <1>1, <1>2, <1>3, <1>4, <1>6, <1>7, <1>8, JobGoes

SameFiles(t) == stale'[t] = stale[t] /\ todo'[t] = todo[t]
SameSim(t)   == /\ out'[t] = out[t] /\ sims'[t] = sims[t] /\ everPassed'[t] = everPassed[t]
                /\ t \in checked' <=> t \in checked
                /\ due'[t] = due[t] /\ (t \in orphaned' <=> t \in orphaned)
Makes(t, f)  == /\ stale'[t] = (stale[t] \ {f}) \cup Dependents(f)
                /\ todo'[t] = todo[t] \cup Dependents(f)

\* An export in three steps.
Exports(t) ==
  /\ SameSim(t)
  /\ \/ /\ job[t].step = "tear" /\ SameFiles(t) /\ trr'[t] = Torn
        /\ Goes(t, "dump", job[t].then, job[t].exit, job[t].mem)
     \/ /\ job[t].step = "dump" /\ SameFiles(t) /\ trr'[t] = job[t].mem
        /\ Goes(t, "yaml", job[t].then, job[t].exit, job[t].mem)
     \/ /\ job[t].step = "yaml" /\ Makes(t, "yaml") /\ trr'[t] = trr[t]
        /\ Goes(t, job[t].then, job[t].then, job[t].exit, job[t].mem)

\* A file of a test is written, and no other test is touched.
LEMMA WriteEffect ==
  ASSUME TestTypes, NEW t \in Tests, NEW f \in File, Write(t, f)
  PROVE  /\ stale' \in [Tests -> SUBSET File] /\ todo' \in [Tests -> SUBSET File]
         /\ stamp_stale' \in BOOLEAN /\ Makes(t, f)
         /\ \A u \in Tests \ {t} : stale'[u] = stale[u] /\ todo'[u] = todo[u]
<1>1. Dependents(f) \subseteq File
  BY DEF Dependents, File
<1>2. QED
  BY <1>1 DEF TestTypes, Write, File, Makes

LEMMA ExportEffect ==
  ASSUME TestTypes, NEW t \in Tests, Export(t), UNCHANGED <<failed, out, ghosts>>
  PROVE  Exports(t) /\ Others(t) /\ TestTypes'
<1>1. /\ job \in [Tests -> Job] /\ job[t] \in Job /\ job[t].then \in At
      /\ trr \in [Tests -> TestRun \cup {Torn}] /\ job[t].mem \in TestRun
  BY JobForm DEF TestTypes, At
<1>2. SameSim(t) /\ \A u \in Tests : /\ out'[u] = out[u] /\ sims'[u] = sims[u]
        /\ everPassed'[u] = everPassed[u] /\ (u \in checked' <=> u \in checked)
        /\ due'[u] = due[u] /\ (u \in orphaned' <=> u \in orphaned)
  BY DEF SameSim, ghosts
<1>3. CASE /\ job[t].step = "tear" /\ job' = [job EXCEPT ![t].step = "dump"]
           /\ trr' = [trr EXCEPT ![t] = Torn] /\ UNCHANGED <<stale, todo, stamp_stale>>
  <2>1. Goes(t, "dump", job[t].then, job[t].exit, job[t].mem)
    BY <1>1, <1>3, JobSteps DEF At
  <2>2. trr' \in [Tests -> TestRun \cup {Torn}] /\ trr'[t] = Torn
        /\ \A u \in Tests \ {t} : trr'[u] = trr[u]
    BY <1>1, <1>3
  <2>3. QED
    BY <1>2, <1>3, <2>1, <2>2 DEF Exports, Others, TestTypes, SameFiles, Goes, ghosts
<1>4. CASE /\ job[t].step = "dump" /\ job' = [job EXCEPT ![t].step = "yaml"]
           /\ trr' = [trr EXCEPT ![t] = job[t].mem] /\ UNCHANGED <<stale, todo, stamp_stale>>
  <2>1. Goes(t, "yaml", job[t].then, job[t].exit, job[t].mem)
    BY <1>1, <1>4, JobSteps DEF At
  <2>2. trr' \in [Tests -> TestRun \cup {Torn}] /\ trr'[t] = job[t].mem
        /\ \A u \in Tests \ {t} : trr'[u] = trr[u]
    BY <1>1, <1>4
  <2>3. QED
    BY <1>2, <1>4, <2>1, <2>2 DEF Exports, Others, TestTypes, SameFiles, Goes, ghosts
<1>5. CASE /\ job[t].step = "yaml" /\ job' = [job EXCEPT ![t].step = job[t].then]
           /\ Write(t, "yaml") /\ UNCHANGED trr
  <2>1. Goes(t, job[t].then, job[t].then, job[t].exit, job[t].mem)
    BY <1>1, <1>5, JobSteps
  <2>2. QED
    BY <1>2, <1>5, <2>1, WriteEffect DEF Exports, Others, TestTypes, Goes, ghosts, File
<1>6. QED
  BY <1>3, <1>4, <1>5 DEF Export

-----------------------------------------------------------------------------
(* A step of a script keeps the invariant. *)

LEMMA Lift ==
  ASSUME TypeOK, FlowInv, NEW t \in Tests, Others(t), UNCHANGED rest, make = "up",
         collect # "locked", TestTypes', OfTest(t)'
  PROVE  TypeOK' /\ FlowInv'
<1>1. TypeOK'
  BY DEF TypeOK, TestTypes, rest, Job, At, File
<1>2. ASSUME NEW u \in Tests \ {t} PROVE OfTest(u)'
  <2>1. /\ trr'[u] = trr[u] /\ job'[u] = job[u] /\ stale'[u] = stale[u] /\ todo'[u] = todo[u]
        /\ out'[u] = out[u] /\ sims'[u] = sims[u] /\ everPassed'[u] = everPassed[u]
        /\ (u \in checked' <=> u \in checked)
        /\ due'[u] = due[u] /\ (u \in orphaned' <=> u \in orphaned)
    BY DEF Others
  <2>2. OfTest(u)
    BY DEF FlowInv
  <2>3. Earned(u)'
    BY <2>1, <2>2 DEF OfTest, Earned, rest
  <2>4. Jobs(u)'
    BY <2>1, <2>2 DEF OfTest, Jobs, Running, rest
  <2>5. Stored(u)' /\ Assembled(u)' /\ (counts.crashes = 0 => Recorded(u)')
    BY <2>1, <2>2 DEF OfTest, Stored, Recorded, Assembled, Current, Running, rest
  <2>6. counts.crashes = 0 => FirstRun(u)'
    BY <2>1, <2>2 DEF OfTest, FirstRun, NoVerdict, Current, Simulated, Running, rest
  <2>7. Due(u)'
    BY <2>1, <2>2 DEF OfTest, Due, Simulated, rest
  <2>8. QED
    BY <2>3, <2>4, <2>5, <2>6, <2>7 DEF OfTest, rest
<1>3. QED
  <2>1. MakeInv'
    BY DEF FlowInv, MakeInv, rest
  <2>2. OfTest(t)' /\ \A u \in Tests \ {t} : OfTest(u)'
    BY <1>2
  <2>3. QED
    BY <1>1, <2>1, <2>2 DEF FlowInv

\* While a script runs.
LEMMA Working ==
  ASSUME TypeOK, FlowInv, NEW t \in Tests, Running(t)
  PROVE  /\ make = "up" /\ collect # "locked" /\ md # "none" /\ OfTest(t) /\ job[t] \in Job
         /\ TestTypes /\ job[t].stage # "none"
  BY TestTypesOK DEF FlowInv, MakeInv, OfTest, Jobs, Ended, TestTypes

LEMMA ExportKeeps ==
  ASSUME TypeOK, FlowInv, NEW t \in Tests, Running(t), Export(t),
         UNCHANGED <<rest, failed, out, ghosts>>
  PROVE  TypeOK' /\ FlowInv'
<1>1. /\ make = "up" /\ collect # "locked" /\ md # "none" /\ OfTest(t) /\ job[t] \in Job /\ TestTypes
  BY Working
<1>2. Exports(t) /\ Others(t) /\ TestTypes'
  BY <1>1, ExportEffect
<1>3. /\ job'[t].stage = job[t].stage /\ job'[t].then = job[t].then /\ job'[t].exit = job[t].exit
      /\ job'[t].mem = job[t].mem /\ job'[t].step \notin {"idle", "work"} /\ SameSim(t) /\ job[t].then \in {"run", "end"}
      /\ stale'[t] \in {stale[t], stale[t] \ {"yaml"}} /\ todo'[t] = todo[t]
  BY <1>1, <1>2 DEF Exports, Goes, SameFiles, Makes, Dependents, Job
<1>4. Earned(t)'
  BY <1>1, <1>2, <1>3 DEF OfTest, Earned, Exports, SameSim, rest
<1>5. Jobs(t)'
  BY <1>1, <1>3 DEF OfTest, Jobs, Running, SameSim, rest
<1>6. Stored(t)' /\ (counts.crashes = 0 => Recorded(t)')
  BY <1>1, <1>2, <1>3, TornIsNoRecord DEF OfTest, Stored, Recorded, Exports, Goes, Job, rest
<1>7. Assembled(t)'
  BY <1>1, <1>2, <1>3 DEF OfTest, Assembled, Exports, Goes, Current, Running, rest, SameSim, ghosts
<1>8. counts.crashes = 0 => FirstRun(t)'
  BY <1>1, <1>2, <1>3 DEF OfTest, FirstRun, NoVerdict, Exports, Goes, Current, Running, Simulated, SameSim, rest
<1>9. Due(t)'
  BY <1>1, <1>2, <1>3 DEF OfTest, Due, Exports, Goes, Simulated, SameSim, rest
<1>10. OfTest(t)'
  BY <1>4, <1>5, <1>6, <1>7, <1>8, <1>9 DEF OfTest, rest
<1>11. QED
  BY <1>1, <1>2, <1>10, Lift

LEMMA StartKeeps ==
  ASSUME TypeOK, FlowInv, NEW t \in Tests, Start(t)
  PROVE  TypeOK' /\ FlowInv'
<1>1. PICK s \in File :
        /\ TestReady(t, s)
        /\ IF md = "torn" \/ trr[t] = Torn
           THEN failed' = failed \cup {t} /\ UNCHANGED job
           ELSE /\ job' = [job EXCEPT ![t] = [Idle EXCEPT !.stage = s, !.step = "work",
                                                        !.mem = trr[t]]]
                /\ UNCHANGED failed
        /\ UNCHANGED <<rest, trr, stale, todo, stamp_stale, out, ghosts>>
  BY DEF Start, File
<1>2. /\ make = "up" /\ ~Running(t) /\ (s \in {"log", "yaml"} => ~tb_todo) /\ s \in todo[t]
      /\ \E i \in DOMAIN Stages(t) :
           Stages(t)[i] = s /\ \A j \in 1 .. i - 1 : Stages(t)[j] \notin todo[t]
  BY <1>1 DEF TestReady, MayStart
<1>3. /\ OfTest(t) /\ TestTypes /\ collect # "locked" /\ job[t] = Idle /\ md # "none"
      /\ job[t].stage = "none" /\ job[t].step = "idle"
  BY <1>2, TestTypesOK DEF FlowInv, MakeInv, OfTest, Jobs, Ended, Idle
<1>4. CASE md = "torn" \/ trr[t] = Torn
  <2>1. TestTypes' /\ Others(t)
    BY <1>1, <1>3, <1>4 DEF TestTypes, Others, ghosts
  <2>2. OfTest(t)'
    BY <1>1, <1>3, <1>4 DEF OfTest, Earned, Jobs, Stored, Recorded, Assembled, FirstRun, Due, NoVerdict,
       Current, Running, Simulated, ghosts, rest
  <2>3. QED
    BY <1>1, <1>2, <1>3, <2>1, <2>2, Lift
<1>5. CASE ~(md = "torn" \/ trr[t] = Torn)
  <2> DEFINE k == [Idle EXCEPT !.stage = s, !.step = "work", !.mem = trr[t]]
  <2>1. k = [stage |-> s, step |-> "work", then |-> "end", exit |-> 0, mem |-> trr[t]]
    <3> DEFINE a == [Idle EXCEPT !.stage = s]
               b == [a EXCEPT !.step = "work"]
    <3>1. a = [stage |-> s, step |-> "idle", then |-> "end", exit |-> 0, mem |-> NewTestRun]
      BY DEF Idle
    <3> HIDE DEF a
    <3>2. b = [stage |-> s, step |-> "work", then |-> "end", exit |-> 0, mem |-> NewTestRun]
      BY <3>1
    <3> HIDE DEF b
    <3>3. [b EXCEPT !.mem = trr[t]] =
            [stage |-> s, step |-> "work", then |-> "end", exit |-> 0, mem |-> trr[t]]
      BY <3>2
    <3>4. QED
      BY <3>3 DEF a, b
  <2>2. trr[t] \in TestRun
    BY <1>3, <1>5 DEF TestTypes
  <2>3. job' = [job EXCEPT ![t] = k]
    BY <1>1, <1>5
  <2> HIDE DEF k
  <2>4. k \in Job
    BY <2>1, <2>2 DEF Job, At, File
  <2>5. /\ job' \in [Tests -> Job] /\ job'[t] = k /\ \A u \in Tests \ {t} : job'[u] = job[u]
    BY <1>3, <2>3, <2>4 DEF TestTypes
  <2>6. TestTypes' /\ Others(t)
    BY <1>1, <1>3, <1>5, <2>5 DEF TestTypes, Others, ghosts
  <2>7. /\ job'[t].stage = s /\ job'[t].step = "work" /\ job'[t].exit = 0 /\ job'[t].mem = trr[t]
        /\ SameFiles(t) /\ SameSim(t) /\ trr'[t] = trr[t] /\ Current(t) = trr[t] /\ Current(t)' = trr[t]
    BY <1>1, <1>2, <1>5, <2>1, <2>5 DEF SameFiles, SameSim, Current, Running, ghosts
  <2>8. t \notin Directed => ("bin" = s => "asm" \notin todo[t])
    BY <1>2 DEF Stages
  <2>9. t \in Directed => s # "asm"
    BY <1>2 DEF Stages
  <2>10. /\ s = "yaml" => "log" \notin todo[t]
         /\ s = "log" => "bin" \notin todo[t] /\ (t \notin Directed => "asm" \notin todo[t])
    BY <1>2 DEF Stages
  <2>11. Earned(t)' /\ Jobs(t)'
    <3>1. Earned(t)'
      BY <1>1, <1>3, <1>5, <2>7 DEF OfTest, Earned, SameSim, rest
    <3>2. Jobs(t)'
      BY <1>1, <1>2, <1>3, <2>7, <2>9 DEF OfTest, Jobs, Running, SameFiles, SameSim, rest, File
    <3>3. QED
      BY <3>1, <3>2
  <2>12. Stored(t)' /\ Assembled(t)' /\ (counts.crashes = 0 => Recorded(t)')
    BY <1>1, <1>2, <1>3, <1>5, <2>7, <2>8 DEF OfTest, Stored, Recorded, Assembled, Current, Running, SameFiles, rest, SameSim, ghosts
  <2>13. counts.crashes = 0 => FirstRun(t)'
    BY <1>1, <1>2, <1>3, <2>7, <2>10 DEF OfTest, FirstRun, NoVerdict, Current, Running, Simulated,
       SameFiles, SameSim, rest
  <2>14. Due(t)'
    BY <1>1, <1>2, <1>3, <2>7, <2>10 DEF OfTest, Jobs, Due, Simulated, SameFiles, SameSim, rest
  <2>15. OfTest(t)'
    BY <1>1, <2>11, <2>12, <2>13, <2>14 DEF OfTest, rest
  <2>16. QED
    BY <1>1, <1>2, <1>3, <2>6, <2>15, Lift
<1>6. QED
  BY <1>4, <1>5

\* The script of a test ends without a change of its test.
LEMMA StopKeeps ==
  ASSUME TypeOK, FlowInv, NEW t \in Tests, Fails(t), job[t].stage = "log" => job[t].step = "work",
         job[t].stage = "asm" => job[t].step = "work" \/ job[t].exit # 0,
         job[t].step \in {"work", "run", "end"},
         UNCHANGED <<rest, trr, stale, todo, stamp_stale, out, ghosts>>
  PROVE  TypeOK' /\ FlowInv'
<1>1. /\ make = "up" /\ collect # "locked" /\ md # "none" /\ OfTest(t) /\ job[t] \in Job /\ TestTypes
  BY Working DEF Running
<1>2. job' = [job EXCEPT ![t] = Idle] /\ failed' = failed \cup {t}
  BY DEF Fails
<1>3. job' \in [Tests -> Job] /\ job'[t] = Idle /\ \A u \in Tests \ {t} : job'[u] = job[u]
  BY <1>1, <1>2, IdleType DEF TestTypes
<1>4. TestTypes' /\ Others(t)
  BY <1>1, <1>2, <1>3 DEF TestTypes, Others, ghosts
<1>5. /\ Idle.stage = "none" /\ Idle.step = "idle" /\ Idle.mem = NewTestRun /\ Idle.exit = 0
      /\ NewTestRun.passed = "unset"
  BY DEF Idle, NewTestRun
<1>6. Earned(t)' /\ Jobs(t)'
  BY <1>1, <1>3, <1>5 DEF OfTest, Earned, Jobs, Running, rest, ghosts
<1>7. trr[t] = job[t].mem /\ trr[t] # Torn /\ Current(t)' = Current(t)
  BY <1>1, <1>3, <1>5, TornIsNoRecord DEF OfTest, Stored, Current, Running, Job
<1>8. Stored(t)' /\ Assembled(t)' /\ (counts.crashes = 0 => Recorded(t)')
  BY <1>1, <1>3, <1>5, <1>7 DEF OfTest, Stored, Recorded, Assembled, rest, SameSim, ghosts
<1>9. counts.crashes = 0 => FirstRun(t)'
  BY <1>1, <1>3, <1>5, <1>7 DEF OfTest, FirstRun, NoVerdict, Simulated, rest, ghosts
<1>10. Due(t)'
  BY <1>1, <1>3, <1>5 DEF OfTest, Due, Simulated, rest, ghosts
<1>11. OfTest(t)'
  BY <1>1, <1>6, <1>8, <1>9, <1>10 DEF OfTest, rest
<1>12. QED
  BY <1>1, <1>4, <1>11, Lift

LEMMA EndKeeps ==
  ASSUME TypeOK, FlowInv, NEW t \in Tests, End(t)
  PROVE  TypeOK' /\ FlowInv'
<1>1. job[t].step = "end" /\ UNCHANGED <<rest, trr, stale, stamp_stale, out, ghosts>>
  BY DEF End
<1>2. /\ make = "up" /\ collect # "locked" /\ md # "none" /\ OfTest(t) /\ job[t] \in Job /\ TestTypes
      /\ job[t].stage # "none"
  BY <1>1, Working DEF Running
<1>3. CASE job[t].exit # 0
  <2>1. Fails(t) /\ UNCHANGED todo /\ job[t].stage # "log"
    BY <1>2, <1>3 DEF End, OfTest, Jobs
  <2>2. QED
    BY <1>1, <1>3, <2>1, StopKeeps
<1>4. CASE job[t].exit = 0
  <2> DEFINE d == (todo[t] \ {job[t].stage})
                    \cup (IF job[t].stage = "log" /\ ~out[t].exists THEN {"yaml"} ELSE {})
  <2>1. job' = [job EXCEPT ![t] = Idle] /\ failed' = failed /\ todo' = [todo EXCEPT ![t] = d]
    BY <1>4 DEF End
  <2>2. d \subseteq File
    BY <1>2 DEF TestTypes, File
  <2> HIDE DEF d
  <2>3. /\ job' \in [Tests -> Job] /\ job'[t] = Idle /\ \A u \in Tests \ {t} : job'[u] = job[u]
        /\ todo' \in [Tests -> SUBSET File] /\ todo'[t] = d /\ \A u \in Tests \ {t} : todo'[u] = todo[u]
    BY <1>2, <2>1, <2>2, IdleType DEF TestTypes
  <2>4. TestTypes' /\ Others(t)
    BY <1>1, <1>2, <2>1, <2>3 DEF TestTypes, Others, ghosts
  <2>5. /\ Idle.stage = "none" /\ Idle.step = "idle" /\ Idle.mem = NewTestRun /\ Idle.exit = 0
        /\ NewTestRun.passed = "unset"
    BY DEF Idle, NewTestRun
  <2>6. /\ d \subseteq todo[t] \cup {"yaml"} /\ todo[t] \subseteq d \cup {job[t].stage}
        /\ job[t].stage = "log" => "log" \notin d /\ (~out[t].exists => "yaml" \in d)
        /\ job[t].stage = "asm" => "asm" \notin d
    BY DEF d
  <2>7. Earned(t)' /\ Jobs(t)'
    BY <1>1, <1>2, <2>3, <2>5, <2>6 DEF OfTest, Earned, Jobs, Running, rest, ghosts
  <2>8. trr[t] = job[t].mem /\ trr[t] # Torn /\ Current(t)' = Current(t)
    BY <1>1, <1>2, <2>3, <2>5, TornIsNoRecord DEF OfTest, Stored, Current, Running, Job
  <2>9. Stored(t)' /\ Assembled(t)' /\ (counts.crashes = 0 => Recorded(t)')
    BY <1>1, <1>2, <1>4, <2>3, <2>5, <2>6, <2>8 DEF OfTest, Stored, Recorded, Assembled, rest, SameSim, ghosts
  <2>10. counts.crashes = 0 => FirstRun(t)'
    BY <1>1, <1>2, <2>3, <2>5, <2>6, <2>8 DEF OfTest, FirstRun, NoVerdict, Simulated, rest, ghosts
  <2>11. Due(t)'
    BY <1>1, <1>2, <2>3, <2>5, <2>6 DEF OfTest, Due, Simulated, rest, ghosts
  <2>12. OfTest(t)'
    BY <1>1, <2>7, <2>9, <2>10, <2>11 DEF OfTest, rest
  <2>13. QED
    BY <1>1, <1>2, <2>4, <2>12, Lift
<1>5. QED
  BY <1>2, <1>3, <1>4

LEMMA run_instr_gen_Keeps ==
  ASSUME TypeOK, FlowInv, NEW t \in Tests, run_instr_gen(t)
  PROVE  TypeOK' /\ FlowInv'
<1> DEFINE m == [job[t].mem EXCEPT !.assembly = TRUE]
<1>1. job[t].stage = "asm" /\ UNCHANGED <<rest, out, ghosts>>
  BY DEF run_instr_gen
<1>2. ASSUME Running(t)
      PROVE  /\ make = "up" /\ collect # "locked" /\ md # "none" /\ OfTest(t) /\ job[t] \in Job /\ TestTypes
             /\ job \in [Tests -> Job]
  BY <1>2, Working DEF TestTypes
<1>3. ASSUME job[t].step = "work"
      PROVE  /\ m \in TestRun /\ m.passed = job[t].mem.passed /\ m.assembly = TRUE
             /\ m.failure_mode = job[t].mem.failure_mode
  BY <1>2, <1>3 DEF Running, Job, TestRun
<1>4. CASE job[t].step = "work" /\ Fails(t) /\ UNCHANGED <<stale, todo, stamp_stale, trr>>
  BY <1>1, <1>4, StopKeeps
<1>5. ASSUME job[t].step = "work", UNCHANGED <<trr, failed>>, NEW e \in {0, 1},
             Goes(t, "tear", job[t].then, e, m), TestTypes',
             \A u \in Tests \ {t} : stale'[u] = stale[u] /\ todo'[u] = todo[u],
             (e = 1 /\ SameFiles(t)) \/ (e = job[t].exit /\ Makes(t, "asm"))
      PROVE  TypeOK' /\ FlowInv'
  <2>1. Running(t) /\ OfTest(t) /\ make = "up" /\ collect # "locked" /\ md # "none" /\ TestTypes
    BY <1>2, <1>5 DEF Running
  <2>2. Others(t)
    BY <1>1, <1>5 DEF Others, Goes, ghosts
  <2>3. /\ job'[t].stage = "asm" /\ job'[t].step = "tear" /\ job'[t].exit = e /\ job'[t].mem = m
        /\ m.passed = job[t].mem.passed /\ m.assembly = TRUE /\ m.failure_mode = job[t].mem.failure_mode
        /\ SameSim(t) /\ trr'[t] = trr[t] /\ Running(t)' /\ Current(t) = job[t].mem /\ Current(t)' = m
    BY <1>1, <1>3, <1>5, <2>1 DEF Goes, SameSim, Running, Current, ghosts
  <2>4. /\ (e = 0 /\ "asm" \notin stale'[t]) \/ (e = 1 /\ stale'[t] = stale[t])
        /\ stale[t] \ {"asm"} \subseteq stale'[t] /\ stale'[t] \subseteq stale[t] \cup {"bin"}
        /\ todo[t] \subseteq todo'[t] /\ todo'[t] \subseteq todo[t] \cup {"bin"}
    BY <1>5, <2>1 DEF SameFiles, Makes, Dependents, OfTest, Jobs
  <2>5. Earned(t)' /\ Jobs(t)'
    BY <1>1, <1>5, <2>1, <2>3, <2>4 DEF OfTest, Earned, Jobs, Running, SameSim, rest
  <2>6. Stored(t)' /\ Assembled(t)' /\ (counts.crashes = 0 => Recorded(t)')
    BY <1>1, <1>5, <2>1, <2>3, <2>4 DEF OfTest, Stored, Recorded, Assembled, rest, SameSim, ghosts
  <2>7. counts.crashes = 0 => FirstRun(t)'
    BY <1>1, <1>5, <2>1, <2>3, <2>4 DEF OfTest, FirstRun, NoVerdict, Simulated, SameSim, rest
  <2>8. Due(t)'
    BY <1>1, <1>5, <2>1, <2>3, <2>4 DEF OfTest, Due, Simulated, SameSim, rest
  <2>9. OfTest(t)'
    BY <1>1, <2>5, <2>6, <2>7, <2>8 DEF OfTest, rest
  <2>10. QED
    BY <1>1, <1>5, <2>1, <2>2, <2>9, Lift
<1>6. CASE /\ job[t].step = "work" /\ UNCHANGED <<failed, stale, todo, stamp_stale, trr>>
           /\ job' = [job EXCEPT ![t].step = "tear", ![t].exit = 1, ![t].mem.assembly = TRUE]
  <2>1. job' = [job EXCEPT ![t].step = "tear", ![t].exit = 1, ![t].mem = m]
    BY <1>2, <1>6 DEF Running
  <2> HIDE DEF m
  <2>2. Goes(t, "tear", job[t].then, 1, m)
    BY <1>2, <1>3, <1>6, <2>1, JobSteps DEF At, Running
  <2>3. TestTypes'
    BY <1>1, <1>2, <1>6, <2>2 DEF TestTypes, Goes, Running, ghosts
  <2>4. QED
    BY <1>5, <1>6, <2>2, <2>3 DEF SameFiles
<1>7. CASE /\ job[t].step = "work" /\ UNCHANGED <<failed, trr>> /\ Write(t, "asm")
           /\ job' = [job EXCEPT ![t].step = "tear", ![t].mem.assembly = TRUE]
  <2>1. job' = [job EXCEPT ![t].step = "tear", ![t].mem = m]
    BY <1>2, <1>7 DEF Running
  <2> HIDE DEF m
  <2>2. Goes(t, "tear", job[t].then, job[t].exit, m) /\ job[t].exit \in {0, 1}
    BY <1>2, <1>3, <1>7, <2>1, JobSteps, JobForm DEF At, Running
  <2>3. /\ Makes(t, "asm") /\ TestTypes'
        /\ \A u \in Tests \ {t} : stale'[u] = stale[u] /\ todo'[u] = todo[u]
    BY <1>1, <1>2, <1>7, <2>2, WriteEffect DEF TestTypes, Goes, Running, File, ghosts
  <2>4. QED
    BY <1>5, <1>7, <2>2, <2>3
<1>8. CASE Export(t) /\ UNCHANGED failed
  BY <1>1, <1>8, ExportKeeps DEF Export, Running
<1>9. QED
  BY <1>4, <1>6, <1>7, <1>8 DEF run_instr_gen

LEMMA compile_test_Keeps ==
  ASSUME TypeOK, FlowInv, NEW t \in Tests, compile_test(t)
  PROVE  TypeOK' /\ FlowInv'
<1> DEFINE a == job[t].mem.assembly \/ t \in Directed
           m == [job[t].mem EXCEPT !.assembly = a]
<1>1. job[t].stage = "bin" /\ UNCHANGED <<rest, out, ghosts>>
  BY DEF compile_test
<1>2. ASSUME Running(t)
      PROVE  /\ make = "up" /\ collect # "locked" /\ md # "none" /\ OfTest(t) /\ job[t] \in Job /\ TestTypes
             /\ job \in [Tests -> Job]
  BY <1>2, Working DEF TestTypes
<1>3. ASSUME job[t].step = "work"
      PROVE  /\ m \in TestRun /\ m.passed = job[t].mem.passed /\ m.assembly = a
             /\ m.failure_mode = job[t].mem.failure_mode
  <2>1. job[t].mem \in TestRun /\ a \in BOOLEAN
    BY <1>2, <1>3 DEF Running, Job, TestRun
  <2> HIDE DEF a
  <2>2. QED
    BY <2>1 DEF TestRun
<1>4. CASE job[t].step \in {"work", "run"} /\ Fails(t) /\ UNCHANGED <<stale, todo, stamp_stale, trr>>
  BY <1>1, <1>4, StopKeeps
<1>5. CASE /\ job[t].step = "work" /\ UNCHANGED <<failed, stale, todo, stamp_stale, trr>>
           /\ job' = [job EXCEPT ![t].step = "tear", ![t].then = "run",
                                 ![t].mem.assembly = @ \/ t \in Directed]
  <2>1. Running(t) /\ OfTest(t) /\ make = "up" /\ collect # "locked" /\ md # "none" /\ TestTypes
        /\ job \in [Tests -> Job]
    BY <1>2, <1>5 DEF Running
  <2>2. job' = [job EXCEPT ![t].step = "tear", ![t].then = "run", ![t].mem = m]
    BY <1>5, <2>1
  <2>3. /\ m \in TestRun /\ m.passed = job[t].mem.passed /\ m.assembly = a
        /\ m.failure_mode = job[t].mem.failure_mode
    BY <1>3, <1>5
  <2>3a. t \notin Directed => m.assembly = job[t].mem.assembly
    BY <2>1, <2>3, JobForm DEF TestRun
  <2> HIDE DEF m
  <2>4. Goes(t, "tear", "run", job[t].exit, m)
    BY <2>1, <2>2, <2>3, JobSteps DEF At
  <2>5. TestTypes' /\ Others(t)
    BY <1>1, <1>5, <2>1, <2>4 DEF TestTypes, Others, Goes, ghosts
  <2>6. /\ job'[t].stage = "bin" /\ job'[t].step = "tear" /\ job'[t].exit = job[t].exit
        /\ job'[t].mem = m /\ SameSim(t) /\ SameFiles(t) /\ trr'[t] = trr[t] /\ Running(t)'
        /\ Current(t) = job[t].mem /\ Current(t)' = m
    BY <1>1, <1>5, <2>1, <2>4 DEF Goes, SameSim, SameFiles, Running, Current, ghosts
  <2>7. Earned(t)' /\ Jobs(t)'
    BY <1>1, <2>1, <2>3, <2>6 DEF OfTest, Earned, Jobs, Running, SameFiles, SameSim, rest
  <2>8. Stored(t)' /\ Assembled(t)' /\ (counts.crashes = 0 => Recorded(t)')
    <3>1. job[t].mem # Torn /\ trr[t] = job[t].mem
      BY <1>5, <2>1, TornIsNoRecord DEF OfTest, Stored, TestTypes, Job
    <3>2. Stored(t)' /\ (counts.crashes = 0 => Recorded(t)')
      BY <1>1, <1>5, <2>1, <2>3a, <2>6, <3>1 DEF OfTest, Stored, Recorded, rest
    <3>3. m.assembly \/ t \in orphaned
      BY <1>1, <2>1, <2>3, <2>6, <3>1 DEF OfTest, Assembled
    <3>4. Assembled(t)'
      BY <1>1, <1>5, <2>1, <2>6, <3>3 DEF OfTest, Assembled, SameFiles, SameSim, rest
    <3>5. QED
      BY <3>2, <3>4
  <2>9. counts.crashes = 0 => FirstRun(t)'
    BY <1>1, <2>1, <2>3, <2>6 DEF OfTest, FirstRun, NoVerdict, Simulated, SameFiles, SameSim, rest
  <2>10. Due(t)'
    BY <1>1, <2>1, <2>6 DEF OfTest, Due, Simulated, SameFiles, SameSim, rest
  <2>11. OfTest(t)'
    BY <1>1, <2>7, <2>8, <2>9, <2>10 DEF OfTest, rest
  <2>12. QED
    BY <1>1, <2>1, <2>5, <2>11, Lift
<1>6. CASE /\ job[t].step = "run" /\ UNCHANGED <<failed, trr>> /\ Write(t, "bin")
           /\ job' = [job EXCEPT ![t].step = "end"]
  <2>1. Running(t) /\ OfTest(t) /\ make = "up" /\ collect # "locked" /\ md # "none" /\ TestTypes
        /\ job \in [Tests -> Job]
    BY <1>2, <1>6 DEF Running
  <2>2. Goes(t, "end", job[t].then, job[t].exit, job[t].mem)
    BY <1>6, <2>1, JobSteps, JobForm DEF At
  <2>3. /\ Makes(t, "bin") /\ stale' \in [Tests -> SUBSET File] /\ todo' \in [Tests -> SUBSET File]
        /\ stamp_stale' \in BOOLEAN
        /\ \A u \in Tests \ {t} : stale'[u] = stale[u] /\ todo'[u] = todo[u]
    BY <1>6, <2>1, WriteEffect DEF File
  <2>4. TestTypes' /\ Others(t)
    BY <1>1, <1>6, <2>1, <2>2, <2>3 DEF TestTypes, Others, Goes, ghosts
  <2>5. /\ job'[t].stage = "bin" /\ job'[t].step = "end" /\ job'[t].exit = job[t].exit
        /\ job'[t].mem = job[t].mem /\ SameSim(t) /\ trr'[t] = trr[t] /\ Running(t)'
        /\ Current(t)' = Current(t)
        /\ stale'[t] = (stale[t] \ {"bin"}) \cup {"log"} /\ todo'[t] = todo[t] \cup {"log"}
    BY <1>1, <1>6, <2>1, <2>2, <2>3 DEF Goes, SameSim, Makes, Dependents, Running, Current, ghosts
  <2>6. Earned(t)' /\ Jobs(t)'
    BY <1>1, <2>1, <2>5 DEF OfTest, Earned, Jobs, Running, SameSim, rest
  <2>7. Stored(t)' /\ Assembled(t)' /\ (counts.crashes = 0 => Recorded(t)')
    BY <1>1, <1>6, <2>1, <2>5 DEF OfTest, Stored, Recorded, Assembled, rest, SameSim, ghosts
  <2>8. counts.crashes = 0 => FirstRun(t)'
    BY <1>1, <2>1, <2>5 DEF OfTest, FirstRun, NoVerdict, Simulated, SameSim, rest
  <2>9. Due(t)'
    BY <1>1, <2>1, <2>5 DEF OfTest, Due, Simulated, SameSim, rest
  <2>10. OfTest(t)'
    BY <1>1, <2>6, <2>7, <2>8, <2>9 DEF OfTest, rest
  <2>11. QED
    BY <1>1, <2>1, <2>4, <2>10, Lift
<1>7. CASE Export(t) /\ UNCHANGED failed
  BY <1>1, <1>7, ExportKeeps DEF Export, Running
<1>8. QED
  BY <1>4, <1>5, <1>6, <1>7 DEF compile_test

LEMMA check_logs_Keeps ==
  ASSUME TypeOK, FlowInv, NEW t \in Tests, check_logs(t)
  PROVE  TypeOK' /\ FlowInv'
<1> DEFINE m == compare_test_run(job[t].mem, out[t])
<1>1. job[t].stage = "yaml" /\ UNCHANGED <<rest, out>>
  BY DEF check_logs
<1>2. CASE /\ job[t].step = "work" /\ Fails(t)
           /\ UNCHANGED <<stale, todo, stamp_stale, trr, ghosts>>
  BY <1>1, <1>2, StopKeeps
<1>3. CASE /\ job[t].step = "work" /\ checked' = checked \cup {t}
           /\ job' = [job EXCEPT ![t].step = "tear",
                                 ![t].mem = compare_test_run(@, out[t])]
           /\ due' = [due EXCEPT ![t] = @ \ {"check"}]
           /\ UNCHANGED <<failed, sims, everPassed, orphaned, trr, stale, todo, stamp_stale>>
  <2>1. Running(t) /\ OfTest(t) /\ make = "up" /\ collect # "locked" /\ md # "none" /\ TestTypes
        /\ job \in [Tests -> Job] /\ job[t].mem \in TestRun /\ out[t] \in Outcome
    BY <1>3, Working DEF Running, TestTypes, Job
  <2>2. job' = [job EXCEPT ![t].step = "tear", ![t].mem = m]
    BY <1>3, <2>1
  <2>3. /\ m \in TestRun /\ m.assembly = job[t].mem.assembly
        /\ job[t].mem.failure_mode = "TIMEOUT" => m.passed = "false" /\ m.failure_mode = "TIMEOUT"
        /\ job[t].mem.failure_mode # "TIMEOUT" /\ PassedFiles(out[t]) =>
             m.passed = "true" /\ m.failure_mode = job[t].mem.failure_mode
        /\ job[t].mem.failure_mode # "TIMEOUT" /\ ~PassedFiles(out[t]) =>
             m.passed \in {"false", job[t].mem.passed}
    BY <2>1, RecordChanges
  <2> HIDE DEF m
  <2>4. Goes(t, "tear", job[t].then, job[t].exit, m)
    BY <2>1, <2>2, <2>3, JobSteps DEF At
  <2>4a. /\ due' \in [Tests -> SUBSET {"sim", "check"}] /\ due'[t] = due[t] \ {"check"}
         /\ \A u \in Tests \ {t} : due'[u] = due[u]
    BY <1>3, <2>1 DEF TestTypes
  <2>5. TestTypes' /\ Others(t)
    BY <1>1, <1>3, <2>1, <2>4, <2>4a DEF TestTypes, Others, Goes
  <2>6. /\ job'[t].stage = "yaml" /\ job'[t].step = "tear" /\ job'[t].exit = job[t].exit
        /\ job'[t].mem = m /\ SameFiles(t) /\ trr'[t] = trr[t] /\ Running(t)'
        /\ Current(t) = job[t].mem /\ Current(t)' = m /\ t \in checked'
        /\ out'[t] = out[t] /\ sims'[t] = sims[t] /\ everPassed'[t] = everPassed[t]
        /\ orphaned' = orphaned
    BY <1>1, <1>3, <2>1, <2>4 DEF Goes, SameFiles, Running, Current
  <2>7. Earned(t)' /\ Jobs(t)'
    BY <1>1, <2>1, <2>3, <2>6 DEF OfTest, Earned, Jobs, Running, SameFiles, rest
  <2>8. Stored(t)' /\ Assembled(t)' /\ (counts.crashes = 0 => Recorded(t)')
    BY <1>1, <1>3, <2>1, <2>3, <2>6, TornIsNoRecord DEF OfTest, Stored, Recorded, Assembled, SameFiles, rest
  <2>9. counts.crashes = 0 => FirstRun(t)'
    BY <1>1, <2>1, <2>3, <2>6 DEF OfTest, FirstRun, NoVerdict, Simulated, SameFiles, Good, rest
  <2>10. Due(t)'
    BY <1>1, <1>3, <2>1, <2>4a, <2>6 DEF OfTest, Due, Simulated, SameFiles, rest
  <2>11. OfTest(t)'
    BY <1>1, <2>7, <2>8, <2>9, <2>10 DEF OfTest, rest
  <2>12. QED
    BY <1>1, <2>1, <2>5, <2>11, Lift
<1>4. CASE Export(t) /\ UNCHANGED <<failed, ghosts>>
  BY <1>1, <1>4, ExportKeeps DEF Export, Running
<1>5. QED
  BY <1>2, <1>3, <1>4 DEF check_logs, ghosts

\* The log and the trace of a pass, by the fields they are read from.
LEMMA PassedByFiles ==
  /\ \A o, p : o.log = p.log /\ o.trace = p.trace => (PassedFiles(o) <=> PassedFiles(p))
  /\ ~PassedFiles(NoOutcome) /\ ~PassedFiles(Partial)
  /\ \A o : o.log = <<"plain">> => ~PassedFiles(o)
<1>1. \A o, p : o.log = p.log /\ o.trace = p.trace => (PassedFiles(o) <=> PassedFiles(p))
  BY DEF PassedFiles
<1>2. ~PassedFiles(NoOutcome)
  BY DEF PassedFiles, NoOutcome
<1>3. ~PassedFiles(Partial)
  BY DEF PassedFiles, PassedLog, Partial
<1>4. \A o : o.log = <<"plain">> => ~PassedFiles(o)
  BY DEF PassedFiles, PassedLog
<1>5. QED
  BY <1>1, <1>2, <1>3, <1>4

LEMMA PartialType == Partial \in Outcome
<1>1. <<"plain">> \in Seq(Line) /\ <<"instr">> \in Seq({"instr", "other", "ecall"})
  BY DEF Line, ErrorLine
<1>2. QED
  BY <1>1 DEF Partial, Outcome

LEMMA run_rtl_Keeps ==
  ASSUME TypeOK, FlowInv, NEW t \in Tests, run_rtl(t)
  PROVE  TypeOK' /\ FlowInv'
<1>1. job[t].stage = "log" /\ UNCHANGED rest
  BY DEF run_rtl
<1>2. ASSUME Running(t)
      PROVE  /\ make = "up" /\ collect # "locked" /\ md # "none" /\ OfTest(t) /\ TestTypes
             /\ job \in [Tests -> Job] /\ job[t].mem \in TestRun /\ out[t] \in Outcome
             /\ out \in [Tests -> Outcome]
  BY <1>2, Working DEF TestTypes, Job
<1>3. CASE /\ job[t].step = "work" /\ UNCHANGED <<failed, trr, stale, todo, stamp_stale, out, ghosts>>
           /\ job' = [job EXCEPT ![t].step = "tear", ![t].then = "run"]
  <2>1. Running(t)
    BY <1>3 DEF Running
  <2>2. Goes(t, "tear", "run", job[t].exit, job[t].mem)
    BY <1>2, <1>3, <2>1, JobSteps, JobForm DEF At
  <2>3. TestTypes' /\ Others(t)
    BY <1>1, <1>2, <1>3, <2>1, <2>2 DEF TestTypes, Others, Goes, ghosts
  <2>4. /\ job'[t].stage = "log" /\ job'[t].step = "tear" /\ job'[t].then = "run"
        /\ job'[t].exit = job[t].exit /\ job'[t].mem = job[t].mem /\ SameFiles(t) /\ SameSim(t)
        /\ trr'[t] = trr[t] /\ Running(t)' /\ Current(t)' = Current(t)
    BY <1>1, <1>3, <2>1, <2>2 DEF Goes, SameSim, SameFiles, Running, Current, ghosts
  <2>5. Earned(t)' /\ Jobs(t)'
    BY <1>1, <1>2, <2>1, <2>4 DEF OfTest, Earned, Jobs, Running, SameFiles, SameSim, rest
  <2>6. Stored(t)' /\ Assembled(t)' /\ (counts.crashes = 0 => Recorded(t)')
    BY <1>1, <1>2, <1>3, <2>1, <2>4 DEF OfTest, Stored, Recorded, Assembled, SameFiles, rest, SameSim, ghosts
  <2>7. counts.crashes = 0 => FirstRun(t)'
    BY <1>1, <1>2, <2>1, <2>4 DEF OfTest, FirstRun, NoVerdict, Simulated, SameFiles, SameSim, rest
  <2>8. Due(t)'
    BY <1>1, <1>2, <1>3, <2>1, <2>4 DEF OfTest, Due, Simulated, SameFiles, SameSim, rest
  <2>9. OfTest(t)'
    BY <1>1, <2>5, <2>6, <2>7, <2>8 DEF OfTest, rest
  <2>10. QED
    BY <1>1, <1>2, <2>1, <2>3, <2>9, Lift
<1>4. CASE /\ job[t].step = "run" /\ Write(t, "log") /\ out' = [out EXCEPT ![t] = Partial]
           /\ job' = [job EXCEPT ![t].step = "sim"]
           /\ sims' = [sims EXCEPT ![t] = IF @ = 2 THEN 2 ELSE @ + 1]
           /\ checked' = checked \ {t} /\ due' = [due EXCEPT ![t] = {"check"}]
           /\ UNCHANGED <<failed, everPassed, orphaned, trr>>
  <2>1. Running(t)
    BY <1>4 DEF Running
  <2>2. Goes(t, "sim", job[t].then, job[t].exit, job[t].mem)
    BY <1>2, <1>4, <2>1, JobSteps, JobForm DEF At
  <2>3. /\ Makes(t, "log") /\ stale' \in [Tests -> SUBSET File] /\ todo' \in [Tests -> SUBSET File]
        /\ stamp_stale' \in BOOLEAN
        /\ \A u \in Tests \ {t} : stale'[u] = stale[u] /\ todo'[u] = todo[u]
    BY <1>2, <1>4, <2>1, WriteEffect DEF File
  <2>4. /\ sims' \in [Tests -> 0 .. 2] /\ sims'[t] = (IF sims[t] = 2 THEN 2 ELSE sims[t] + 1)
        /\ sims[t] \in 0 .. 2 /\ \A u \in Tests \ {t} : sims'[u] = sims[u]
    BY <1>2, <1>4, <2>1 DEF TestTypes
  <2>5. out' \in [Tests -> Outcome] /\ out'[t] = Partial /\ \A u \in Tests \ {t} : out'[u] = out[u]
    BY <1>2, <1>4, <2>1, PartialType
  <2>5a. /\ due' \in [Tests -> SUBSET {"sim", "check"}] /\ due'[t] = {"check"}
         /\ \A u \in Tests \ {t} : due'[u] = due[u]
    BY <1>2, <1>4, <2>1 DEF TestTypes
  <2>6. TestTypes' /\ Others(t)
    BY <1>1, <1>2, <1>4, <2>1, <2>2, <2>3, <2>4, <2>5, <2>5a DEF TestTypes, Others, Goes
  <2>7. /\ job'[t].stage = "log" /\ job'[t].step = "sim" /\ job'[t].exit = job[t].exit
        /\ job'[t].mem = job[t].mem /\ trr'[t] = trr[t] /\ Running(t)' /\ Current(t)' = Current(t)
        /\ stale'[t] = (stale[t] \ {"log"}) \cup {"yaml"} /\ todo'[t] = todo[t] \cup {"yaml"}
        /\ t \notin checked' /\ Partial.started /\ ~Partial.killed /\ everPassed'[t] = everPassed[t]
    BY <1>1, <1>4, <2>1, <2>2, <2>3 DEF Goes, Makes, Dependents, Running, Current, Partial
  <2>8. Earned(t)' /\ Jobs(t)'
    BY <1>1, <1>2, <2>1, <2>5, <2>7, PassedByFiles DEF OfTest, Earned, Jobs, Running, rest
  <2>9. Stored(t)' /\ Assembled(t)' /\ (counts.crashes = 0 => Recorded(t)')
    BY <1>1, <1>2, <1>4, <2>1, <2>7 DEF OfTest, Stored, Recorded, Assembled, rest
  <2>10. counts.crashes = 0 => FirstRun(t)'
    <3> SUFFICES ASSUME counts.crashes = 0 PROVE FirstRun(t)'
      OBVIOUS
    <3>1. sims'[t] = 1 => sims[t] = 0
      BY <2>4
    <3>2. sims[t] = 0 => NoVerdict(t)' /\ (Current(t)').failure_mode = "unset"
      BY <1>2, <2>1, <2>7 DEF OfTest, FirstRun, NoVerdict
    <3>3. sims'[t] # 0
      BY <2>4
    <3>4. QED
      BY <2>5, <2>7, <3>1, <3>2, <3>3 DEF FirstRun
  <2>11. Due(t)'
    BY <1>1, <1>2, <1>4, <2>1, <2>5a, <2>7 DEF OfTest, Due, Simulated, rest
  <2>12. OfTest(t)'
    BY <1>1, <2>8, <2>9, <2>10, <2>11 DEF OfTest, rest
  <2>13. QED
    BY <1>1, <1>2, <2>1, <2>6, <2>12, Lift
<1>5. ASSUME NEW o \in Outcomes[t], ~o.started, job[t].step = "run",
             out' = [out EXCEPT ![t] = Absent(@, o)],
             job' = [job EXCEPT ![t].step = "tear", ![t].then = "end",
                                ![t].mem = after_run_rtl(@, o)],
             sims' = [sims EXCEPT ![t] = IF @ = 2 THEN 2 ELSE @ + 1],
             due' = [due EXCEPT ![t] = (@ \ {"sim"}) \cup (IF out[t].exists THEN {} ELSE {"check"})],
             checked' = checked \ {t},
             UNCHANGED <<failed, stale, todo, stamp_stale, everPassed, orphaned, trr>>
      PROVE  TypeOK' /\ FlowInv'
  <2> DEFINE m == after_run_rtl(job[t].mem, o)
             p == Absent(out[t], o)
             d == (due[t] \ {"sim"}) \cup (IF out[t].exists THEN {} ELSE {"check"})
  <2>1. Running(t) /\ o \in Outcome
    BY <1>5, RegressionAssumption DEF Running
  <2>2. /\ m \in TestRun /\ m.passed = job[t].mem.passed /\ m.assembly = job[t].mem.assembly
        /\ m.failure_mode = IF o.killed THEN "TIMEOUT" ELSE job[t].mem.failure_mode
    BY <1>2, <2>1, RecordChanges
  <2>3. /\ p \in Outcome /\ p.started = FALSE /\ p.killed = o.killed /\ p.exists = out[t].exists
        /\ p.trace = out[t].trace /\ p.log = IF Vcs THEN <<"plain">> ELSE out[t].log
    <3> DEFINE l == IF Vcs THEN <<"plain">> ELSE out[t].log
    <3>1. out[t] \in Outcome /\ o.killed \in BOOLEAN /\ l \in Seq(Line)
      BY <1>2, <2>1, PartialType DEF Outcome, Partial
    <3> DEFINE q == [out[t] EXCEPT !.started = FALSE]
               u == [q EXCEPT !.killed = o.killed]
    <3>2. p = [u EXCEPT !.log = l]
      BY <3>1, Zenon DEF Outcome, Absent
    <3> HIDE DEF p, l
    <3>2a. /\ q \in Outcome /\ q.started = FALSE /\ q.killed = out[t].killed
          /\ q.exists = out[t].exists /\ q.trace = out[t].trace /\ q.log = out[t].log
      BY <3>1 DEF Outcome
    <3> HIDE DEF q
    <3>2b. /\ u \in Outcome /\ u.started = FALSE /\ u.killed = o.killed
          /\ u.exists = out[t].exists /\ u.trace = out[t].trace /\ u.log = out[t].log
      BY <3>1, <3>2a DEF Outcome
    <3> HIDE DEF u
    <3>3. /\ p \in Outcome /\ p.started = FALSE /\ p.killed = o.killed
          /\ p.exists = out[t].exists /\ p.trace = out[t].trace /\ p.log = l
      BY <3>1, <3>2, <3>2b DEF Outcome
    <3>4. QED
      BY <3>3 DEF l
  <2>4. /\ job' = [job EXCEPT ![t].step = "tear", ![t].then = "end", ![t].mem = m]
        /\ out' = [out EXCEPT ![t] = p] /\ due' = [due EXCEPT ![t] = d]
    BY <1>2, <1>5, <2>1
  <2>4a. d \subseteq {"sim", "check"} /\ "sim" \notin d /\ ("check" \in d => "check" \in due[t] \/ ~out[t].exists)
    BY <1>2, <2>1 DEF TestTypes
  <2> HIDE DEF m, p, d
  <2>5. Goes(t, "tear", "end", job[t].exit, m)
    BY <1>2, <2>1, <2>2, <2>4, JobSteps, JobForm DEF At
  <2>6. /\ sims' \in [Tests -> 0 .. 2] /\ sims'[t] = (IF sims[t] = 2 THEN 2 ELSE sims[t] + 1)
        /\ sims[t] \in 0 .. 2 /\ \A u \in Tests \ {t} : sims'[u] = sims[u]
    BY <1>2, <1>5, <2>1 DEF TestTypes
  <2>6a. /\ due' \in [Tests -> SUBSET {"sim", "check"}] /\ due'[t] = d
         /\ \A u \in Tests \ {t} : due'[u] = due[u]
    BY <1>2, <2>1, <2>4, <2>4a DEF TestTypes
  <2>7. out' \in [Tests -> Outcome] /\ out'[t] = p /\ \A u \in Tests \ {t} : out'[u] = out[u]
    BY <1>2, <2>1, <2>3, <2>4
  <2>8. TestTypes' /\ Others(t)
    BY <1>1, <1>2, <1>5, <2>1, <2>5, <2>6, <2>6a, <2>7 DEF TestTypes, Others, Goes
  <2>9. /\ job'[t].stage = "log" /\ job'[t].step = "tear" /\ job'[t].then = "end"
        /\ job'[t].exit = job[t].exit /\ job'[t].mem = m /\ trr'[t] = trr[t] /\ Running(t)'
        /\ Current(t) = job[t].mem /\ Current(t)' = m /\ SameFiles(t) /\ t \notin checked'
        /\ everPassed'[t] = everPassed[t] /\ orphaned' = orphaned /\ (PassedFiles(p) => PassedFiles(out[t]))
    BY <1>1, <1>5, <2>1, <2>3, <2>5, PassedByFiles DEF Goes, SameFiles, Running, Current
  <2>10. Earned(t)' /\ Jobs(t)'
    BY <1>1, <1>2, <2>1, <2>2, <2>7, <2>9 DEF OfTest, Earned, Jobs, Running, SameFiles, rest
  <2>11. Stored(t)' /\ Assembled(t)' /\ (counts.crashes = 0 => Recorded(t)')
    BY <1>1, <1>2, <1>5, <2>1, <2>2, <2>9, TornIsNoRecord DEF OfTest, Stored, Recorded, Assembled, SameFiles, rest
  <2>12. counts.crashes = 0 => FirstRun(t)'
    <3> SUFFICES ASSUME counts.crashes = 0 PROVE FirstRun(t)'
      OBVIOUS
    <3>1. sims'[t] # 0 /\ (sims'[t] = 1 => sims[t] = 0)
      BY <2>6
    <3>2. sims[t] = 0 => /\ m.passed = "unset" /\ ~PassedFiles(p)
                         /\ m.failure_mode = IF p.killed THEN "TIMEOUT" ELSE "unset"
      BY <1>2, <2>1, <2>2, <2>3, <2>9, PassedByFiles DEF OfTest, FirstRun, NoVerdict
    <3>3. QED
      BY <2>7, <2>9, <3>1, <3>2 DEF FirstRun, NoVerdict
  <2>13. Due(t)'
    BY <1>1, <1>2, <1>5, <2>1, <2>3, <2>4a, <2>6a, <2>7, <2>9 DEF OfTest, Due, Simulated, SameFiles, rest
  <2>14. OfTest(t)'
    BY <1>1, <2>10, <2>11, <2>12, <2>13 DEF OfTest, rest
  <2>15. QED
    BY <1>1, <1>2, <2>1, <2>8, <2>14, Lift
<1>6. ASSUME NEW o \in Outcomes[t], o.started, job[t].step = "sim",
             Write(t, "log"), out' = [out EXCEPT ![t] = o],
             job' = [job EXCEPT ![t].step = "tear", ![t].then = "end",
                                ![t].mem = after_run_rtl(@, o)],
             everPassed' = [everPassed EXCEPT ![t] = @ \/ PassedFiles(o)],
             UNCHANGED <<failed, sims, checked, due, orphaned, trr>>
      PROVE  TypeOK' /\ FlowInv'
  <2> DEFINE m == after_run_rtl(job[t].mem, o)
  <2>1. Running(t) /\ o \in Outcome
    BY <1>6, RegressionAssumption DEF Running
  <2>2. /\ m \in TestRun /\ m.passed = job[t].mem.passed /\ m.assembly = job[t].mem.assembly
        /\ m.failure_mode = IF o.killed THEN "TIMEOUT" ELSE job[t].mem.failure_mode
    BY <1>2, <2>1, RecordChanges
  <2>3. job' = [job EXCEPT ![t].step = "tear", ![t].then = "end", ![t].mem = m]
    BY <1>2, <1>6, <2>1
  <2> HIDE DEF m
  <2>4. Goes(t, "tear", "end", job[t].exit, m)
    BY <1>2, <2>1, <2>2, <2>3, JobSteps, JobForm DEF At
  <2>5. /\ Makes(t, "log") /\ stale' \in [Tests -> SUBSET File] /\ todo' \in [Tests -> SUBSET File]
        /\ stamp_stale' \in BOOLEAN
        /\ \A u \in Tests \ {t} : stale'[u] = stale[u] /\ todo'[u] = todo[u]
    BY <1>2, <1>6, <2>1, WriteEffect DEF File
  <2>6. /\ everPassed' \in [Tests -> BOOLEAN] /\ everPassed'[t] = (everPassed[t] \/ PassedFiles(o))
        /\ \A u \in Tests \ {t} : everPassed'[u] = everPassed[u]
    <3> DEFINE b == everPassed[t] \/ PassedFiles(o)
    <3>1. b \in BOOLEAN /\ everPassed' = [everPassed EXCEPT ![t] = b]
      BY <1>6
    <3> HIDE DEF b
    <3>2. everPassed' \in [Tests -> BOOLEAN] /\ everPassed'[t] = b
          /\ \A u \in Tests \ {t} : everPassed'[u] = everPassed[u]
      BY <1>2, <2>1, <3>1 DEF TestTypes
    <3>3. QED
      BY <3>2 DEF b
  <2>7. out' \in [Tests -> Outcome] /\ out'[t] = o /\ \A u \in Tests \ {t} : out'[u] = out[u]
    BY <1>2, <1>6, <2>1
  <2>8. TestTypes' /\ Others(t)
    BY <1>1, <1>2, <1>6, <2>1, <2>4, <2>5, <2>6, <2>7 DEF TestTypes, Others, Goes
  <2>9. /\ job'[t].stage = "log" /\ job'[t].step = "tear" /\ job'[t].then = "end"
        /\ job'[t].exit = job[t].exit /\ job'[t].mem = m /\ trr'[t] = trr[t] /\ Running(t)'
        /\ Current(t) = job[t].mem /\ Current(t)' = m /\ sims'[t] = sims[t]
        /\ t \in checked' <=> t \in checked
        /\ due'[t] = due[t] /\ o.exists /\ orphaned' = orphaned
        /\ stale'[t] = (stale[t] \ {"log"}) \cup {"yaml"} /\ todo'[t] = todo[t] \cup {"yaml"}
    BY <1>1, <1>6, <2>1, <2>4, <2>5, RegressionAssumption DEF Goes, Makes, Dependents, Running, Current
  <2>10. Earned(t)' /\ Jobs(t)'
    <3>1. Earned(t)'
      BY <1>1, <1>2, <2>1, <2>2, <2>6, <2>7, <2>9 DEF OfTest, Earned, rest
    <3>2. Jobs(t)'
      BY <1>1, <1>2, <2>1, <2>9 DEF OfTest, Jobs, Running, rest
    <3>3. QED
      BY <3>1, <3>2
  <2>11. Stored(t)' /\ Assembled(t)' /\ (counts.crashes = 0 => Recorded(t)')
    BY <1>1, <1>2, <1>6, <2>1, <2>2, <2>9, TornIsNoRecord DEF OfTest, Stored, Recorded, Assembled, rest
  <2>12. counts.crashes = 0 => FirstRun(t)'
    BY <1>1, <1>2, <1>6, <2>1, <2>2, <2>7, <2>9 DEF OfTest, FirstRun, NoVerdict, Simulated, Partial, rest
  <2>13. Due(t)'
    BY <1>1, <1>2, <1>6, <2>1, <2>7, <2>9 DEF OfTest, Due, Simulated, rest
  <2>14. OfTest(t)'
    BY <1>1, <2>10, <2>11, <2>12, <2>13 DEF OfTest, rest
  <2>15. QED
    BY <1>1, <1>2, <2>1, <2>8, <2>14, Lift
<1>7. CASE Export(t) /\ UNCHANGED <<failed, out, ghosts>>
  BY <1>1, <1>7, ExportKeeps DEF Export, Running
<1>8. CASE job[t].step = "work" /\ Fails(t) /\ UNCHANGED <<trr, stale, todo, stamp_stale, out, ghosts>>
  BY <1>1, <1>8, StopKeeps
<1>9. QED
  BY <1>1, <1>3, <1>4, <1>5, <1>6, <1>7, <1>8 DEF run_rtl, simulate

-----------------------------------------------------------------------------
(* The steps of make and of the scripts for all tests. *)

\* A script that is idle.
LEMMA IdleFields == /\ Idle.stage = "none" /\ Idle.step = "idle" /\ Idle.mem = NewTestRun /\ Idle.exit = 0
                    /\ NewTestRun.passed = "unset" /\ NewTestRun.failure_mode = "unset"
  BY DEF Idle, NewTestRun

LEMMA FlowInit == Init => FlowInv
<1> SUFFICES ASSUME Init PROVE FlowInv
  OBVIOUS
<1>1. MakeInv
  BY DEF Init, MakeInv
<1>2. ASSUME NEW t \in Tests PROVE OfTest(t)
  <2>1. /\ trr[t] = NewTestRun /\ job[t] = Idle /\ todo[t] = {} /\ out[t] = NoOutcome /\ sims[t] = 0
        /\ t \notin checked /\ stale[t] = {Stages(t)[i] : i \in DOMAIN Stages(t)}
    BY DEF Init
  <2>2. /\ "log" \in stale[t] /\ (t \notin Directed => "asm" \in stale[t])
        /\ (t \in Directed => "asm" \notin stale[t])
    BY <2>1 DEF Stages
  <2>3. ~Running(t) /\ Current(t) = NewTestRun /\ NewTestRun # Torn
    BY <2>1, IdleFields, TornIsNoRecord, NewRecordType DEF Running, Current
  <2>4. Earned(t) /\ Jobs(t)
    BY <2>1, <2>2, <2>3, IdleFields, PassedByFiles DEF Earned, Jobs, Init
  <2>5. Recorded(t) /\ Stored(t) /\ Assembled(t) /\ FirstRun(t) /\ Due(t)
    BY <2>1, <2>2, <2>3, IdleFields DEF Recorded, Stored, Assembled, FirstRun, Due, NoVerdict, Simulated, Init
  <2>6. make # "up"
    BY DEF Init
  <2>7. QED
    BY <2>4, <2>5, <2>6 DEF OfTest
<1>3. QED
  BY <1>1, <1>2 DEF FlowInv

LEMMA CreateRecordKeeps ==
  ASSUME TypeOK, FlowInv, NEW t \in Tests, CreateRecord(t)
  PROVE  TypeOK' /\ FlowInv'
<1>1. /\ make = "create" /\ trr' = [trr EXCEPT ![t] = NewTestRun] /\ created' = created \cup {t}
      /\ stale' = [stale EXCEPT ![t] = @ \ {"yaml"}]
      /\ UNCHANGED <<make, keep_going, failed, tb_todo, todo, md, job, tb_stale, tb, stamp_stale,
                     collect, out, report, counts, sims, everPassed, checked, due, orphaned>>
  BY DEF CreateRecord, ghosts
<1>2. /\ trr' \in [Tests -> TestRun \cup {Torn}] /\ trr'[t] = NewTestRun
      /\ \A u \in Tests \ {t} : trr'[u] = trr[u]
      /\ stale' \in [Tests -> SUBSET File] /\ stale'[t] = stale[t] \ {"yaml"}
      /\ \A u \in Tests \ {t} : stale'[u] = stale[u]
  BY <1>1, NewRecordType, TestTypesOK DEF TestTypes
<1>3. TypeOK'
  BY <1>1, <1>2 DEF TypeOK, File
<1>4. MakeInv'
  BY <1>1 DEF FlowInv, MakeInv, Ended, Running
<1>5. ASSUME NEW u \in Tests PROVE OfTest(u)'
  <2>1. OfTest(u) /\ job[u] = Idle /\ sims[u] = 0 /\ (u \notin Directed => "asm" \in stale[u])
        /\ ~Running(u)
    BY <1>1 DEF FlowInv, OfTest, Jobs
  <2>2. stale'[u] \in {stale[u], stale[u] \ {"yaml"}} /\ trr'[u] \in {trr[u], NewTestRun}
        /\ job'[u] = job[u] /\ todo'[u] = todo[u] /\ ~Running(u)' /\ NewTestRun # Torn
    BY <1>1, <1>2, <2>1, TornIsNoRecord, NewRecordType DEF Running
  <2>3. Current(u)' = trr'[u] /\ Current(u) = trr[u]
    BY <2>1, <2>2 DEF Current
  <2>4. Earned(u)' /\ Jobs(u)'
    BY <1>1, <2>1, <2>2, IdleFields DEF OfTest, Earned, Jobs
  <2>5. Stored(u)' /\ Assembled(u)' /\ Due(u)' /\ (counts.crashes = 0 => Recorded(u)')
    BY <1>1, <2>1, <2>2, <2>3, IdleFields DEF OfTest, Stored, Recorded, Assembled, Due, Simulated
  <2>6. counts.crashes = 0 => FirstRun(u)'
    BY <1>1, <2>1, <2>2, <2>3, IdleFields DEF OfTest, FirstRun, NoVerdict, Simulated
  <2>7. QED
    BY <1>1, <2>4, <2>5, <2>6 DEF OfTest
<1>6. QED
  BY <1>3, <1>4, <1>5 DEF FlowInv

\* make plans, or ends.  When no script runs, the tests keep their invariant.
LEMMA PlanKeeps ==
  ASSUME TypeOK, FlowInv, NEW t \in Tests, ~Running(t), job'[t] = job[t],
         UNCHANGED <<trr, stale, out, report, sims, everPassed, checked>>, counts'.crashes = counts.crashes,
         make' = "up" => todo'[t] = stale[t], make' # "up" => todo'[t] \in {todo[t], {}},
         make' \in {"create", "commit", "up", "down"},
         md' = "none" => md = "none", make' \in {"create", "commit"} => md = "none" \/ make = "create",
         due'[t] = due[t] \/ due'[t] = due[t] \ {"check"}, orphaned' = orphaned,
         make' \in {"create", "commit", "up"} => "check" \notin due'[t]
  PROVE  OfTest(t)'
<1>1. OfTest(t) /\ job[t] = Idle
  BY DEF FlowInv, OfTest, Jobs
<1>2. ~Running(t)' /\ Current(t)' = Current(t) /\ Current(t) = trr[t]
  BY DEF Running, Current
<1>3. Earned(t)'
  BY <1>1 DEF OfTest, Earned
<1>4. Jobs(t)'
  BY <1>1, <1>2, IdleFields DEF OfTest, Jobs
<1>5. Stored(t)' /\ Assembled(t)' /\ (counts.crashes = 0 => Recorded(t)')
  BY <1>1, <1>2, IdleFields DEF OfTest, Stored, Recorded, Assembled
<1>6. counts.crashes = 0 => FirstRun(t)'
  BY <1>1, <1>2, IdleFields DEF OfTest, FirstRun, NoVerdict, Simulated
<1>7. Due(t)'
  BY <1>1, <1>2, IdleFields DEF OfTest, Due, Simulated
<1>8. QED
  BY <1>3, <1>4, <1>5, <1>6, <1>7 DEF OfTest

LEMMA CreateMetadataKeeps == TypeOK /\ FlowInv /\ CreateMetadata => TypeOK' /\ FlowInv'
<1> SUFFICES ASSUME TypeOK, FlowInv, CreateMetadata PROVE TypeOK' /\ FlowInv'
  OBVIOUS
<1>1. /\ make \in {"create", "commit"}
      /\ UNCHANGED <<keep_going, failed, created, trr, job, stale, tb_stale, tb, stamp_stale,
                     collect, out, report, counts, sims, everPassed, checked, due, orphaned>>
      /\ \/ make = "create" /\ make' = "commit" /\ md' = "torn" /\ UNCHANGED <<todo, tb_todo>>
         \/ make = "commit" /\ make' = "up" /\ md' = "whole" /\ todo' = stale /\ tb_todo' = tb_stale
  BY DEF CreateMetadata, Plan, ghosts
<1>2. TypeOK'
  BY <1>1 DEF TypeOK
<1>3. tb = "idle" /\ collect = "idle"
  BY <1>1 DEF FlowInv, MakeInv
<1>4. MakeInv'
  BY <1>1, <1>3 DEF FlowInv, MakeInv
<1>5. ASSUME NEW t \in Tests PROVE OfTest(t)'
  <2>1. ~Running(t) /\ "check" \notin due[t]
    BY <1>1 DEF FlowInv, OfTest, Jobs, Due
  <2>2. QED
    BY <1>1, <1>3, <2>1, PlanKeeps
<1>6. QED
  BY <1>2, <1>4, <1>5 DEF FlowInv

LEMMA BeginSessionKeeps == TypeOK /\ FlowInv /\ BeginSession => TypeOK' /\ FlowInv'
<1> SUFFICES ASSUME TypeOK, FlowInv, BeginSession PROVE TypeOK' /\ FlowInv'
  OBVIOUS
<1>1. /\ make = "down" /\ keep_going' \in BOOLEAN /\ created' = {} /\ orphaned' = orphaned
      /\ due' = [t \in Tests |-> due[t] \ {"check"}]
      /\ failed' \in {{"metadata"}, {}}
      /\ UNCHANGED <<md, trr, job, stale, tb_stale, tb, stamp_stale, collect, out, report,
                     sims, everPassed, checked>>
      /\ \/ md = "none" /\ make' = "create" /\ UNCHANGED <<todo, tb_todo>>
         \/ md # "none" /\ make' = "up" /\ todo' = stale /\ tb_todo' = tb_stale
  BY DEF BeginSession, Plan, ghosts
<1>2. /\ counts' \in [sessions : Nat, crashes : Nat, edits : Nat]
      /\ counts'.crashes = counts.crashes
  BY DEF FlowInv, BeginSession, MakeInv
<1>3. TypeOK'
  BY <1>1 DEF TypeOK
<1>4. tb = "idle" /\ collect = "idle"
  BY <1>1, <1>2 DEF FlowInv, MakeInv
<1>5. MakeInv'
  BY <1>1, <1>2, <1>4 DEF FlowInv, MakeInv
<1>6. ASSUME NEW t \in Tests PROVE OfTest(t)'
  <2>1. ~Running(t)
    BY <1>1 DEF FlowInv, OfTest, Jobs
  <2>2. QED
    BY <1>1, <1>2, <1>4, <2>1, PlanKeeps
<1>7. QED
  BY <1>3, <1>5, <1>6 DEF FlowInv

LEMMA EndSessionKeeps == TypeOK /\ FlowInv /\ EndSession => TypeOK' /\ FlowInv'
<1> SUFFICES ASSUME TypeOK, FlowInv, EndSession PROVE TypeOK' /\ FlowInv'
  OBVIOUS
<1>1. /\ make = "up" /\ \A t \in Tests : ~Running(t)
      /\ tb = "idle" /\ collect = "idle"
      /\ make' = "down" /\ failed' = {} /\ tb_todo' = FALSE /\ todo' = [t \in Tests |-> {}]
      /\ UNCHANGED <<keep_going, created, md, trr, job, stale, tb_stale, tb, stamp_stale, collect,
                     out, report, counts, sims, everPassed, checked, due, orphaned>>
  BY DEF EndSession, ghosts
<1>2. TypeOK'
  BY <1>1 DEF TypeOK
<1>3. MakeInv'
  BY <1>1 DEF FlowInv, MakeInv
<1>4. \A t \in Tests : OfTest(t)'
  BY <1>1, PlanKeeps
<1>5. QED
  BY <1>2, <1>3, <1>4 DEF FlowInv

LEMMA CrashKeeps == TypeOK /\ FlowInv /\ Crash => TypeOK' /\ FlowInv'
<1> SUFFICES ASSUME TypeOK, FlowInv, Crash PROVE TypeOK' /\ FlowInv'
  OBVIOUS
<1>1. /\ make # "down" /\ make' = "down" /\ failed' = {} /\ tb_todo' = FALSE
      /\ todo' = [t \in Tests |-> {}] /\ job' = [t \in Tests |-> Idle] /\ tb' = "idle" /\ collect' = "idle"
      /\ UNCHANGED <<keep_going, created, md, trr, stale, tb_stale, stamp_stale, out, report,
                     sims, everPassed, checked, due>>
  BY DEF Crash, ghosts
<1>2. /\ counts' \in [sessions : Nat, crashes : Nat, edits : Nat]
      /\ counts'.crashes # 0
      /\ orphaned' = orphaned \cup
           {t \in Tests : job[t].stage = "asm" /\ job[t].step = "tear" /\ job[t].exit = 0}
  BY DEF FlowInv, Crash, MakeInv
<1>3. TypeOK'
  <2>1. job' \in [Tests -> Job]
    BY <1>1, IdleType
  <2>2. orphaned' \subseteq Tests
    BY <1>2 DEF TypeOK
  <2>3. QED
    BY <1>1, <2>1, <2>2 DEF TypeOK, Job, At
<1>4. MakeInv'
  BY <1>1, <1>2 DEF FlowInv, MakeInv
<1>5. ASSUME NEW t \in Tests PROVE OfTest(t)'
  <2>1. OfTest(t) /\ job'[t] = Idle /\ todo'[t] = {} /\ ~Running(t)'
    BY <1>1, IdleFields DEF FlowInv, Running
  <2>2. Earned(t)' /\ Jobs(t)'
    BY <1>1, <2>1, IdleFields DEF OfTest, Earned, Jobs
  <2>3. Stored(t)' /\ Due(t)'
    BY <1>1, <2>1, IdleFields DEF OfTest, Stored, Due, Simulated
  <2>4. Assembled(t)'
    <3>1. /\ Current(t)' = trr[t] /\ (t \in orphaned => t \in orphaned')
          /\ job[t].stage = "asm" /\ job[t].step = "tear" /\ job[t].exit = 0 => t \in orphaned'
      BY <1>1, <1>2, <2>1 DEF Current
    <3>2. job[t].step \in At /\ job[t].exit \in {0, 1} /\ job[t].mem \in TestRun
      BY DEF TypeOK, At
    <3>2a. job[t].mem # Torn
      BY <3>2, TornIsNoRecord
    <3>3. t \notin Directed /\ t \notin orphaned' /\ "asm" \notin stale[t] => trr[t] = Torn \/ trr[t].assembly
      BY <1>1, <2>1, <3>1, <3>2, <3>2a, TornIsNoRecord DEF OfTest, Stored, Assembled, Current, Running, At
    <3>4. QED
      BY <1>1, <2>1, <3>1, <3>3, IdleFields DEF Assembled
  <2>5. QED
    BY <1>1, <1>2, <2>2, <2>3, <2>4 DEF OfTest
<1>6. QED
  BY <1>3, <1>4, <1>5 DEF FlowInv

\* The tests where nothing of them changes.
LEMMA SameTest ==
  ASSUME NEW t \in Tests, OfTest(t), UNCHANGED <<make, trr, job, stale, todo, out, report, sims, everPassed, checked, due, orphaned>>,
         counts'.crashes = counts.crashes,
         md' = "none" => md = "none", tb_todo' => tb_todo
  PROVE  OfTest(t)'
<1>1. Earned(t)' /\ Jobs(t)'
  BY DEF OfTest, Earned, Jobs, Running
<1>2. Stored(t)' /\ Assembled(t)' /\ (counts.crashes = 0 => Recorded(t)' /\ FirstRun(t)')
  BY DEF OfTest, Stored, Recorded, Assembled, FirstRun, NoVerdict, Current, Running, Simulated
<1>3. Due(t)'
  BY DEF OfTest, Due, Simulated
<1>4. QED
  BY <1>1, <1>2, <1>3 DEF OfTest

LEMMA EditRtlKeeps == TypeOK /\ FlowInv /\ EditRtl => TypeOK' /\ FlowInv'
<1> SUFFICES ASSUME TypeOK, FlowInv, EditRtl PROVE TypeOK' /\ FlowInv'
  OBVIOUS
<1>1. /\ UNCHANGED <<make, keep_going, failed, created, tb_todo, todo, md, trr, job, stale, tb,
                     stamp_stale, collect, out, report, sims, everPassed, checked, due, orphaned>>
      /\ tb_stale' = TRUE
  BY DEF EditRtl, makeVars, ghosts
<1>2. /\ counts' \in [sessions : Nat, crashes : Nat, edits : Nat]
      /\ counts'.crashes = counts.crashes
  BY DEF FlowInv, EditRtl, MakeInv
<1>3. TypeOK'
  BY <1>1 DEF TypeOK
<1>4. MakeInv'
  BY <1>1, <1>2 DEF FlowInv, MakeInv, Ended, Running, EditRtl
<1>5. \A t \in Tests : OfTest(t)'
  BY <1>1, <1>2, SameTest DEF FlowInv
<1>6. QED
  BY <1>3, <1>4, <1>5 DEF FlowInv

LEMMA StutterKeeps == TypeOK /\ FlowInv /\ UNCHANGED vars => TypeOK' /\ FlowInv'
<1> SUFFICES ASSUME TypeOK, FlowInv, UNCHANGED vars PROVE TypeOK' /\ FlowInv'
  OBVIOUS
<1>1. UNCHANGED <<make, keep_going, failed, created, tb_todo, todo, md, trr, job, stale, tb_stale, tb,
                  stamp_stale, collect, out, report, counts, sims, everPassed, checked, due, orphaned>>
  BY DEF vars, makeVars, ghosts
<1>2. TypeOK'
  BY <1>1 DEF TypeOK
<1>3. MakeInv'
  BY <1>1 DEF FlowInv, MakeInv, Ended, Running
<1>4. \A t \in Tests : OfTest(t)'
  BY <1>1, SameTest DEF FlowInv
<1>5. QED
  BY <1>2, <1>3, <1>4 DEF FlowInv

LEMMA compile_tb_Keeps == TypeOK /\ FlowInv /\ compile_tb => TypeOK' /\ FlowInv'
<1> SUFFICES ASSUME TypeOK, FlowInv, compile_tb PROVE TypeOK' /\ FlowInv'
  OBVIOUS
<1>1. UNCHANGED <<make, keep_going, created, trr, job, stamp_stale, collect, out, report, counts,
                  sims, everPassed, checked, orphaned>>
  BY DEF compile_tb, tb_rest, ghosts
<1>2. ASSUME make = "up", UNCHANGED <<due, stale, todo, tb_stale, tb_todo>>,
             failed' \in {failed, failed \cup {"tb"}}, md' \in {md, "torn", "whole"},
             tb' = "idle" \/ (tb' \in {"locked", "export", "build"} /\ tb_todo)
      PROVE  TypeOK' /\ FlowInv'
  <2>1. TypeOK'
    BY <1>1, <1>2 DEF TypeOK
  <2>2. MakeInv'
    <3>1. \A t \in Tests : Ended(t)' <=> Ended(t)
      BY <1>1, <1>2 DEF Ended, Running
    <3>2. QED
      BY <1>1, <1>2, <3>1 DEF FlowInv, MakeInv
  <2>3. \A t \in Tests : OfTest(t)'
    BY <1>1, <1>2, SameTest DEF FlowInv
  <2>4. QED
    BY <2>1, <2>2, <2>3 DEF FlowInv
<1>3. CASE TbReady /\ UNCHANGED <<md, due, stale, todo, tb_stale, tb_todo>>
           /\ IF md = "torn" THEN failed' = failed \cup {"tb"} /\ UNCHANGED tb
              ELSE tb' = "locked" /\ UNCHANGED failed
  BY <1>2, <1>3 DEF TbReady, MayStart
<1>4. CASE tb \in {"locked", "export"} /\ tb' \in {"export", "build"} /\ md' \in {"torn", "whole"}
           /\ UNCHANGED <<failed, due, stale, todo, tb_stale, tb_todo>>
  BY <1>2, <1>4 DEF FlowInv, MakeInv
<1>5. CASE tb = "build" /\ tb' = "idle" /\ UNCHANGED md
           /\ failed' = failed \cup {"tb"} /\ UNCHANGED <<due, stale, todo, tb_stale, tb_todo>>
  BY <1>2, <1>5 DEF FlowInv, MakeInv
<1>6. CASE tb = "build" /\ tb' = "idle" /\ UNCHANGED md
           /\ tb_stale' = FALSE /\ tb_todo' = FALSE
           /\ stale' = [t \in Tests |-> stale[t] \cup {"log"}]
           /\ todo' = [t \in Tests |-> todo[t] \cup {"log"}]
           /\ due' = [t \in Tests |-> due[t] \cup {"sim"}]
           /\ UNCHANGED failed
  <2>1. tb_todo /\ make = "up" /\ md # "none" /\ \A t \in Tests : collect # "locked"
    BY <1>6 DEF FlowInv, MakeInv, Ended
  <2>2. stale' \in [Tests -> SUBSET File] /\ todo' \in [Tests -> SUBSET File]
        /\ due' \in [Tests -> SUBSET {"sim", "check"}]
    BY <1>6, TestTypesOK DEF TestTypes, File
  <2>3. TypeOK'
    BY <1>1, <1>6, <2>2 DEF TypeOK, File
  <2>4. MakeInv'
    BY <1>1, <1>6, <2>1 DEF FlowInv, MakeInv
  <2>5. ASSUME NEW t \in Tests PROVE OfTest(t)'
    <3>1. /\ OfTest(t) /\ stale'[t] = stale[t] \cup {"log"} /\ todo'[t] = todo[t] \cup {"log"}
          /\ due'[t] = due[t] \cup {"sim"}
      BY <1>6 DEF FlowInv
    <3>2. Earned(t)' /\ Jobs(t)'
      BY <1>1, <1>6, <2>1, <3>1 DEF OfTest, Earned, Jobs, Running
    <3>3. Stored(t)' /\ Assembled(t)' /\ (counts.crashes = 0 => Recorded(t)' /\ FirstRun(t)')
      BY <1>1, <2>1, <3>1 DEF OfTest, Stored, Recorded, Assembled, FirstRun, NoVerdict, Current, Running, Simulated
    <3>4. Due(t)'
      BY <1>1, <1>6, <2>1, <3>1 DEF OfTest, Due, Simulated
    <3>5. QED
      BY <1>1, <3>2, <3>3, <3>4 DEF OfTest
  <2>6. QED
    BY <2>3, <2>4, <2>5 DEF FlowInv
<1>7. QED
  BY <1>3, <1>4, <1>5, <1>6 DEF compile_tb

LEMMA collect_results_Keeps == TypeOK /\ FlowInv /\ collect_results => TypeOK' /\ FlowInv'
<1> SUFFICES ASSUME TypeOK, FlowInv, collect_results PROVE TypeOK' /\ FlowInv'
  OBVIOUS
<1>1. UNCHANGED <<make, keep_going, created, tb_todo, todo, trr, job, stale, tb_stale, tb, out,
                  counts, sims, everPassed, checked, due, orphaned>>
  BY DEF collect_results, ghosts
<1>2. ASSUME make = "up", failed' \in {failed, failed \cup {"collect"}}, md' \in {md, "torn", "whole"},
             stamp_stale' \in {stamp_stale, FALSE},
             collect' \in {"idle", "locked", "passed", "broken"},
             collect' = "locked" => \A t \in Tests : Ended(t),
             report' = <<>> \/ report' \in [Tests -> {"PASS", "FAILED", "FAILED {T}"}],
             \A t \in Tests : everPassed[t] \/ report' = report \/ report'[t] # "PASS"
      PROVE  TypeOK' /\ FlowInv'
  <2>1. TypeOK'
    BY <1>1, <1>2 DEF TypeOK
  <2>2. MakeInv'
    <3>1. \A t \in Tests : Ended(t)' <=> Ended(t)
      BY <1>1, <1>2 DEF Ended, Running
    <3>2. QED
      BY <1>1, <1>2, <3>1 DEF FlowInv, MakeInv
  <2>3. ASSUME NEW t \in Tests PROVE OfTest(t)'
    <3>1. OfTest(t)
      BY DEF FlowInv
    <3>2. Earned(t)'
      BY <1>1, <1>2, <3>1 DEF OfTest, Earned
    <3>3. Jobs(t)'
      BY <1>1, <1>2, <3>1 DEF OfTest, Jobs, Running
    <3>4. Stored(t)' /\ Assembled(t)' /\ (counts.crashes = 0 => Recorded(t)' /\ FirstRun(t)')
      BY <1>1, <3>1 DEF OfTest, Stored, Recorded, Assembled, FirstRun, NoVerdict, Current, Running, Simulated
    <3>5. Due(t)'
      BY <1>1, <3>1 DEF OfTest, Due, Simulated
    <3>6. QED
      BY <1>1, <3>2, <3>3, <3>4, <3>5 DEF OfTest
  <2>4. QED
    BY <2>1, <2>2, <2>3 DEF FlowInv
<1>3. CASE /\ CollectReady /\ UNCHANGED <<md, report, stamp_stale>>
           /\ IF md = "torn" THEN failed' = failed \cup {"collect"} /\ UNCHANGED collect
              ELSE collect' = "locked" /\ UNCHANGED failed
  BY <1>2, <1>3 DEF CollectReady, TypeOK
<1>4. CASE /\ collect = "locked" /\ \E t \in Tests : trr[t] = Torn /\ collect' = "broken"
           /\ UNCHANGED report /\ md' = "torn" /\ UNCHANGED <<failed, stamp_stale>>
  BY <1>2, <1>4 DEF TypeOK, FlowInv, MakeInv
<1>5. CASE /\ collect = "locked" /\ \A t \in Tests : trr[t] # Torn
           /\ report' = [t \in Tests |-> verdict(trr[t])]
           /\ collect' = IF \A t \in Tests : trr[t].passed = "true" THEN "passed" ELSE "broken"
           /\ md' = "torn" /\ UNCHANGED <<failed, stamp_stale>>
  <2>1. \A t \in Tests : verdict(trr[t]) \in {"PASS", "FAILED", "FAILED {T}"}
    BY DEF verdict
  <2>2. report' \in [Tests -> {"PASS", "FAILED", "FAILED {T}"}]
        /\ \A t \in Tests : report'[t] = verdict(trr[t])
    BY <1>5, <2>1
  <2>3. \A t \in Tests : everPassed[t] \/ report'[t] # "PASS"
    BY <1>5, <2>2 DEF FlowInv, OfTest, Earned, verdict
  <2>4. QED
    BY <1>2, <1>5, <2>2, <2>3 DEF FlowInv, MakeInv
<1>6. CASE /\ collect \in {"passed", "broken"} /\ collect' = "idle" /\ md' = "whole"
           /\ IF collect = "passed" THEN stamp_stale' = FALSE /\ UNCHANGED failed
              ELSE failed' = failed \cup {"collect"} /\ UNCHANGED stamp_stale
           /\ UNCHANGED report
  BY <1>2, <1>6 DEF TypeOK, FlowInv, MakeInv
<1>7. QED
  BY <1>3, <1>4, <1>5, <1>6 DEF collect_results

-----------------------------------------------------------------------------
(* The theorems. *)

\* Every step of make and of the scripts keeps the types and the invariant.
LEMMA StepKeeps == TypeOK /\ FlowInv /\ [Next]_vars => TypeOK' /\ FlowInv'
<1> SUFFICES ASSUME TypeOK, FlowInv, [Next]_vars PROVE TypeOK' /\ FlowInv'
  OBVIOUS
<1>1. CASE CreateMetadata
  BY <1>1, CreateMetadataKeeps
<1>2. CASE compile_tb
  BY <1>2, compile_tb_Keeps
<1>3. CASE collect_results
  BY <1>3, collect_results_Keeps
<1>4. ASSUME NEW t \in Tests, CreateRecord(t) PROVE TypeOK' /\ FlowInv'
  BY <1>4, CreateRecordKeeps
<1>5. ASSUME NEW t \in Tests, Start(t) PROVE TypeOK' /\ FlowInv'
  BY <1>5, StartKeeps
<1>6. ASSUME NEW t \in Tests, End(t) PROVE TypeOK' /\ FlowInv'
  BY <1>6, EndKeeps
<1>7. ASSUME NEW t \in Tests, run_instr_gen(t) PROVE TypeOK' /\ FlowInv'
  BY <1>7, run_instr_gen_Keeps
<1>8. ASSUME NEW t \in Tests, compile_test(t) PROVE TypeOK' /\ FlowInv'
  BY <1>8, compile_test_Keeps
<1>9. ASSUME NEW t \in Tests, run_rtl(t) PROVE TypeOK' /\ FlowInv'
  BY <1>9, run_rtl_Keeps
<1>10. ASSUME NEW t \in Tests, check_logs(t) PROVE TypeOK' /\ FlowInv'
  BY <1>10, check_logs_Keeps
<1>11. CASE EndSession
  BY <1>11, EndSessionKeeps
<1>12. CASE BeginSession
  BY <1>12, BeginSessionKeeps
<1>13. CASE Crash
  BY <1>13, CrashKeeps
<1>14. CASE EditRtl
  BY <1>14, EditRtlKeeps
<1>15. CASE UNCHANGED vars
  BY <1>15, StutterKeeps
<1>16. QED
  BY <1>1, <1>2, <1>3, <1>4, <1>5, <1>6, <1>7, <1>8, <1>9, <1>10, <1>11, <1>12, <1>13, <1>14,
     <1>15 DEF Next, Step

LEMMA Inductive == Spec => [](TypeOK /\ FlowInv)
<1>1. Init => TypeOK /\ FlowInv
  BY TypeInit, FlowInit
<1>2. QED
  BY <1>1, StepKeeps, PTL DEF Spec

\* For any tests, any outcomes of their simulations, any number of sessions, crashes
\* and edits: types, and the script that compiles a test finds the assembly in its
\* record, unless a crash has hit its generator between the copy and the export.
\* (run_instr_gen.py, compile_test.py)
THEOREM RegressionSound == Spec => []RegressionInv
<1>1. TypeOK /\ FlowInv => RegressionInv
  BY DEF FlowInv, OfTest, Assembled, RegressionInv, CompileKnowsSource
<1>2. QED
  BY <1>1, Inductive, PTL

\* However make is stopped and started again, a pass is earned. (check_logs.py,
\* run_rtl.py, collect_results.py)
THEOREM PassIsEarned == Spec => []PassEarned
<1>1. TypeOK /\ FlowInv => PassEarned
  BY DEF FlowInv, OfTest, Earned, PassEarned
<1>2. QED
  BY <1>1, Inductive, PTL

\* Short of a crash the first verdict of every test is the right one.
THEOREM FirstVerdictRight == Spec => []FirstVerdictExact
<1>1. TypeOK /\ FlowInv => FirstVerdictExact
  BY DEF FlowInv, OfTest, FirstRun, Current, FirstVerdictExact, verdict
<1>2. QED
  BY <1>1, Inductive, PTL

\* However make was stopped and started again, and the core changed, a report is of
\* tests that were simulated with the testbench of now, and whose logs of this make
\* were checked. (ibex_sim.mk, collect_results.py)
THEOREM ReportsAreLate == Spec => ReportsAfterChecks
<1>1. TypeOK /\ FlowInv /\ [Next]_vars =>
        [report' # report => ~tb_stale /\ \A t \in Tests : due[t] = {}]_vars
  <2> SUFFICES ASSUME TypeOK, FlowInv, Next, report' # report
               PROVE  ~tb_stale /\ \A t \in Tests : due[t] = {}
    BY DEF vars
  <2>1. collect = "locked"
    BY DEF Next, Step, CreateMetadata, compile_tb, tb_rest, collect_results, CreateRecord, Start, End,
       run_instr_gen, compile_test, run_rtl, check_logs, rest, EndSession, BeginSession, Crash, EditRtl
  <2>2. make = "up" /\ \A t \in Tests : Ended(t)
    BY <2>1 DEF FlowInv, MakeInv
  <2>3. ASSUME NEW t \in Tests PROVE due[t] = {} /\ ~tb_todo
    <3>1. todo[t] = {} /\ ~tb_todo /\ ~Simulated(t)
      BY <2>2 DEF Ended, Running, Simulated
    <3>2. "sim" \notin due[t] /\ "check" \notin due[t]
      BY <2>2, <3>1 DEF FlowInv, OfTest, Due
    <3>3. due[t] \subseteq {"sim", "check"}
      BY DEF TypeOK
    <3>4. QED
      BY <3>1, <3>2, <3>3
  <2>4. Tests # {}
    <3>1. SUFFICES ASSUME Tests = {} PROVE report' = report
      OBVIOUS
    <3>2. TypeOK'
      BY StepKeeps
    <3>3. \A r : r \in [Tests -> {"PASS", "FAILED", "FAILED {T}"}] => r = <<>>
      BY <3>1
    <3>4. QED
      BY <3>2, <3>3 DEF TypeOK
  <2>4a. ~tb_stale
    BY <2>2, <2>3, <2>4 DEF FlowInv, MakeInv
  <2>5. QED
    BY <2>3, <2>4a
<1>2. QED
  BY <1>1, Inductive, PTL DEF Spec, ReportsAfterChecks
=============================================================================
