# Verification of the Ibex core and of its regression

TLA+ models of the control logic of the Ibex RISC-V core (`src/rtl`) and of the
programs that build, run and judge its regressions (`src/dv/uvm/core_ibex/scripts`,
its makefiles, `src/util`), the TLC runs that check them on small instances, and
TLAPS proofs of the properties that hold for every size. A step of a model of
the core is a clock edge, or one operation of software or of the controller where
a module says so; a step of a model of the scripts is what a script does between two
points at which others can see it, or one call of an algorithm.

## 1. The system

### The core

Ibex is an in-order core with two or three stages (IF, ID/EX and, if the parameter
`WritebackStage` is set, WB). All parts share one clock. They interact through
combinational signals inside a cycle and through two buses with the OBI-like
protocol request / grant / response. What is hard is not threads but the
interleaving of these parts cycle by cycle: stalls, grants, responses, errors,
interrupts and debug requests come in any cycle.

| Part | Source | State | Operations | Talks to |
|---|---|---|---|---|
| Prefetch buffer and fetch FIFO | `ibex_prefetch_buffer.sv`, `ibex_fetch_fifo.sv` | FIFO of 3 words, held request, bits for outstanding and to-be-discarded responses | request, grant, response, branch, hand over | instruction bus, IF |
| Load/store unit | `ibex_load_store_unit.sv` | FSM, split flag, error flags, address, rdata register | first and second part, grant, response, PMP error | ID, WB, data bus, PMP |
| Pipeline control | `ibex_controller.sv`, `ibex_id_stage.sv`, `ibex_wb_stage.sv`, `ibex_if_stage.sv` | controller FSM, ID FSM, IF-ID and WB registers, pending errors, debug and NMI mode | decode, stall, flush, take interrupt, enter and leave debug mode, sleep | all |
| CSR file | `ibex_cs_registers.sv`, `ibex_csr.sv`, `ibex_counter.sv` | trap registers with NMI copy, dcsr/dpc, PMP registers, counters, triggers | save, restore, software write, count | controller, ID, PMP |
| PMP | `ibex_pmp.sv` | none (reads the CSRs) | check of an address | IF, LSU |
| Instruction cache | `ibex_icache.sv` | fill buffers, tag and data memories, invalidation | lookup, fill, hit, invalidate | IF, instruction bus |
| Fetch extras | `ibex_branch_predict.sv`, `ibex_dummy_instr.sv`, `ibex_compressed_decoder.sv` | skid register, LFSR counter, Zcmp expansion FSM | predict, insert, expand | IF, ID |
| Multiplier, divider, ALU | `ibex_multdiv_*.sv`, `ibex_alu.sv` | FSM and partial results | multiply, divide | ID |
| Lockstep | `ibex_lockstep.sv` | delay lines, reset counter | compare | top |
| Top level | `ibex_top.sv` | clock gate, busy flag | sleep, wake | all |
| Simulation | `dv/uvm`, `dv/cosim` | scoreboards, queue of accesses | compare with Spike | tracer |

### The regression

`make` runs one Python script for each file of each test, in parallel and in the
order of what files depend on. The scripts talk through files: a pickle with a record
for each test, a pickle with the metadata of the regression, logs, stamps and their times.

| Part | Source | State | Operations | Talks to |
|---|---|---|---|---|
| Regression flow | `wrapper.mk`, `ibex_sim.mk`, `run_instr_gen.py`, `compile_test.py`, `run_rtl.py`, `check_logs.py`, `compile_tb.py`, `collect_results.py` | files and their times, records of tests | one script for each stage; export and load of a record; report | all |
| Log checking | `check_logs.py`, `ibex_log_to_trace_csv.py` | none | verdict from a UVM log and a trace | regression flow |
| Metadata and its lock | `metadata.py`, the scripts that use `LockedMetadata` | `metadata.pickle`, its lock, an alarm | lock, load, set fields, export, unlock | all scripts |
| Test selection | `metadata.py`, `ibex_cmd.py`, `directed_test_schema.py` | none | arguments and test lists to tests, seeds and parameters | regression flow |
| Directed test list | `gen_testlist.py` | none | a test list from the suites on disk | test selection |
| Commands of tools | `riscvdv_interface.py`, `scripts_lib.py`, `run_instr_gen.py`, `compile_test.py` | scratch files | substitute options, relocate paths, compile, copy | regression flow |
| Configurations | `ibex_config.py`, `ibex_cmd.py` | none | a configuration to options of tools and to ISA strings | build, test selection |
| Tool requirements | `check_tool_requirements.py` | none | versions to a verdict | build |
| Conversion to Verilog | `sv2v_in_place.py` | the sources and their converted copies | convert, copy back, empty | synthesis |
| Reports | `report_lib`, `collect_results.py` | none | results to text, JUnit, HTML, JSON and SVG | readers of a regression |

What is hard here is that steps fail, that make is stopped and started again and
trusts the times of files, that scripts run at the same time on one pickle, and
that several algorithms with many cases silently decide what is run at all.

### What makes each part correct

- Prefetch buffer: the core gets the instructions from the branch target on, in
  order, none twice, and nothing that was requested before the branch; a request
  stays until it is granted; a response always finds room.
- Load/store unit: one answer for each access, with an error exactly if a part
  failed, with the address of the part that failed, and with the bytes of the access.
- Pipeline control: the program executes as if instructions completed one after
  the other, traps are precise, causes are real, nothing waits for ever.
- CSR file: traps and returns nest, also with an NMI between; counters count
  what has completed.
- PMP: an access is allowed as the architecture says; a lock cannot be got round.
- Instruction cache: the words from the branch target on, none from before the last
  FENCE.I; an answer of the bus reaches the buffer that asked for it.
- Regression flow: a pass is earned, the first verdict is exact, a report waits for every
  simulation and check that is due, and make comes to an end.
- Metadata: no update of one script is lost to another; it is torn only while its
  owner writes it; nobody waits for ever for it.
- Algorithms: exactly the tests that are asked for and possible are run (but for the drops named in section 5); what is accepted
  as a configuration is what is built; a command is complete or not made; a source
  is replaced only when all are converted; all reports count the same.
- Not modelled yet: the expansion of a push or pop is restartable; a division is right in
  its corner cases; the clock runs when something is pending.

`PROJECT.json` lists the parts and, under `hazards`, what can go wrong in them
at which line, with the properties that watch it.

## 2. Modules

```
FetchFifo <- PrefetchBuffer                            InstrStream   (abstract)
LoadStoreUnit <- MCLoadStoreUnit                       LsuPort       (abstract)
LsuPort, IfStage <- WritebackStage <- Controller <- IdStage
   <- Pipeline <- MCPipeline                           Hart          (abstract)
            <- PipelineProgress
TrapState                                              TrapStack     (abstract)
PmpReference <- Pmp <- MCPmp                           (reference)
ICacheRams <- ICacheFill <- ICache                     WordStream    (abstract)
TestRunResult <- Regression <- MCRegression
MetadataLock <- MCMetadataLock                         MetadataStore (abstract)
TestSelection, DirectedTestlist, ToolCommands, IbexConfig, ToolRequirements,
   Sv2v, Reports <- ScriptTasks <- MCScripts
PrefetchBufferProofs, LoadStoreUnitProofs, PipelineProofs, TrapStateProofs,
   PmpProofs, ICacheProofs, RegressionProofs, ScriptsProofs       proofs
```

A component declares its registers under the names of the code (`_q` dropped
where nothing is confused); combinational signals are operators of the inputs of the
cycle, a record `in`, with the name of the signal. `Cycle(in)` is one edge,
`Next == \E in \in Inputs : Cycle(in)`. Variables under the heading *observed* do
not exist in the code; they record what an observer outside sees and no guard of
the design reads them. An operator called `x_Y` beside `x` is a mutation of `x`: the
bug, named by the comment, that the property given in `PROJECT.json` detects.

**FetchFifo, PrefetchBuffer.** The FIFO entries and their valid bits, the
address register, and the request logic of the buffer are the registers of the
code. A memory word is its address, whether each half begins a compressed
instruction, and an error; the memory is fixed by nothing, a response carries any
contents. `bus` holds granted requests, each with a flag `stale` that says
whether the core has branched since it was first made. That flag is what the
discard bits of the code are checked against. `InstrStream` is what IF may rely
on: `Redirect` and `Deliver`. An instruction is delivered out of the words that the memory has answered
since the last branch, in their order, and with exactly the errors of the halves it is made of. The history
variable `got` (words answered and not used up), which is built from the bus and not from the FIFO, is what
`ImplementsInstrStream` maps them to, with the address register, the last hand-over and the boot flag.

**LoadStoreUnit.** The FSM of the code with its five states, its error and
address registers, and the PMP decision (`Denied`, a set of words) that keeps a
request off the bus. A loaded value is a function from byte numbers to the
addresses the bytes came from, so that alignment, the rdata register and both
byte-lane multiplexers are modelled by what they do. Answers may come out of step
with requests, with a bus or integrity error. `LsuPort` is the
promise to the pipeline; `PortRespected` shows that the unit keeps it, and
`Pipeline` uses the port in the place of the unit.

**IfStage, WritebackStage, Controller, IdStage, Pipeline.** One
module for each stage, each with its registers and its `...Cycle` action, joined
by `Pipeline!Cycle` and wired as in `ibex_core.sv`. Instructions are records of
what control depends on: kind, whether they read a register (a load-use
hazard when a load is in WB; for the instructions in `NoSource` the decoder reads none), a fetch error, a target. Which instruction is at an
address is chosen when it is fetched. `WritebackStage` holds the RTL parameters as a variable that
never changes, so one run covers several builds. `Hart` is the abstract machine;
its `pc` is mapped to the oldest instruction in the pipeline that has not
completed (`hart_pc`), its debug mode to `debug_mode`. Of the CSR file the pipeline has the level of privilege and
three bits of `dcsr`: traps and debug entries go to M mode, a return to any level. `mstatus.TW` is not
there: a `wfi` that it traps is an illegal instruction of the program. An integrity error can come with any
answer of the memory, that for the first part of a split access included.

**PipelineProgress.** The same with a bit that toggles every cycle, so that a
cycle that leaves all registers alone is a step, and with fairness.

**TrapState.** The trap registers as software sees them, one action for each
thing that changes them: three kinds of traps, debug entry, both returns and the CSR
writes. `nmi_mode` and `debug_mode` are the controller's. Software writes the fault bits of `cpuctrlsts` raw, so
it may set `sync_exc_seen` outside any handler; the history variable `armed` remembers that
it has, `meddled` that the debugger has written `mstatus` or `dcsr.prv`. `TrapStack` is the abstract stack of interrupted contexts, one deep, or
two in an NMI handler.

**Pmp, PmpReference.** The registers with every write rule, and the check as
the code computes it: masks, comparators, both permission functions, the
entry of highest priority. An address is a word's index. The function `Pow2` is `2^n` by
recursion, which the provers can unfold. `PmpReference` says in
sets what the privileged architecture and Smepmp require. `program` never
changes: it selects what software writes in this behaviour, so that one run
covers matching, permissions and locks, each with the inputs it needs.

**ICacheRams, ICacheFill, ICache.** The cache by stages: the RAMs with the lookup
in IC1, the choice of a way, ECC correction and the invalidation FSM; the fill
buffers, one record each; the arbitration of IC0 and the joint `Cycle`. Words are
numbers and the data read from them are labels: the word, whether a FENCE.I has come
since (`old`), whether the bus reported an error (`bad`). A buffer that is not busy
is kept at one value, `Free`, because the code sets its registers before it reads them. A
RAM written under another scramble key reads as `Unknown`. The output stage, which
cuts words into instructions (lines 1070-1196), is outside: it takes the word it is offered or
not (`take`), and `out_word` stands for `output_addr_q` with `skid_valid_q`. Memory
changes only before a FENCE.I, as the ISA asks of software. The XOR of RAM contents with
their address cancels and is left out; `BranchCache` is set by no instance.
The core may drop its request in any cycle (`MayDropRequest`), as the controller does in WAIT_SLEEP and SLEEP.
`WordStream` is the promise: the words from a branch target on, nothing old after the jump of
a FENCE.I, errors where the bus reported them. After an erroneous word the output stage
is one word ahead and the core branches to its handler, so nothing is promised until then.

**TestRunResult, Regression.** `TestRunResult` has the loop of
`check_ibex_uvm_log` over classes of lines (a log is a sequence of `plain`, `error`,
`walltime`, `passed`, `failed`), the fields of the record that one script sets and
another reads, and what `compare_test_run` does to them, case by case, with the
early return that leaves `passed` alone. `Regression` has the files as `stale`
sets (missing, or older than what they depend on; `todo` is what make has decided from
the times it read) and one action for each script of the flow. A script is a sequence of steps:
load, work, tear, dump, yaml, commands. So make can be killed (`Crash`) between the
truncation of a pickle and its contents, and scripts of different tests
interleave. The exit status of the simulator is ignored, as in `run_rtl.py`, and what it
leaves is chosen from `Outcomes`; one that does not start leaves the files that were there, but with VCS, whose log is
the standard output, an empty log (`Absent`). A log that is missing is one that `check_logs.py` cannot open.
`EditRtl` changes the core between two
sessions. History variables (simulations, whether one left the files of a pass, which logs
were checked, what is `due` of each test before a report, which tests were `orphaned` by a crash) are read by properties only.

**MetadataLock, MCMetadataLock, MetadataStore.** The first has the protocol of `LockedMetadata`: open, flock, load,
body, truncate, dump, unlock, the alarm from the opening to the end of the load, the
export also when the body raises, and readers without the lock. `MCMetadataLock` says for each script whether it
reads, locks, which fields it sets, and whether it runs commands after that.
`MetadataStore` is what the scripts may rely on: atomic updates, until a kill
destroys the file. `Contents` and `Destroyed` map one to the other; an update
takes place at the truncation, while the new contents are in the memory of the owner.

**TestSelection, DirectedTestlist, ToolCommands, IbexConfig, ToolRequirements,
Sv2v, Reports.** Pure algorithms as operators, with `ok` FALSE for what raises. Texts are abstracted to
what the code distinguishes: a word of a command is a literal or a `<parameter>`, a path is a sequence of
components, a version is a sequence of numbers (or the parts of a VCS release name), a
line of a coverage report is its cells. `ScriptTasks` gives each algorithm an input, one for each behaviour, and states
what the result should be without the algorithm's order of computing it; what an input is
(`SelectionInput`, `Cfg!Value`, `VcsVersion`, a word of a command) is an assumption on its
constants. `MCScripts` has the inputs for TLC. `Sv2v` goes step by step, since it can stop
between two files: a step is an operation at a place of the list, and the order of steps is `earlier`. Every step can fail,
and a copy back can leave half a file (`outcomes`).

What is asked of the selection is what the documents say (`metadata.py:267-268`: names, lists and `all`). The code
drops directed tests against it; each of these drops has its name in `left_out_custom` and `left_out_own`, so that the
property is violated by any drop that is not known, and the known ones are in section 5. For the list of directed tests, what
can be imported depends on what is on disk: `checked_in` is what this checkout has, without `empty/empty.S`; the run
also has the checkout in which that file exists.

## 3. Runs

Type invariants are conjuncts of the invariants `FetchInv`, `AccessInv`, `PipelineInv`,
`CacheInv` and `RegressionInv`, each of which joins the invariants of its module
(`FetchInv` is `TypeOK /\ NoPushWhenFull /\ RequestsTracked /\ StreamInOrder`, and so on).

| Run | Module, cfg | What it shows |
|---|---|---|
| `prefetch` | PrefetchBuffer, `Prefetch.cfg` | FIFO entries are contiguous and never overrun, the bits for outstanding and discarded responses match the bus, the stream from the next instruction to the next request has no gap, the buffer implements `InstrStream` with the right errors, and it does not starve a calm core. |
| `lsu` | MCLoadStoreUnit, `Lsu.cfg` | Errors, mtval and bytes of each answer, requests that stay on the bus, the port promise, and an answer to every access. |
| `pipeline` | MCPipeline, `Pipeline.cfg` | In the builds small and opentitan: the pipeline implements `Hart`; accesses have an owner; interrupts and debug mode start with an empty pipeline; causes are real; a single step is single; an integrity error is not lost; branch targets are used once computed. |
| `pipeline_progress` | PipelineProgress, `PipelineProgress.cfg` | In the build maxperf: no deadlock of stalls, a held interrupt or debug request is served, a masked interrupt wakes the core. |
| `trap_state` | TrapState, `TrapState.cfg` | Nested traps and returns implement `TrapStack`, a double fault is recognised only while a trap is open or after software has set the bit, U mode never has MPRV unless the debugger makes it so. |
| `pmp` | MCPmp, `Pmp.cfg` | Every access is decided as in `PmpReference`; no reserved rule without MML; locked rules stay; no new M-mode executable rule under MML. |
| `icache` | ICache, `ICache.cfg` | With FENCE.I and a new scramble key at any time: age bits order the buffers, their counts match what the bus owes, every answer finds its owner, held requests stay; lookups read known tags, a valid line holds its words, none from before the last invalidation; the cache implements `WordStream`. |
| `regression` | MCRegression, `Regression.cfg` | Two sessions of make with a crash and a change of the core anywhere: passes are earned, the first verdict is exact, no report is written while a test is to be simulated or a log of this make to be checked, make ends. |
| `regression_resim` | MCRegression, `RegressionResim.cfg` | Finding 1 (a violation). |
| `metadata_lock` | MCMetadataLock, `MetadataLock.cfg` | Eight scripts, one of which may be killed: no update is lost, the file is torn only in an export, the pickle implements `MetadataStore`, nobody waits for ever. |
| `scripts` | MCScripts, `Scripts.cfg` | The algorithms of the scripts agree with what they are for on every input of the instance. |
| `vcs_order` | MCScripts, `ScriptsVcs.cfg` | Finding 2 (a violation). |

### Bounds

- `prefetch`: four words, so that the three FIFO entries and the wrap-around of
  addresses differ; two branch targets, one aligned, one in the upper half of the
  last word. `NUM_REQS` is 2, as in the code: the buffer has its real size. Each half of
  a word, its error bit and the order of grants and responses are free. The run takes
  `ResetAll` TRUE; FALSE only changes the value of address registers before the boot branch.
  The proofs hold for any number of words, any targets and both values of `ResetAll`.
- `lsu`: four words, two of them forbidden in the middle, so that a split
  access finds none, either or both parts forbidden, also across the wrap. Accesses of
  each size, at the offsets where the lanes differ. The FSM is the real one. The proofs
  hold for any number of words, any forbidden words and any accesses.
- `pipeline`: three addresses, with vectors shared among them; instruction kinds
  `MCPrograms`. The pipeline holds at most three instructions (IF, ID, WB), so three
  addresses tell apart the neighbours that a wrong saved address would confuse. One
  interrupt line (all lines share `irqs != 0`; their priority picks a number),
  the external NMI, the integrity NMI, the breakpoint at one address. `done`, `resp`,
  `ex_valid` are inputs, so every latency is covered. `stepped` saturates at 2.
  To bound the run the debugger writes none of the bits of `dcsr`, step alone or ebreakm
  alone (`MCDcsr`); the proofs hold for every choice, ebreaku included.
  `HoldDebugReq` keeps `debug_req` high until debug mode, as the debug specification
  has the debug module do; interrupts may go at any time.
- `pipeline_progress`: one build, no breakpoints and no NMI, which only add ways to leave.
- `trap_state`: two addresses, interchangeable (symmetry), at most two traps open.
  The state of the code has room for two contexts; a third nested trap shows the same
  as a second one. The proofs remove both bounds.
- `pmp`: two entries, addresses of three bits, granularity 0 (each configuration
  in `ibex_configs.yaml` has `PMPGranularity : 0`). Priority, TOR and the lock of
  the entry below need two entries and no more. The three programs of `MCPmp` give
  every mode and address with few permissions, every permission and mseccfg with one address,
  and every lock with overlapping regions. The proofs remove all three bounds.
- `icache`: lines of two words, two lines that share one index, so they evict each
  other; branches go into the middle of a line, where fills wrap around. Three fill
  buffers (the code has four) are the least with which a buffer is filled while an older one
  is, since a lookup is held back (`lookup_throttle`) while more than `NUM_FB - 2` are in use;
  one way, an error possible on one word, two requests outstanding, a core that takes every word
  that it is offered. `MAX_ABANDONED` 0: the core branches again only
  when no buffer of before its last branch is busy. RAM errors are in the model
  and off in this run (`ICacheECC` FALSE), which with them takes twice the time. `MAX_UNASKED` 1: the core drops its request
  only in cycles in which at most one buffer is busy; without that bound the run has 318 795 states in place of
  211 668, and the properties hold as well. The proofs remove all these bounds and include RAM errors.
- `regression`: one test of the generator, whose assembly is made by a script, and one
  directed test, whose is not; they share the testbench, metadata and report. Each can end well, and
  between them they have each case of `compare_test_run`: an error line, a FAILED without one, a log
  without a verdict, a simulation that is killed, also after the line that says it passed, one that does not start. Two sessions,
  one crash and one edit are the least in which the files of a stopped make are
  used by the next; both sessions, the second with or without a crash before it, may write a report (526 073 states). The proofs remove the bounds on tests, logs, sessions, crashes and edits.
- `metadata_lock`: the scripts of one regression with one test; all orders that
  `wrapper.mk` allows. One kill. The proofs remove both bounds.
- `scripts`: lists with two or three entries of each sort (with and without
  parameters, with iterations 0, with a configuration that is missing or broken), a core that has the parameter, with
  either value, or has it not, all selections of up to two names
  and keywords; commands of two words out of four sorts; paths of up to three components; two changed fields of
  a configuration, each with values of a good and a bad type; three tools, with each
  defect that an entry can have; two lists of sources with each subset broken, every write of which can fail; every set of suites,
  with a file that only looks like a source, with two of one name, with `empty/empty.S` and without; up to three results,
  records that cannot be loaded, and coverage that is missing or of nothing (48 826 states).
  The proofs remove the bounds on selections, on words of relocated commands, on configurations, on versions
  of VCS and on lists of sources.

### Fairness

- `prefetch`: the bus protocol grants a request that is held and answers a granted
  one (weak fairness of `Grant` and `Respond`); the clock keeps running (`Calm`, a
  cycle in which the core asks and does not branch). Nothing is assumed of one cycle.
- `lsu`: as before for grants and answers; `Cycle(NoInput)` is a cycle in which
  nothing arrives: clock edges do not stop.
- `pipeline_progress`: the clock runs, an instruction arrives in the end
  (justified by `CalmNotStarved`), accesses are granted and answered (by
  `EveryAccessAnswered`), the multiplier ends (its FSM counts down). Nothing is
  assumed of interrupts and debug requests; the properties say for
  which inputs they promise something.

- `regression`: make goes on while there is something it can do (`WF_vars(Step)`) and ends when there
  is not; nothing is assumed about a user who starts it again, nor of crashes and edits.
  That every script ends by itself is an assumption: the repository has a timeout for the simulation only
  (`run_rtl.py:109`); the generator and the compilers have none and are trusted to end.
- `metadata_lock`: each script goes on (`WF_vars(Step(s))`); `flock` is not assumed to
  be fair. A body ends, since none waits for another script.

## 4. Proofs

TLAPS checks these for every value of the constants allowed by the assumptions
named in the modules.

- `PrefetchBufferProofs!FifoContiguous`: types and the absence of a gap among valid
  entries are kept by every cycle of the FIFO, whatever is pushed or taken. The invariant
  is inductive as it stands, and its proof does not depend on the depth.
- `PrefetchBufferProofs!FetchSound`: `FetchInv` for any number of words, any branch
  targets, with and without reset of the address registers. It is not inductive. `BufferInv`
  adds that each word that is held, outstanding or requested has an entry of the
  FIFO to go to (`RoomKept`), that a request which waits has its outstanding bit free
  (`HeldHasSlot`), and that what a branch has overtaken is older than what it has not
  (`StaleFirst`): without it the discard bits, which are shifted with the answers, could mark a
  request of the new branch.
- `PrefetchBufferProofs!StreamDelivered`: the refinement of `InstrStream`. In `BufferInv`
  the words in the FIFO are those that the memory has answered and the core has not used up (`Supplied`), with the word
  that is pushed in this cycle (`AnsweredWords`), and the entry that IF takes is the next of the stream. So a hand-over is
  `Deliver` of these words and their errors, a branch `Redirect`, and all else a stutter.
- `LoadStoreUnitProofs!AccessSound`, `PortKept`: `AccessInv` and the port, for any number of
  words, any forbidden words and accesses. `AccessInv` says what is true when an answer
  comes and not how the unit gets there. `Phase` says that at any time one access is in
  one phase (waits for its first grant, first part sent, second waits, both sent,
  answerable) and what each register, the bus and the set of failed parts are in it. The
  bytes of a split load are then a matter of the arithmetic of addresses (`BytePlace`,
  `LanePlace`), modulo the size of the memory.
- `PipelineProofs!PipelineSound`: `PipelineInv`, for any program, addresses, vectors, breakpoints
  and interrupt lines, and every latency of the buses, the multiplier and the fetch. Its parts
  say what holds in one cycle: that an access has an owner, or that nothing is in flight when an
  interrupt is taken. `IInv` says what each stage holds in each state of the controller: no
  access is open unless it decodes, and an error arrives exactly with the flush for it
  (`InFlight`); the second state of the ID FSM has its instruction and no older access before it
  (`Multi`); the instructions in WB, ID and IF follow each other, but for a jump that has set the PC
  and is not done (`Fetching`); what a flush is for is still in ID (`Flushing`); why the controller
  left the program (`Reasons`); no instruction at a breakpoint gets in (`NoBreakpoint`); when stepping,
  the fetch stops behind the first instruction (`Stepping`). A cycle is either one in which the
  controller decodes (`DecodeStep`) or one in which the pipeline is empty after it, but for a new
  instruction (`QuietStep`). TLC found `IInv` invariant on the instance of `pipeline`, with all
  parts of it, before it was proved.
- `PipelineProofs!PipelineIsHart`: the refinement of `Hart`. While the controller decodes, what
  completes is the load or store in WB, the instruction in ID, or both in this order, and the hart
  continues behind them (`DecodeContinues`); in each other state it is a boot, a trap, a return or a
  stutter, and the address that is saved is where the hart stands (`QuietTransfers`).
- `PipelineProofs!IntegrityErrorKept`: in any build at all; an action property that needs no
  invariant: the register is cleared only by the step into NMI mode for it.

  Both `PipelineSound` and `PipelineIsHart` assume `Supported`: with `WritebackStage` comes
  `BranchTargetALU`, as in each entry of `ibex_configs.yaml`; without it a property fails (Findings).
  `PipelineSound` also assumes `HoldDebugReq`, as the runs do: the debug specification has the debug module
  hold its request until the hart has halted. `CauseReal` alone needs it, because the
  controller reads `debug_req_i` again one cycle after it has decided to enter debug mode.

- `TrapStateProofs!TrapTypeOK`, `TrapDoubleFault`: types, then the double fault
  bit with the nesting depth, whatever software writes to any of the registers, the bit itself included; for all
  addresses and depths.
- `TrapStateProofs!TrapMprvOnlyInM`: `MprvOnlyInM` alone is not inductive,
  because debug mode suspends a U-mode context. `MprvInv` adds that debug mode runs in M mode
  and that `dcsr.prv` may be U only if MPRV is clear.
- `TrapStateProofs!TrapImplementsStack`: the refinement of `TrapStack`, step by
  step. It needs the types and that debug mode is M mode (`DebugIsM`).
- `PmpProofs!PmpDecides`: `DecidesAsSpecified`, for any number of entries, any
  granularity and addresses of any width. The invariant it needs is that a stored
  address has `WIDTH` bits (`AddrHeld`) and that an NA4 entry is only there in the smallest
  granule (`WordsAlone`). Equal bits from `m` up are an equal quotient by `2^m` (`SameBits`);
  the bits that the mask of a NAPOT entry leaves out are those up to its first zero
  (`Trailing`, `MatchesNapot`); the two comparators of a TOR entry find the granules from
  its bottom to below its top (`MatchesTor`); both permission functions agree with the tables of
  `PmpReference` (`MmlAllows`, `OrigAllows`).
- `PmpProofs!PmpLockedRuleKept`: for any number of entries, any width and granularity.
  The words a rule covers are a function of its entry and, for TOR only, of the granule of the
  address below, which does not change when the entry below is turned off or on, though
  what its address reads as does (`CoversSame`).
- `PmpProofs!PmpNoNewMExec`: the rules that let M mode execute are exactly those whose
  writes are suppressed (`MExecRules`).
- `PmpProofs!PmpNoReservedRule`: with the shape of the registers as strengthening.
- `ICacheProofs!CacheSound`: `CacheInv` for any number of fill buffers, ways, lines and words
  in a line, any memory, bus and scramble keys, with and without ECC. It is not inductive, and
  neither are its parts alone. `ICacheInv` adds, for the buffers: one that is not busy is
  `Free`; a buffer turns to the bus only when all older ones are finished with it (`InTurn`), so
  what the bus owes is in the order of age (`BusInOrder`) and the oldest buffer that expects an answer
  is the one whose request is answered (`AnswerOwner`); a request that waits for its grant is
  the one a buffer holds (`Held`). For the RAMs: tags are written and looked up only under
  a valid key (`KeyKnown`); while the RAMs are invalidated nothing is looked up, corrected or
  kept for them (`Quiet`); what has been invalidated so far is invalid (`TagsWritten`); and a buffer
  which may still write its line has the words of that line, none of them, nor any still to come, from before
  the last FENCE.I (`BuffersMatchMemory`). A step is taken apart once, into what a cycle
  makes of a buffer that stays, of the one that is allocated and of the rest (`StayAfter`,
  `AllocAfter`, `FreeAfter`), of the bus (`BusEffect`) and of a tag (`TagsAfter`).
- `ICacheProofs!WordsDelivered`: the refinement of `WordStream`, for the same parameters. `ICacheInv`
  does not say which word comes next; `StreamInv` adds that the buffers that still
  have words for the core are at one line after another, from the word the core is owed up to the
  next lookup (`InStream`), that a lookup is for the buffer allocated last and what it finds is current
  (`LookupCurrent`), so that the ways that match, if there are several, hold the same words and
  their OR is these words (`HitData`), that a hit keeps the line (`HitsCurrent`), that an error is kept with its word
  (`ErrorsKept`), and that what is old and not stale came before a FENCE.I whose jump is yet to come (`OldFenced`).
  Then the word of each of the three sources of `output` is the next one (`OutputRight`), and a
  cycle is a step of `WordStream` (`CycleDelivers`).
- `ScriptsProofs!LockInvHolds`: for any set of scripts, what each does, the order make
  gives them and any number of kills. `NoLostUpdate` is not inductive: it says
  nothing of copies in memory. `LockInv` adds that exactly the owner of the lock is between
  lock and unlock (`OneHolder`), that what an owner has loaded has all that was
  committed (`LoadedAll`), and that it has its own fields at the end of the body
  (`OwnFieldsSet`). Then `UpdatesKept` and `TornForOwnerOnly` follow.
- `ScriptsProofs!LockImplementsStore`: the refinement. It adds `OwnerSees`: an owner
  works on what the file still has, and the file is torn while it exports.
- `ScriptsProofs!SelectionsExact`: for any arguments, any lists of tests, any configuration of the
  core. The code builds lists by loops, appends and filters; the property speaks of sets. `Enumerates(r, A)`
  joins them: the list `r` has each member of `A` once. It is kept by what the code does with lists: a
  comprehension over names that differ (`EnumeratesImage`), an append (`EnumeratesBoth`), the loop of
  `process_riscvdv_testlist` (`ChosenOnce`), the repetition of a test for each of its parameters
  in `filter_tests_by_config` (`RepeatedOnce`, `OneParameter`). Then `RiscvdvTests`, `DirectedTests` and
  `FilteredExact` say what each function returns, `ArgumentsExact` which arguments it refuses, and
  `SelectedExactly` puts them together. `SelectionAssumption` is needed: with a name that is in a list twice,
  or with two parameters (Findings), a test is listed twice. What is wanted is what the documents ask for without the drops that
  have a name; the theorem says that there is no other.
- `ScriptsProofs!TestCommandsComplete`: for any words of a command of the generator and any scratch
  directory. `WordRelocated` follows a word through the three cases of `reloc_word`. Commands that
  compile to an object first and then only read it are closed (`FromObjectClosed`), with the debug module
  in a memory of its own (`DebugModuleCommands`) and without. The commands that riscv-dv
  gives its compiler are the two of `riscvdv_cmds`.
- `ScriptsProofs!ConfigurationsBuilt`: for any entry, whatever its fields and their values. The two stages
  of a simulator share the two ways in which an option can be given (`StagesOfSimulators`), and
  each field is given in one of them, by its type (`OnceInStages`).
- `ScriptsProofs!InPlaceSafe`: for any list of sources, any headers, any of them broken, any write that fails. A file
  is replaced only when all have been converted, each from sources that were as they had been, and a header is emptied
  only when all have been replaced. It is not all or nothing: a stop or a full disk between two copies leaves some
  replaced, and the script has no way back (section 5). The property says nothing of how far the script has come. `Converting` adds that the temporary files and the replaced ones are
  what the steps done so far have made, that a file is replaced after every conversion, and that none of the
  files converted so far is broken; it is inductive because a step is taken only after all that are
  `earlier` (`ConvertsFirst`).
- `ScriptsProofs!OlderIsOrder`: `older` on versions of any length is irreflexive and transitive.
  `VcsOrderInRelease`: for versions of VCS of different years, or of one month, the numbers that `to_semver`
  makes have the order of releases, service packs and patches. `ToolsCheckedRight`: `ToolsChecked`
  for all versions but those of 2020 from another month than March: finding 2 is about
  just those, so the hypothesis cannot be dropped.

  The last theorems follow from one inductive invariant of `TaskSpec`, `Posed`: the input at work is
  one that the assumptions describe, and a conversion is as `Converting` says.

- `RegressionProofs!UvmVerdictExact`: a log of any length is judged passed exactly if it
  says so, no error comes before that, and no line says FAILED.
- `RegressionProofs!PassIsEarned`: `PassEarned` says nothing of what scripts have in memory
  or of the files of a simulation; `Earned` does: without a good simulation neither the record, nor
  the copy of a script, nor the report says passed, nor are the files those of a
  pass. With it go the rules of the flow: what runs when make is up, in which order
  (`MakeInv`, `Jobs`).
- `RegressionProofs!FirstVerdictRight`, `RegressionSound`: the file has what its
  script has, but while it is written (`Recorded`), the assembly is recorded before it is used, however often make is
  stopped, unless the test is `orphaned` (`Assembled`), and, short of a crash,
  from the creation of the record to the second simulation the record says what came of the
  first (`FirstRun`): a killed simulation is a TIMEOUT from the export of `run_rtl.py` on.
- `RegressionProofs!ReportsAreLate`: for any number of sessions, crashes and edits. What is due of a test is still
  planned by make, or done by a script that runs (`Due`): a simulation that is due keeps the log stale, and a log
  written by this make keeps `trr.yaml` to be made. The report waits until nothing is planned.

Induction over numbers is done with the least-number principle (`LeastNumber`, from
`NatLessThanWellFounded` and `WFMin`) applied to the set of numbers for which a statement
holds: the library's own induction theorems take an operator, which the installed provers cannot
instantiate. `RegressionProofs` does it over the lines of a log, `PmpProofs` over the
bits of an address; there `Pow2Equation` first shows that the recursive function `Pow2` exists.

The assumptions are those named in the modules, for the scripts `SelectionAssumption`,
`RelocationAssumption`, `ConfigurationAssumption` and `VcsAssumption`, which say what an input is. Of the core and the regression: the memory of the LSU has at least two words,
the prefetch buffer has its two requests, there are 1 to 16 PMP entries with a granule no larger
than the address space, the cache has at least two fill buffers and each of its
indexes is that of equally many lines, a regression has finitely many tests; the rest are types of what
the environment does. No theorem has another hypothesis but those of the pipeline and of the versions of VCS above.

Only model-checked: everything about liveness (`CalmNotStarved`,
`EveryAccessAnswered`, `NeverStuck`, `RequestsServed`, `Wakes`, `SessionEnds`, `EveryoneEnds`)
since fairness and ENABLED are out of the prover's reach; and, of the algorithms of the scripts,
`GeneratedTestsImport`, `CommandsComplete` and `ReportsAgree`. These three count or join what recursive functions over
lists and sets compute (`FoldSet`, `FlattenSeq`, `FoldLeft`, sums over results), whose value for every input
needs an induction over data with an operator as its parameter. `TestCommandsComplete` is proved for the
commands as they are listed above, and TLC checks the same commands.

## 5. Findings

1. `regression_resim` (code): when the UVM log shows an error, `compare_test_run`
   (`check_logs.py:61`) sets the failure mode but not `passed`, unlike the other error paths. A test
   that has passed, and is simulated again after a change and now fails, is
   reported as passed, and the regression ends with status 0.
2. `vcs_order` (code): `VcsToolReq.to_semver` (`check_tool_requirements.py:281`) writes the
   service pack and patch behind the month without a fixed width, so that 2020.12
   is older than 2020.03-SP2, in contradiction to the comment at 264-266.

Noticed while modelling, without a run of their own:

- A breakpoint match at `pc_if` takes precedence in `debug_cause_d` in every cycle
  (`ibex_controller.sv:433`), so that an EBREAK that enters debug mode
  in front of a breakpoint is reported with cause *trigger*; the comment at 389-391 says a match must be ignored
  where control flow changes.
- With a writeback stage, a write of minstret or minstreth in ID discards the increment of the
  instruction that retires from WB in that cycle (`ibex_cs_registers.sv:1413`).
- With `WritebackStage=1` and `BranchTargetALU=0`, which no entry of `ibex_configs.yaml`
  combines, a taken branch that waits in its first cycle for an older access sets the PC while the ALU
  still computes the comparison (`ibex_id_stage.sv:694`); `BranchTargetComputed` is violated if that build
  is added to `Configurations`.
- A log with a FAILED line and no error line before it makes `check_ibex_uvm_log` raise a TypeError
  (`ibex_log_to_trace_csv.py:245`), which `check_logs.py` does not catch: the record keeps
  what it had, and the rest of make stops (`Raises`, `compare_raises`), although the comment at `check_logs.py:98`
  says that the script always succeeds.
- A simulation that prints that it passed and is then killed by the timeout is a TIMEOUT
  only in the record that `run_rtl.py` exports at its end (`run_rtl.py:99-116`). When make is stopped
  before that, the log it leaves is newer than what it depends on, and the next make
  checks it and reports a pass. `PassEarned` therefore asks only for the files of a pass;
  `FirstVerdictExact`, short of a crash, for a simulation that was not killed. Both have limits: after one pass
  `PassEarned` asks nothing more of the test (finding 1 is about just that), and `FirstVerdictExact` is about
  the first simulation when nothing was stopped.
- `run_rtl.py` exports the record, `trr.yaml` with it, after the simulation (116). When make is stopped before the check,
  `trr.yaml` is newer than the log, so the next make does not check it and reports the test with the verdict it had,
  a failure if there was none. A simulator that does not start in a second make leaves the old log, and a `trr.yaml`
  that is newer. `ReportsAfterChecks` therefore speaks of the logs of the make that writes the report.
- When make is stopped after `run_instr_gen.py:253` has copied `test.S` and before the record is exported, the next make
  takes `test.S` as made and every compilation fails, since the record has no path of it, until the file
  is removed by hand (`orphaned`).
- `gen_testlist.py:76-81` writes a test `empty` with `empty/empty.S`, which is not in the repository, and one path that does not
  exist makes the import of the list as a whole raise (`directed_test_schema.py:140-162`): a list as it is generated here
  cannot be used with `all_directed`, only by the names of other tests. (The list that is checked in has the custom tests
  commented out.) Names of tests are stems of files, so two suites with a file of one name would give two tests of one
  name; at present none do.
- A stop or a failed write between two copies of `sv2v_in_place.py:100` leaves some sources in Verilog and others not, or half a file.
- `collect_results.py:58-63` gives `TestRunResult` a `name`, which it does not have: a RuntimeError while a record is loaded
  ends in a TypeError and no report at all. Covergroups that are missing (`util.py:195`), a metric that is `n/a` and a
  metric of nothing (`util.py:170`) raise after `regr.log` is written, and the reports after that are missing.
- `filter_tests_by_config` lists a test once for each of its parameters that match
  before one that does not (`ibex_cmd.py:151`).
- `metadata.py:267-268` says: use the special name "all" to run all the tests, and `Makefile:37-38` makes it the default, a
  full regression. But `TEST=all` runs no directed test, since the directed lists are looked at only when no test of riscv-dv was
  found or a whole directed list is asked for (`metadata.py:281-283`). For the same reason `TEST=arith,csr` drops the directed `csr`
  without a message; `TEST=all_custom,csr` drops it because the custom list is returned first. The comment at 278-280
  gives a reason not to validate the directed lists for a selection of riscv-dv tests only, none to drop what is asked for.
- An empty `rtl_params` under a test makes `filter_tests_by_config` drop the test, unlike a missing one (`ibex_cmd.py:151-187`).
- With `riviera` the relocation of commands has no case (`run_instr_gen.py`), though it has options in `ibex_cmd.py`.
- The commands for a test in discrete debug-module mode make four images but no `test.bin`, the
  file that `wrapper.mk` names, so that each make compiles it again (`compile_test.py:90`).
- `merge_cov.py` returns 1 where it should return a set when there are no databases, and its error message
  names a variable that does not exist.

## 6. Not modelled, and the plan

Out of scope: vendored code, the tracer (formats a log), test programs and coverage
definitions, the UVM agents, the co-simulation with Spike, the decoder tables, register-file
arrays. Of the scripts: what only formats, prints or calls a tool; the build of the generator; coverage
collection, whose stages only make their stamps when `COV` is 0. Left out inside modelled parts: operands
and forwarding, data-independent timing, the branch predictor, dummy instructions.

Order of work, with the most important behaviour first:

1. Prefetch buffer and FIFO (done), load/store unit (done), pipeline (done),
   trap state (done), PMP (done).
2. The regression: flow, log checking, metadata, algorithms (done).
3. Instruction cache: fill buffers, age order, RAMs, invalidation (done); its output
   stage against `InstrStream`, on top of `WordStream`, and its liveness.
4. Fetch extras: branch prediction and skid register, dummy instructions, the Zcmp
   expansion against the list of accesses of a push or pop.
5. Multiplier and divider FSMs at a small width against `*`, `\div` and the corner cases.
6. Lockstep delays and reset; clock gating in the top level.
7. Trigger CSRs and the remaining counters; the cosimulation queue.

Proofs done: prefetch buffer, load/store unit, pipeline, trap state, PMP, instruction cache, regression,
metadata lock, and of the algorithms: selection of tests, commands of a test, configurations, requirements of
tools, conversion to Verilog. What is left of them is what section 4 lists as only model-checked.
