# A TLA+ verification of riscv-dbg-vip

riscv-dbg-vip (the Python package `pydebug` and its SystemVerilog side) is a
verification environment for RISC-V Debug Modules.  It drives a Debug Module (DM)
over JTAG, predicts what every DMI read must return, and reports the device under
test (DUT) when the two differ.  A defect in such an environment is silent in one
of two ways: it blames a correct DUT, or it stops checking.  This directory states
what keeps that from happening and checks it: TLA+ modules translated from the
source, TLC runs on small instances, and TLAPS proofs for every instance.

Paths below are relative to `src/src/pydebug/` unless they start with `mk/`.

## 1. The system

    debug scenario (sequences/, api/session.py)
        |  halt, resume, read_gpr, ...          api/riscv_dm.py
        |  read(addr) / write(addr, data)       api/transport.py
        v
    UVMTransport  --- Unix socket ---  uvm_bridge.c  --- DPI mailbox ---  py_bridge.sv
    (client process)                   (server thread)                    (simulator)
                                                                             |
                                             JTAG sequences, driver, TAP  <--+
                                                      |
                                                 DTM -> DM -> harts          (DUT)
                                                      |
        monitor -> scoreboard, dm_checker -> dm_ref_model.sv
                                                  |  +DM_MODEL_TRACE
                                mk/model_crosscheck.py -> model/predictor.py

| component | state it keeps | operations | what is hard about it |
|---|---|---|---|
| run-control model, `model/predictor.py` | dmactive, ndmreset, hartsel, hartreset level; per hart: halt request, resume ack, halt-on-reset, halted, running, havereset | a dmcontrol write, DM reset, dcsr write, dmstatus sync | one write carries selection, resets, requests and acknowledgements; levels outlive the selection they were given to |
| shadows, `predictor.py` and `dm_ref_model.sv` | registers and memory as this traffic wrote them; data words; autoexec; System Bus Access (SBA) address and control | writes and reads of data, command, abstractauto, sbcs, sbaddress, sbdata | side effects of reads; values that go stale when a hart runs, a program executes, a burst advances or a reset strikes |
| `model/invariants.py` | the snapshot before an operation | `check_all` after every operation | decides from two snapshots what happened between them |
| `sv/model/dm_ref_model.sv` | the same as the Python model | the same | written by hand a second time |
| `mk/model_crosscheck.py` | a trace | replay and compare | sees only the states a trace reached |
| bridge: `api/uvm_transport.py`, `c_bridge/uvm_bridge.c`, `sv/env/py_bridge.sv`, `api/session.py`, `cli.py` | two streams per connection, a one-place mailbox under a mutex, request ids, the verdict | call, log, shutdown, reconnect | three processes; timeouts, crashes, interrupts, over-long lines |
| `sv/env/dm_checker.sv` | the pending request, correlation queues | compare at every read, sample busy at every write | responses belong to the previous scan; the busy bit is a sample |
| JTAG sequences, driver, monitor, scoreboard | TAP state, sticky busy, `dmi_busy_expected`, counts of busy and failed scans | scans, polls, dmireset, drains, re-issue | bounded retries, results of older operations, operations the DTM ignores |
| `api/riscv_dm.py`, `sequences/hart_control.py` | the selected hart | halt, resume, reset, registers, memory | polls with time limits that leave requests behind; dmcontrol writes are absolute and withdraw what they do not repeat |
| scripts, `sequences/*.py`, run by `api/session.py` | values kept between steps, the verdicts | 31 scripts of up to 16 steps | steps share one target: a sticky error, a request, a reset, an armed trigger or a foreign register left by one step fails another; a hart answers when it likes |
| coverage, register tables, DUT configuration, scripts, benches | | | passive recorders, data and wiring |

`PROJECT.json` lists every component with its status, and under "hazards" the
places where a test would hardly reach, with the properties aimed at each.

## 2. Plan

Done, in this order:

1. `DMPredictor`, with its proofs: run control is what everything else is judged by.
2. `DMInvariants`: the rules of `invariants.py` over that model.
3. `DMRefModel` and `ModelCrosscheck`: the second model, and both in lockstep.
4. `UvmBridge` with `TransportContract`: the only concurrent part of the package.
5. `SbaShadow` and `AbstractShadow`, with their proofs: whether a mismatch report is true.
6. `JtagTap`, `DebugTarget`, `RiscvDm`, `Scenario`: the command library as programs, and a
   session that runs them against a target that answers at once, late or too late.
7. `RunControlScenarios`, `CommandScenarios`, `EntryScenarios`: all scripts of `sequences/`;
   `HartSessions`: what they owe the command engine, the program, the TAP and the hart.
8. Proofs of every invariant of items 1 to 5 and of the refinement `ImplementsContract`
   (section 5).
9. `DmiLink` with its proofs: the scans below one DMI access, and the readers of the monitor's
   stream; `DtmCorrelator` on top of it.
10. `ShadowTrue` of `AbstractShadow` under the liberties it tolerates, proved.

Left: `openocd_transport.py` as a second implementation of `TransportContract`, autoexec on
Program Buffer words, and the skew between the monitor's report of a scan and the DM's
decision about it (section 7).

## 3. Modules

**DMPredictor** (`predictor.py`, run control).  A dmcontrol word is a record of its
decoded fields.  `WriteActive` is `_write_dmcontrol` as a composition of one operator
per method, in the order of the code: `ApplyNdmreset`, `ApplyHartreset`,
`ApplyResethaltreq`, `AckHavereset`, `ApplyHaltreq`, `ApplyResumereq`,
`SettleResetState`; `ResetDm` is the dmactive = 0 branch; a dcsr write and a Program
Buffer run change the shadowed step bit; `SyncObservedHartSignals` takes any two bits,
halted and running together included, as the code does.
Availability bits are left out: no statement of the repository ever changes them.

**DMInvariants** extends it with `rules`, the rules the last `check_all` reported.
Rules that compare one word with constants are left out.

**DMRefModel** is the run control of `dm_ref_model.sv`, translated on its own, under
the source's names.  **ModelCrosscheck** runs it next to `DMPredictor` on the same inputs.

**TransportContract** is what `transport.py` promises: calls one at a time, performed at
most once and in order; a call that returns was performed; one that raises may still be.
**UvmBridge** is the client, the two streams of every connection, the server thread, the
mailbox and the simulator's loop.  Each critical section of the C code under `g_mutex` is
one action, each blocking read and each condition wait a program counter.  A write to a
connection the client has left raises SIGPIPE in the simulator, which nothing handles
(`BrokenPipe`).  Log lines are sent between the steps and from within a step.  Every request
carries the number of its call, which no code can see; the properties speak of it.

**AbstractShadow** (`dm_ref_model.sv`, `dm_checker.sv`) is the shadow of abstract commands
next to an external DM that keeps the specification, and the checker's comparison at
every read.  **SbaShadow** (`predictor.py`) is the same for System Bus Access.  In both,
`Liberties` names what a debugger may do that the shadow does not follow.  With no
liberties the checker must be right (passing runs, proofs); with one at a time it is
wrong, and that is a finding about the code.

The external DM of the shadow modules is what the debug specification, as the code quotes
it, lets a DM do: a narrow write leaves the upper half of a register open, a trigger CSR
takes what it likes, a program may change every register, a command is busy for a while,
an access refused while busy sets cmderr, and a command is not run while cmderr is set.  It may
refuse any command, ignore it, or fail in the middle of it, leaving the data words as they were
or not; a bus access may fault, and while sberror is set the DM makes none.  The models know
neither cmderr nor sberror and follow such an access as if it had succeeded.

**DmiLink** goes below one DMI access: the sequences `python_bridge::serve` starts, scan by
scan (`dmi_read_seq.sv` with its polls, dmiresets, drains and re-issues; a write; a dtmcs
access; a raw scan; a scan of another register; a TAP reset), the scoreboard's counters, and
`dm_checker` with its one-deep pending register.  `pc`, `attempt` and `count` are the place in
the read sequence and its two loop counters; every DMI scan (`DmiScan`) is at once what the DTM
does with it, what the scoreboard counts and what `handle_txn` makes of it.  An operation
carries its call and attempt, which no code sees; the properties speak of them.  The DTM and
the DM are external.  Where the sources leave a DTM's behaviour open, or say two things about
it, `Kinds` has both: busy that is sticky or not (`sticky`), a dmireset that keeps the
operation in flight (`dtmcs_seq.sv`) or discards it (`dmi_read_seq.sv`) (`keeps`), a
dmihardreset that is implemented or not (`hard`), a Test-Logic-Reset that resets the DTM or not
(`tlr`), and operations that may fail or not (`fails`).  The DM may take any time to answer.
**DtmCorrelator** extends it with the two queues of `compare_dtm_dmi`.

**RiscvDm** writes each method of `riscv_dm.py` and `hart_control.py` as the sequence of DMI
accesses and decisions it makes: `halt` is a dmcontrol write, a poll and a second write.  A
statement becomes a record; `If`, `Try`, `TryFinally`, `Return`, `Raise` stand for Python's.
**RunControlScenarios**, **CommandScenarios** and **EntryScenarios** build the scripts from
them, one definition per test case under the source's name, steps in the source's order.
Steps that only print are left out; a loop over many registers, words or patterns goes over
one of each kind that the verdict tells apart; single-step walks are shortened to one turn of
the program that is stepped.

**Scenario** is `DebugSession` running one script: it takes one access or one decision at a
time, and between any two of them the target may move.  `at`, `code`, `env`, `ok`, `failed`
are the step, what is left of it, its variables, its verdict and the steps that failed;
`hartsel` is `RISCVDebug._hartsel`.  A poll (`DoPoll`) either sees its condition, raises on an
error, reads again, or its deadline passes (`Expires`).  An exception (`RaiseFrom`) runs the
handler of the innermost open try block or fails the step, as `_invoke` does; so does a
variable that an earlier, failed step was to set.

**DebugTarget** is external: a Debug Module, its DTM, bus and harts as the scripts use them
through DMI.  A configuration says which optional features the target has (halt-on-reset,
hartreset, hart mask, Program Buffer size, XLEN, scratch registers, triggers, bus widths), which of the
permitted error codes it returns, whether it answers at once or late (`late`), possibly later
than every timeout (`slow`), whether a resumed hart has left Debug Mode by the next access
(`leaves`), whether dmactive takes effect late (`lazydm`), whether a halted hart stays halted
through a reset (`keeps`) and reads as running in it (`resetruns`, as both DUTs do), whether the
bus reports errors (`sberr`), an error for a misaligned access (`sbalign`) or loses the transfer
a reset meets (`loses`), and which defect, if any, is seeded.
The defects are the ones the scripts' comments say they are there to catch: RTL-006 to RTL-013,
riscv-dbg#32 and the plain opposites of what a step asserts.  Words are symbols (`"abcd"`,
`"own_lo"`), addresses small numbers, programs a few labelled instructions with their
successors (`Succ`).
**JtagTap** is the JTAG driver: each task as the TMS and TDI bits it clocks through
`tap_next_state`, with the arcs it has taken and whether an Update-DR has issued an operation.

**HartSessions** puts the scripts for one hart together and states their properties.

Mutants (`Mutant of ...`, `Mutant: ...`) are variants of one definition with a plausible defect.  No
specification uses them; they show that a property can fail.

## 4. Runs

| run | instance | shows |
|---|---|---|
| `crosscheck` | 2 harts, one hartsel beyond them, every word with at most one exclusive bit, every dmstatus reading | both models predict the same after every input; the model makes no hart halted and running of its own accord; reset state while inactive; at the end of ndmreset every hart reports havereset and one with halt-on-reset is halted; a write leaves unselected harts alone |
| `invariants` | as above, a debugger that keeps the selection rules | no rule of `check_all` fires on the model itself; no hart is left behind in hartreset |
| `in_reset_neither` | the same instance | a hart held in reset is reported as running, not as neither halted nor running |
| `bridge` | 3 calls, 1 step, 2 clients; timeouts, crashes, interrupts, long lines of the first client, under fairness | replies answer their calls; a client whose lines fit stays in step; `TransportContract`; every call ends; a shutdown ends the simulation |
| `bridge_long_line` | one client | a log line of more than 1023 bytes shifts all later replies |
| `bridge_quit` | one client, interrupts | an interrupted session tells the simulator that no step failed |
| `abstract_shadow` | 1 register, x0, a trigger CSR; 2 words; 32- and 64-bit transfers, Program Buffer, autoexec on data0, refused, ignored and failing commands | no false mismatch, true shadow, true claims |
| `sba_shadow` | 2 words per half address, 64-bit addresses, plain reads that fault | no false mismatch, true memory shadow, addresses in step |
| `dmi_link` | 3 calls of any kind, 2 polls, 1 dmireset, 1 drain scan, queues of 3, all 32 kinds of DTM, under fairness | a read returns the answer to itself; the checker compares an answer with its own request; a silent scoreboard means that model and DM were asked the same, and that the DTM correlator keeps up and blames no DTM; polls, resets and drains end |
| `run_control_scenarios` | 2 harts, 11 scripts, every combination of halt-on-reset, hartreset and hart mask, harts that stay halted through a reset, a module slow to activate, answering at once, late, too late; 6 seeded defects | over a conforming target exactly the listed steps fail; each defect fails its own steps and no other; nothing is left asserted, except the haltreq of a halt that timed out; module and library agree on the selected hart; every session ends |
| `hart_sessions` | 1 hart, 23 scripts, the feature sets each script asks about, at once and late (too late for three); 14 seeded defects | the same, and: no command is dropped over an old cmderr; cmd_outcome's borrowed registers; every TAP arc walked and no DMI operation issued; the hart given back without step, ebreak or trigger; step_matrix follows the hart through wrong returns |
| `stale_halt` | a resumed hart that may still be in Debug Mode | the wait for the re-halt accepts the old halt |

Bounds.  Two harts are one selected and one not, and every rule distinguishes no more; a
third hartsel names no hart.  Three calls and two clients, each with a step that calls and logs, let a late reply, a
crash with a request in the mailbox and a second connection meet; the bounds are guards
of the issuing actions (`MaxCalls`, `MaxSteps`, `MaxSessions`), and shutdown stays possible
beyond them.  Two words tell a right value from a wrong one.  `Span = 2` makes every second
access of a burst carry into the upper address, and the next one wrap.  One general register
suffices because no operator relates two registers other than by dropping them all.

`dmi_link` has the source's three loops with smaller bounds (64 polls, 4 resets and 8 drain
scans there): they let each loop end both ways and start again, and three calls put an
operation before and one after a recovery, or overfill queues of three (`CORR_DEPTH`).  Calls 1
and 3 access one register and call 2 another (`MCaddr`).  The theorems hold for every value of
the bounds.

In the script runs a session is finite by itself.  `MSteps`, `LowSteps`, `SretSteps`,
`WalkSteps`, `FindSteps` and `Catches` shorten the loops of the single-step scripts: the
source steps 24 to 90 times round a loop of a few instructions, one turn of which, with its
trap and its return, is in the bound.  `Configs` holds all combinations of the features one
script asks about, and not their product over all scripts.

`NoFalseFailure` says which steps fail over a target that behaves as specified.  It is not none of
them: `FalseAlarms` lists, per latitude of the specification that a target uses, the steps that
do not allow it, and over a target that answers at once the failed steps are exactly those, so
that the list is as short as it can be and nothing cascades beyond it.  The latitudes are a hart that
stays halted through a reset, a DM slow to activate, a bus that reports its errors, refuses a
misaligned access or loses a transfer in a reset; section 6 has the steps.  A late target may
also fail the steps in `TimingSteps`: TC-RC-005, TC-HOR-002 and
TC-HOR-004 judge by a single read, TC-DMC-004 by a busy bit read before the write it is about,
TC-SSTEP-002 by three samples, and `catch_privileges` needs the hart in two privileges when it
is halted.  Nothing is said of a target slower than the timeouts, nor of a session whose
`activate` has failed over a slow dmactive.
`hart_sessions` assumes of the scripts that step that a resumed hart has left Debug Mode when
the next access arrives (`leaves`), which a JTAG scan of some forty bits gives a hart the time
to do; `stale_halt` is the same without it.

Deadlock is checked in every run but `dmi_link`, where a client may stop calling.

Fairness (`FairSpec`): weak fairness of the client's, the server thread's and the
simulator's steps.  The first two are threads of an operating system and each of their
steps is enabled until it is taken; the simulator polls the mailbox in a loop that advances
simulation time (`serve`).  Nothing is assumed of timeouts, crashes, interrupts or new
clients: liveness has to hold without them.  In `Scenario`: weak fairness of the script's
thread, of each hart, and of the command, bus and activation engines.  A hart executes
whenever it is not halted, and the engines finish what they have started unless the defect
under test is that they do not; a poll over an answer that cannot come ends by its deadline,
which is part of the script's own step.  In `DmiLink`: weak fairness of the steps of a running
sequence (`Driver`), which the simulator executes without waiting for anything but the clock.
The DM need never answer.

Discipline.  The passing shadow runs assume a debugger that clears cmderr before it runs a
command, writes a register only from data words it has staged, waits for sbbusy, and (SBA)
writes sbcs after a DM reset, stays below 4 GiB and does not read sbdata0 back after writing
it.  `riscv_dm.py` works that way; the findings say which scenarios and which configuration
need not.  Where the DM may not perform an access, the discipline is the one
`cmd_outcome_sequence.py:32-35` states ("a refused register WRITE would leave a stale shadow
value behind"): a command that may be refused transfers by read, and a data word that a failed
command left behind is written again before it is read.  For SBA: an access that may fault is a
read without sbautoincrement, as in TC-SBA-007 and TC-DMC-006, sbdata0 is not read before the
next read that succeeds, and sberror is cleared before anything else.  The results of both
modules are about debuggers that keep this; section 6 has what happens otherwise.

## 5. Proofs

All theorems hold for every value of the constants under the named ASSUMEs, which TLC
evaluates in the runs.  Every invariant of the model, bridge and link runs, and the refinement,
has a theorem; the correlator and the scripts do not (see below).  Where a module has a theorem
for its type invariant, for `OneRequestInFlight` or for `StatesAgree`, the runs leave that
formula to the proof.  A theorem with a hypothesis names the constant that switches a finding
of section 6 off; section 6 says what happens when it is on.  The inductive invariants were
checked with TLC on the instances of section 4 before they were proved.

| module | theorem | hypothesis |
|---|---|---|
| `DMPredictorProofs` | `TypeOK`, `DmResetState`, `MutexKept`, `ReleaseReportsReset`, `HaltOnReset`, `UnselectedUndisturbed` | none |
| `DMInvariantsProofs` | `HaltXorRun`, `HartresetFollowsLevel` | none |
| | `NoDutViolation` | `~StepArming /\ ~ResumeOnRelease` |
| `ModelCrosscheckProofs` | `StatesAgree`, `PredictionsAgree` | `~HartresetOnMissingHart` |
| `UvmBridgeProofs` | `TypeOK`, `OneRequestInFlight` | none |
| `UvmBridgeOrderProofs` | `ReplyAnswersItsCall`, `ImplementsContract` | none |
| | `ShortLinesInStep` | none |
| `SbaShadowProofs` | `TypeOK` | none |
| | `BurstInStep` | `"fault" \notin Liberties` |
| | `MemoryShadowTrue` | `Liberties \cap {"upper", "fault"} = {}` |
| | `NoFalseMismatch` | `Liberties = {}` |
| `AbstractShadowProofs` | `TypeOK` | none |
| | `ShadowTrue` | `Liberties \subseteq {"unguarded", "dataaccess", "staleread"}` |
| | `NoFalseMismatch`, `ClaimTrue` | `Liberties = {}` |
| `DmiLinkProofs` | `TypeOK`, `ReadReturnsItsOwn`, `ComparesItsOwn`, `SilentMeansInStep`, `WorkShrinks` | none |

* `DMPredictorProofs`.  `IInv` is type correctness and the reset state of an inactive DM.  That no
  hart is halted and running is not an invariant: a dmstatus word that shows both is copied.  What
  holds is `MutexKept`: a write or a command never brings it about, whatever was observed before.
  `_apply_haltreq` and `_settle_reset_state` keep it only for harts that have it, so there is a
  lemma per method, hart by hart, and the write is their composition.  The action
  properties `ReleaseReportsReset`, `HaltOnReset` and `UnselectedUndisturbed` follow in the same way.
* `DMInvariantsProofs`.  `NoDutViolation` speaks of the last `check_all` only; what makes it true
  of the next one is `RInv`: each hart is exactly one of halted and running (`HaltXorRun`, the
  statement behind the finding of `in_reset_neither`), only the selected
  hart is held in hartreset, and no hart in reset is halted (`ResetRuns`).  In the middle of a write
  that asserts hartreset a hart is neither halted nor running, so the lemmas follow a hart from
  method to method through the larger set `SettlesToXor`; `_settle_reset_state` brings it back.
  Then there is one step per rule: what the write does to a hart the rule looks at.
* `ModelCrosscheckProofs`.  Each function of `dm_ref_model.sv` is shown equal to the method of
  `predictor.py` it was written after, on one hart, and the two writes to be the same composition.
  The SystemVerilog model drops a hartreset over a missing hart and the Python model records it,
  so `StatesAgree` needs `LevelHasHart`: while the level is 1, hartsel names a hart.
* `UvmBridgeProofs`.  `HInv` places the one request (posted, in hand, answered or none)
  according to where the server thread is; needed because the thread and the simulator
  each test only their own flag.  `TInv` carries the type invariant: a counter stays in its
  range only because a session shuts down once and a step fails once (`CallsLeft`), which the
  types do not say.
* `UvmBridgeOrderProofs`.  A client step sends, reads a reply, leaves the channel alone or opens
  a connection (`StepKinds`), so that each invariant has four client cases in place of
  fifteen.  `OInv` follows a call on its way: only connections the server has yet to read or is
  reading hold lines (`Behind`); lines come in the order of their calls, after the one being
  served and after all performed (`Ordered`); the one being served is performed once, between the
  take and the answer (`Progress`); within a session an id differs from the current id as its
  call differs from the current call (`Tagged`), which is why an id that matches belongs to the
  call that waits.  `ReplyAnswersItsCall` is `Tagged` and `Numbered`; it needs no hypothesis:
  late, lost and cut lines included.
  `BridgeImplementsContract` maps `issued` to `call`, `pending` to `Awaiting`, and `performed` and
  `returned` to themselves.  A send is `Issue`, or `IssueAndRaise` when the simulator is gone; a
  reply read is `Return` or `Raise`; a timeout, crash or interrupt in a call is `Raise`; the
  simulator's `Perform` is the contract's, allowed by `Ordered` and `Progress`; all else stutters.
  `SInv` counts: on a sound connection one line or reply is outstanding while the client waits,
  none otherwise.  `FitInv` is `SInv` for a client whose lines fit; a new connection establishes it
  whatever the clients before left in the server, which is why `ShortLinesInStep` needs no
  hypothesis on the others.
* `SbaShadowProofs`, in layers.  `StepInv`: control words and addresses are equal; after the
  first write to sbcs the arm bit follows sbreadonaddr, and until then sbcs has its reset value,
  so that a stale arm bit makes the model claim a read but not move its address.  The code adds to one 64-bit number and
  masks, the DM counts two halves with a carry; the lemmas on quotient and remainder (`DivModOf`,
  `CarryLemma`) show these equal for every width.  Over it `MemoryShadowTrue`, and over both
  `ClaimInv`: what is claimed of sbdata is the DM's.  Each layer is proved under the liberties it
  tolerates; `SbaInv` is all of them.  All of it includes plain reads that fault and accesses the
  DM ignores; a write or an autoincremented access that faults is the liberty `"fault"`.
* `AbstractShadowProofs`.  `AInv` adds to the claims of the runs that staged words the
  debugger relies on are the DM's, that both sides hold the same command and autoexec bits,
  and `BusySampled`: while the DM is active a busy sample that is still set goes with an
  error to clear.  Without the last one a read of an armed word could re-run the command in
  the DM and not in the model, which is what happens once a register outside the guard is
  written while busy (the liberty `"unguarded"`).  `ExecuteAgrees` is the one lemma every path
  into `execute_command` uses.
  `ShadowTrue` survives that: under `"unguarded"`, `"dataaccess"` and `"staleread"` the data words go
  wrong, the register shadow does not.  `SInv` says why: whenever the sample of busy is set, or the DM is
  busy, the model has executed the DM's command too and no data word has been written since
  (`Settled`), so what a further, lone execution in the DM (`LoneRun`) writes is what the shadow
  already holds.  TLC refutes `ShadowTrue` under each of the other five liberties, so the
  hypothesis is the weakest one in these terms.
* `DmiLinkProofs`, each theorem over its own strengthening of the type invariant.
  `ReadInv`: while a read polls, what is in flight or was answered last is a read of this call;
  it holds because a busy request is not polled for, and is what `IssueIgnoresStatus` breaks.
  `CompareInv`: over a sticky DTM the pending request is the one in flight, or the one answered
  last, unless the status says that it was ignored.  `SilentInv`: as long as no busy was met no
  sequence has come to its recovery, so no operation was ignored or discarded.
  `WorkShrinks` needs no fairness: `Work` is (resets left) x (length of a round) + (what is left
  of this round), a natural number that every step of the sequence lowers.  With weak fairness
  it is the argument for `SequenceEnds`, which TLC checks.

Only model-checked:

* liveness under fairness (`CallReturns`, `ShutdownEndsSimulation`, `SessionEnds`,
  `SequenceEnds`), which the installed provers do not do;
* `CorrelatorKeepsUp`: one turn of `compare_dtm_dmi` is a loop over its
  queues (the recursive function in `Turns`), and what it leaves of them for queues of any
  length is an induction over data;
* the invariants of the scripts (`NoFalseFailure`, `DefectsCaught`, `NothingLeftAsserted`,
  `SelectionInStep`, `CommandsStartClean`, `BorrowedRegisters`, `TapWalk`, `HartHandedBack`,
  `FollowsTheHart`).  They are not consequences of how a session works but statements about
  31 given programs of up to some hundred instructions, over given configurations: a proof would
  be an invariant for every program counter of every script, which is the state graph TLC
  enumerates.  No constant is left to generalise over: the instances of the runs are the scripts.

## 6. Findings

With a run of their own; `PROJECT.json` quotes the line each one contradicts:

* A log line longer than the receive buffer costs the session (`bridge_long_line`).
* A session interrupted before `set_session_result` (`cli.py:453`) reports no failed step, against
  `uvm_bridge.c:199-201` (`bridge_quit`).
* A hart in reset is modelled as running (`predictor.py:790`), where `invariants.py:150-154` says
  that it is neither halted nor running: the edge `_inv_reset_release` waits for never comes, and
  its three rules judge nothing (`in_reset_neither`).
* `step_once` and its likes take the halt before the step for the one after it (`stale_halt`).

The same runs show the following when a constant of their configuration is changed.  They are
kept as named assumptions of the passing runs and not as runs of their own:

* `StepArming = TRUE` (`DMInvariants.cfg`): `invariants.py` reports a legal single step as a DUT
  violation (`_inv_resumereq`, 498-511), although it calls every violation "a real finding".
* `HartresetOnMissingHart = TRUE` (`ModelCrosscheck.cfg`): the two models record a hartreset to a
  nonexistent hart differently (`dm_ref_model.sv:588`, `predictor.py:752`).
* `ResumeOnRelease = TRUE` (`DMInvariants.cfg`): a resumereq in the write that ends a reset is
  reported as a DUT violation, because `_is_reset_write` looks at the levels after the write.
* `Liberties` of `AbstractShadow.cfg`: `"copy"`, a register written from a data0 that a command
  has replaced (`staged_data0` is the word of the last DMI write); `"unguarded"`, dmcontrol or
  sbcs written while a command is busy, which leaves `observed_cmdbusy` set when the command has
  ended, so that autoexec on a read is missed; `"reset"`, a register read after a reset of its
  hart; `"select"`, a register read of another hart than the one it was written to (there is one
  `shadow_regs` for all harts); `"dataaccess"`, a data word the Program Buffer stores to;
  `"refusedwrite"`, a register written by a command that the DM refuses or ignores
  (`dm_ref_model.sv:661-697` applies it; `cmd_outcome_sequence.py:32-35` warns of it);
  `"staleread"`, a data word read as a failed command left it, which the model takes for the
  register; `"reservedsize"`, a program run with transfer = 0 and a reserved aarsize (TC-AC-031), where
  the model returns before it forgets the registers (`dm_ref_model.sv:659`).
* `Liberties` of `SbaShadow.cfg`: `"stale_arm"`, sbaddress0 written after a DM reset and before
  sbcs: `_reset_declared_regs` clears sbreadonaddr and not its copy `sbcs_read_on_addr_armed`
  (`predictor.py:584`), so the model claims a read that the DM does not make; `"upper"`,
  memory above 4 GiB, which the shadow does not tell from the memory below; `"readback"`,
  sbdata0 read after it was written or after a read that faulted; `"fault"`, a write or an
  autoincremented access that faults or meets a set sberror: the model shadows and increments
  (`predictor.py:582-590`), the DM does neither.

Modelling the link showed the following; the first two are violated as invariants of
`DmiLink.cfg`, and are kept out of it:

* `ReadOnce`: `dmi_read_seq.sv:26-27` re-issues a read after dmireset "because the reset discards
  the queued read".  The DM can have answered it after the first busy poll, with sticky busy
  hiding the answer, and the re-issue then performs the read twice, over a DTM that discards
  what is in flight too; `dtmcs_seq.sv:11` says that dmireset keeps it.  Reads can have side effects.
* `MismatchMeansCorruption`: `dm_checker.sv:316-317` says a mismatch of the DTM correlator "means the
  DTM's serial-to-parallel translation is wrong".  A write that the DTM ignored as busy stays at the
  head of `jtag_q`, is paired with a later write to the same address and reported as corrupted.
* `uvm_transport.py:202-204` says that a read or a write "can never return 3: their IR scan gives the
  DTM time to finish, and they retry".  `dmi_write_seq.sv` looks at no status (its note at 25-31 says
  so): a write that meets a busy DTM is lost and its call returns normally.  `SilentMeansInStep`
  shows that the scoreboard counts every way in which DM and reference model come apart so.

Modelling the scripts showed the following.  They are in the model as they are in the code:

* A hart that stays halted through a reset fails TC-HOR-003 and TC-RST-002, which expect it to run
  afterwards.  `invariants.py:1014-1026` lists the point as unspecified and quotes that such a hart
  "may be halted".
* `dm_activation_sequence.py:23-26` says reading dmactive once "reports a failure where the spec
  says to wait"; TC-DMA-001 reads once and `activate`, which TC-DMA-002 relies on, does not wait:
  both fail over `lazydm`.
* TC-SBA-007 is about an access that faults, but over a bus that reports errors (`sberr`)
  `_wait_sbus` raises on the fault before it is cleared; sberror stays set and TC-SBA-009 and
  TC-SBA-010 fail too.
* TC-DMC-006 reads a misaligned address (`dm_corners_sequence.py:317`); over a target that reports
  the misalignment (`sbalign`, 64-bit accesses) `_wait_sbus` raises, and TC-DMC-003 finds sberror set.
* `dm_corners_sequence.py:462-464` says TC-DMC-004 runs last because the lost transfer leaves SBA
  busy until power-on reset; TC-DMC-009 runs after it and uses SBA, and is the step that fails
  over such a target (`loses`), unless TC-DMC-006 has already stopped the bus.
* `step_classes_sequence.py:105-109` says a step that does not re-halt is recorded "rather than
  aborting the walk"; the walk breaks there.
* `single_step_sequence.py` never clears dcsr.step, and `step_stall_sequence.py` stops before it does
  when TC-SSTEP-002 fails; a following script's `resume()` then times out.  TC-TRIG-006 and
  TC-RST-005 leave cmderr set.
* TC-AC-005 has a branch for a command that is not supported, which `write_gpr` never lets it reach.
* TC-DTM-019 reports "every TAP arc"; the wait in Run-Test/Idle is not one of those it takes.

## 7. Not modelled

Besides the parts the plan leaves for later: the comparison of a script's readings with a
predictor (scripts skip it over a transport that has none), wall-clock bounds (TC-RC-006),
the messages of a StepResult, the interactive prompt; the dummy hart and `dmi_assertions.sv`, which
work on single clock cycles; the backdoor comparison and the DMI/SBA correlator of `dm_checker`,
which counts matches and reports nothing; register tables and configuration files (pure data, their
results are the constants), file formats (ELF, VCD), the interactive shell, coverage
scripts, structural SystemVerilog, the third-party cores, and the testplans and paper.
In the modelled parts: X and Z values, the clock domains between JTAG and the DM (a DMI
access is one step of the shadow modules), the predicted words of registers that are plain
storage, autoexec on Program Buffer words, and `sbaccess_writable` (access sizes other than
the declared one).
