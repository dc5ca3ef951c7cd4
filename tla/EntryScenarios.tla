--------------------------- MODULE EntryScenarios ---------------------------
(***************************************************************************)
(* The scripts that send a hart out of Debug Mode to see how it comes back *)
(* (sequences/single_step, step_classes, step_matrix, step_stall, trigger, *)
(* debug_entry, priv_irq, run_elf).  The step counts are shortened to one  *)
(* turn of the program that is stepped.                                    *)
(***************************************************************************)
EXTENDS RiscvDm

MSteps == 6         \* M_STEPS, one pass of step_loop with its trap
LowSteps == 6       \* LOW_STEPS
SretSteps == 3
WalkSteps == 5      \* STEP_COUNT, STEPS_PER_PASS
FindSteps == 3      \* MAX_STEPS_TO_FIND
Catches == 2        \* the halts of catch_privileges

(* A StepResult whose verdict is a flag, and a list of failures. *)
True(x) == Check(x, [v |-> T])
Unless(x, then) == If(x, [v |-> F], then, Nothing)
EnsureHalted == ensure_halted("halted") \o Unless("halted", Fail)
Clean(x) == Set(x, [v |-> "none"])
Note(x) == Set(x, [v |-> "some"])
NoneNoted(x) == Check(x, [v |-> {"none"}])
NoEbreaks == [ebreak |-> {}, step |-> FALSE]
wait_and_confirm == wait_halted("h") \o True("h")

-----------------------------------------------------------------------------
(* single_step_sequence.py: dcsr.step stays set. *)

cause_after_halt == get_dcsr_cause("c") \o Check("c", [cause |-> {"haltreq"}])
cause_after_step == get_dcsr_cause("c") \o Check("c", [cause |-> {"step"}])

single_step ==
    Script("main", {},
      <<Step("Activate", activate), Step("Halt", halt), Step("Confirm halted", wait_and_confirm),
        Step("Cause after halt", get_pc("before") \o cause_after_halt), Step("Set step", set_step(TRUE)), Step("Resume", resume_no_wait),
        Step("Wait for the step", wait_and_confirm), Step("Cause after step", cause_after_step), Step("Read PC", get_pc("pc"))>>)

-----------------------------------------------------------------------------
(* step_classes_sequence.py *)

confirm_halted_pc == wait_halted("h") \o If("h", [v |-> T], get_pc("pc0"), Nothing) \o True("h")

walk_classes[n \in 0 .. WalkSteps] ==
    IF n = 0 THEN Nothing
    ELSE Try(get_pc("pc"), Nothing) \o step_once("h")
         \o If("h", [v |-> F], Note("failures"),
               Try(get_dcsr_cause("c") \o If("c", [cause |-> {"step"}], Nothing, Note("failures")),
                   Note("failures") \o NoneNoted("failures") \o Return)
               \o walk_classes[n - 1])

step_classes ==
    Script("step_loop", {},
      <<Step("Activate", activate), Step("Halt", halt), Step("Confirm halted", confirm_halted_pc),
        Step("Cause after halt", cause_after_halt), Step("Set step", set_step(TRUE)),
        Step("Walk the classes", Clean("failures") \o walk_classes[WalkSteps] \o NoneNoted("failures")),
        Step("Clear step", set_step(FALSE)), Step("Still responsive", wait_and_confirm)>>)

-----------------------------------------------------------------------------
(* step_matrix_sequence.py.  pc is where the script believes the hart is;  *)
(* deviations are kept for the last step, and the hart is put where the    *)
(* return should have taken it.                                            *)

Handler == {"trap_handler", "handler_mret"}

matrix_setup ==
    open_pmp \o write_reg64("s0", "0", "scratch_area") \o read_reg64("mstatus", "hi", "lo") \o write_reg64("mstatus", "0", "no_mie")

place_from(x) ==
    read_dcsr("dcsr") \o Mix("dcsr", x, {"prv"}) \o write_gpr_from("dcsr", "dcsr")
    \o WriteFrom("data0", x) \o Write("data1", "0") \o command(AccessRegister("dpc", 3, TRUE)) \o wait_abstractcs

(* The step from pc, and where it ended. *)
StepHere ==
    step_once("h") \o Unless("h", Fail) \o read_gpr("dcsr", "now") \o If("now", [cause |-> {"step"}], Nothing, Fail)
    \o read_reg64("dpc", "hi", "dpc") \o Mix("dpc", "now", {"prv"})

(* Mutant: the hart is not put where the return should have taken it. *)
ReturnNotRepaired(epc, prv) ==
    read_reg64(epc, "hi", "want") \o Modify("want", [prv |-> prv]) \o StepHere
    \o IfSame("dpc", "want", {"v", "prv"}, Nothing, Note("xret") \o Mix("dpc", "want", {"v", "prv"}))

ReturnStep(epc, prv) ==
    read_reg64(epc, "hi", "want") \o Modify("want", [prv |-> prv]) \o StepHere
    \o IfSame("dpc", "want", {"v", "prv"}, Nothing, Note("xret") \o place_from("want") \o Mix("dpc", "want", {"v", "prv"}))

PlainStep ==
    LET trapped == read_reg64("mcause", "hi", "cause") \o If("dpc", [v |-> {"trap_handler"}], Nothing, Note("trap"))
    IN StepHere \o If("dpc", [v |-> Handler], If("pc", [v |-> Handler], Nothing, trapped), Nothing)

MatrixStep(prv) ==
    If("pc", [v |-> {"handler_mret"}], ReturnStep("mepc", prv),
       If("pc", [v |-> {"sret_insn"}], ReturnStep("sepc", "S"), PlainStep))
    \o Mix("pc", "dpc", {"v", "prv"})

matrix_run(start, prv, steps, stepie, irq) ==
    LET turns[n \in 0 .. steps] == IF n = 0 THEN Nothing ELSE MatrixStep(prv) \o turns[n - 1]
    IN EnsureHalted \o write_reg64("mie", "0", IF irq THEN "mtie" ELSE "0") \o modify_dcsr([step |-> TRUE, stepie |-> stepie])
       \o place(start, prv) \o Set("pc", [Word(start) EXCEPT !.prv = prv]) \o turns[steps]

m_combo(stepie, irq) == matrix_run("step_loop", "M", MSteps, stepie, irq)
low(prv) == matrix_run("step_loop4", prv, LowSteps, FALSE, FALSE)
wfi_in_u == matrix_run("step_loop", "U", 1, FALSE, FALSE)
sret_in_s == matrix_run("cls_sret", "S", SretSteps, FALSE, FALSE)
spec_check == NoneNoted("trap") \o NoneNoted("xret")
(* Mutant: the restore forgets dcsr.step. *)
RestoreKeepsStep == EnsureHalted \o write_reg64("mie", "0", "0") \o modify_dcsr([stepie |-> FALSE, prv |-> "M"])

matrix_restore == EnsureHalted \o write_reg64("mie", "0", "0") \o modify_dcsr([step |-> FALSE, stepie |-> FALSE, prv |-> "M"])

step_matrix ==
    Script("step_loop", {"trap", "xret"},
      <<Step("Activate", Clean("trap") \o Clean("xret") \o activate), Step("Halt", halt), Step("Set up", matrix_setup),
        Step("M", m_combo(FALSE, FALSE)), Step("M irq", m_combo(FALSE, TRUE)), Step("M stepie", m_combo(TRUE, FALSE)),
        Step("M stepie irq", m_combo(TRUE, TRUE)), Step("S", low("S")), Step("U", low("U")), Step("U wfi", wfi_in_u),
        Step("S sret", sret_in_s), Step("TC-SSTEP-008/009", spec_check), Step("Restore", matrix_restore)>>)

-----------------------------------------------------------------------------
(* step_stall_sequence.py stops at the first failure, and then leaves      *)
(* dcsr.step set.                                                          *)

advance_to_wfi[n \in 0 .. FindSteps] ==
    IF n = 0 THEN Fail
    ELSE get_pc("pc") \o If("pc", [v |-> {"wfi_insn"}], Return, Nothing)
         \o resume_no_wait \o wait_halted("h") \o Unless("h", Fail) \o advance_to_wfi[n - 1]

(* DMSTATUS_SAMPLES reads of dmstatus, no more. *)
step_over_wfi ==
    LET sample(otherwise) == read_dmstatus("s") \o If("s", [allhalted |-> T, anyhalted |-> T], Nothing, otherwise)
    IN get_pc("before") \o resume_no_wait \o sample(sample(sample(Fail)))
       \o Try(get_dcsr_cause("c"), Fail) \o If("c", [cause |-> {"step"}], Nothing, Fail)
       \o get_pc("after") \o Differ({"before", "after"}, "v")

step_stall ==
    StoppingScript("stall_loop", {},
      <<Step("Activate", activate), Step("Halt", halt), Step("Confirm halted", wait_and_confirm), Step("Set step", set_step(TRUE)),
        Step("Step until the wfi", advance_to_wfi[FindSteps]), Step("TC-SSTEP-002", step_over_wfi),
        Step("Clear step", set_step(FALSE)), Step("Read dmstatus", read_dmstatus("s"))>>)

-----------------------------------------------------------------------------
(* trigger_sequence.py.  width is what probe_xlen found. *)

try_write(body) == Try(body, clear_cmderr)
try_read(body, x, default) == Try(body, clear_cmderr \o Set(x, Word(default)))
safe(body) == Try(body, Nothing)
wr(reg, s) == If("width", [xlen |-> {64}], write_reg64(reg, "0", s), write_gpr(reg, s))
rd(reg, x) == If("width", [xlen |-> {64}], read_reg64(reg, "hi", x), read_gpr(reg, x))

probe_xlen ==
    Try(read_reg64("misa", "misa", "lo"), Set("misa", [v |-> "0"]))
    \o If("misa", [v |-> {"rv64"}], Set("width", [xlen |-> 64]), Nothing) \o safe(clear_cmderr)

tc_trig_001 == try_read(read_gpr("tinfo", "tinfo"), "tinfo", "0")
tc_trig_002 ==
    try_write(write_gpr("tselect", "ones")) \o try_read(read_gpr("tselect", "readback"), "readback", "0")
    \o try_write(write_gpr("tselect", "0"))

tc_trig_004 ==
    try_write(write_gpr("tdata1", "0")) \o try_read(read_gpr("tdata1", "before1"), "before1", "0")
    \o try_read(read_gpr("tdata3", "before3"), "before3", "None") \o try_write(write_gpr("tdata2", "junk"))
    \o try_read(read_gpr("tdata1", "after1"), "after1", "0") \o try_read(read_gpr("tdata3", "after3"), "after3", "None")
    \o Same("before1", "after1", {"v"}) \o Same("before3", "after3", {"v"})

make_type_step(type) ==
    try_write(wr("tdata1", "0")) \o try_write(wr("tdata1", type)) \o try_read(rd("tdata1", "kept"), "kept", "0")

(* No clear_cmderr on the way out of its exception. *)
tc_trig_006 ==
    Try(write_gpr("tselect", "0") \o wr("tdata2", "main") \o wr("tdata1", "type6") \o rd("tdata1", "armed")
        \o wr("tdata1", "0") \o rd("tdata1", "after"), Return)
    \o If("armed", [v |-> {"type6"}], Nothing, Return) \o Check("after", [v |-> {"0"}])

trigger ==
    Script("main", {"width"},
      <<Step("Activate", Set("width", [xlen |-> 32]) \o activate), Step("Halt", halt), Step("Probe XLEN", probe_xlen),
        Step("Select trigger 0", safe(write_gpr("tselect", "0"))), Step("TC-TRIG-001", tc_trig_001),
        Step("TC-TRIG-002", tc_trig_002), Step("TC-TRIG-004", tc_trig_004), Step("mcontrol6", make_type_step("type6")),
        Step("icount", make_type_step("type3")), Step("TC-TRIG-006", tc_trig_006),
        Step("Disable trigger", safe(write_gpr("tdata1", "0")))>>)

-----------------------------------------------------------------------------
(* debug_entry_sequence.py *)

enter_via_ebreak(prv, bits) ==
    modify_dcsr([ebreak |-> bits, step |-> FALSE]) \o place("cls_ebreak", prv) \o run_until_halted("entered")
    \o Unless("entered", ensure_halted("halted")) \o read_gpr("dcsr", "d") \o read_reg64("dpc", "hi", "dpc")

tc_dcsr_012 ==
    EnsureHalted \o write_reg64("mcause", "0", "0") \o enter_via_ebreak("M", {})
    \o read_reg64("mcause", "hi", "cause") \o read_reg64("mepc", "hi", "mepc")
    \o Check("cause", [v |-> {"breakpoint"}]) \o Check("mepc", [v |-> {"cls_ebreak", Succ["cls_ebreak"]}])
    \o If("d", [cause |-> {"ebreak"}], Fail, Nothing)

ebreak_entry(prv) ==
    EnsureHalted \o enter_via_ebreak(prv, {prv})
    \o True("entered") \o Check("d", [cause |-> {"ebreak"}, prv |-> {prv}]) \o Check("dpc", [v |-> {"cls_ebreak"}])

haltreq_entry(prv) ==
    EnsureHalted \o modify_dcsr(NoEbreaks) \o place("ebreak_park", prv) \o resume \o is_running("s") \o halt
    \o read_gpr("dcsr", "d") \o read_reg64("dpc", "hi", "dpc")
    \o Check("s", [allrunning |-> T]) \o Check("d", [cause |-> {"haltreq"}, prv |-> {prv}]) \o Check("dpc", [v |-> {"ebreak_park"}])

step_entry(prv) ==
    EnsureHalted \o modify_dcsr([ebreak |-> {}, step |-> TRUE]) \o place("step_loop4", prv) \o step_once("entered")
    \o read_gpr("dcsr", "d") \o read_reg64("dpc", "hi", "dpc") \o modify_dcsr([step |-> FALSE])
    \o True("entered") \o Check("d", [cause |-> {"step"}, prv |-> {prv}]) \o Check("dpc", [v |-> {"step_loop8"}])

tc_dcsr_011 ==
    EnsureHalted
    \o Try(write_gpr("tselect", "0") \o write_reg64("tdata2", "0", "cls_trigger_target")
           \o write_reg64("tdata1", "0", "mcontrol6") \o read_reg64("tdata1", "hi", "rb"),
           ensure_halted("halted") \o Return)
    \o If("rb", [v |-> {"mcontrol6"}], Nothing, Return)
    \o modify_dcsr(NoEbreaks) \o place("trigger_lead", "M") \o run_until_halted("entered")
    \o Unless("entered", ensure_halted("halted")) \o read_gpr("dcsr", "d") \o read_reg64("dpc", "hi", "dpc")
    \o write_reg64("tdata1", "0", "0")
    \o True("entered") \o Check("d", [cause |-> {"trigger"}]) \o Check("dpc", [v |-> {"cls_trigger_target"}])

entry_restore == EnsureHalted \o modify_dcsr([ebreak |-> {}, step |-> FALSE, prv |-> "M"]) \o write_reg64("dpc", "0", "ebreak_park")

debug_entry ==
    Script("main", {},
      <<Step("Activate", activate), Step("Halt", halt), Step("Open PMP", open_pmp), Step("TC-DCSR-012", tc_dcsr_012),
        Step("TC-DCSR-010", ebreak_entry("M")), Step("TC-DCSR-013 S", ebreak_entry("S")), Step("TC-DCSR-013 U", ebreak_entry("U")),
        Step("TC-DCSR-014 S", haltreq_entry("S")), Step("TC-DCSR-014 U", haltreq_entry("U")),
        Step("TC-DCSR-015 S", step_entry("S")), Step("TC-DCSR-015 U", step_entry("U")),
        Step("TC-DCSR-011", tc_dcsr_011), Step("Restore", entry_restore)>>)

-----------------------------------------------------------------------------
(* priv_irq_sequence.py *)

(* The privileges noted: by each halt, and by each step of the two walks. *)
Caught == <<"c1", "c2">>
Stepped == [p0 |-> <<"a1", "a2", "a3", "a4", "a5">>, p1 |-> <<"b1", "b2", "b3", "b4", "b5">>]
SteppedVars == {Stepped[label][i] : label \in {"p0", "p1"}, i \in 1 .. WalkSteps}

catch_privileges ==
    LET catch[i \in 0 .. Catches] ==
            IF i = 0 THEN Nothing
            ELSE catch[i - 1] \o resume_no_wait \o read_dmstatus("s") \o tms_walk(<<0>>) \o halt \o wait_halted("h")
                 \o If("h", [v |-> T], safe(read_dcsr(Caught[i])), Nothing)
    IN catch[Catches] \o Differ({Caught[i] : i \in DOMAIN Caught}, "prv")

set_stepie(on) ==
    read_dcsr("d") \o Modify("d", [step |-> TRUE, stepie |-> on]) \o write_gpr_from("dcsr", "d") \o read_dcsr("back")
    \o Check("back", [step |-> T, stepie |-> {on}])

walk_privileges(label) ==
    LET give_up == Note("failures") \o NoneNoted("failures") \o Return
        turn[i \in 1 .. WalkSteps + 1] ==
            IF i > WalkSteps THEN Nothing
            ELSE resume_no_wait \o wait_halted("h") \o Unless("h", give_up) \o Try(read_dcsr(Stepped[label][i]), give_up)
                 \o (IF i = 1 THEN safe(get_pc("pc")) ELSE Nothing)
                 \o If(Stepped[label][i], [cause |-> {"step"}], Nothing, Note("failures")) \o turn[i + 1]
    IN Clean("failures") \o turn[1] \o NoneNoted("failures") \o Differ({Stepped[label][i] : i \in 1 .. WalkSteps}, "prv")

summary == Differ(SteppedVars, "prv")

priv_irq ==
    Script("priv_m", SteppedVars,
      <<Step("Activate", activate), Step("Halt", halt), Step("Confirm halted", wait_and_confirm),
        Step("Catch each privilege", catch_privileges), Step("Set stepie=0", set_stepie(FALSE)),
        Step("Walk stepie=0", walk_privileges("p0")), Step("Set stepie=1", set_stepie(TRUE)),
        Step("Walk stepie=1", walk_privileges("p1")), Step("Privileges covered", summary), Step("Clear step", set_step(FALSE))>>)

-----------------------------------------------------------------------------
(* run_elf_sequence.py *)

RecordAddr == 0
read64(a, x) == read_mem32(a, x) \o Read("sbdata1", "hi")
native_failure_record == read64(RecordAddr, "check") \o read64(RecordAddr + 2, "actual") \o read64(RecordAddr + 4, "expected")
act_failure_record == native_failure_record \o read_reg64("t0", "hi", "x5") \o read64(RecordAddr + 6, "ret") \o read64(RecordAddr + 8, "ret")

wait_verdict == Until("tohost", [v |-> {"pass", "fail"}], read_mem32(TohostAddr, "tohost")) \o Check("tohost", [v |-> {"pass"}])
report == halt \o read_reg64("dpc", "hi", "dpc") \o read_reg64("mcause", "hi", "cause") \o read_reg64("mepc", "hi", "mepc")
explain_failure(record) == If("tohost", [v |-> {"fail"}], record, Nothing)

run_elf(record) ==
    Script("elf", {"tohost"},
      <<Step("Activate", activate), Step("Wait for the verdict", wait_verdict), Step("Halt and report", report),
        Step("Decode the failure", explain_failure(record))>>)

EntryScripts ==
    [single_step |-> single_step, step_classes |-> step_classes, step_matrix |-> step_matrix, step_stall |-> step_stall,
     trigger |-> trigger, debug_entry |-> debug_entry, priv_irq |-> priv_irq,
     run_elf |-> run_elf(native_failure_record), run_elf_act |-> run_elf(act_failure_record)]
=============================================================================
