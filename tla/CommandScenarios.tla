-------------------------- MODULE CommandScenarios --------------------------
(***************************************************************************)
(* The abstract-command, Program Buffer, system-bus and DTM scripts        *)
(* (sequences/cmderr, cmd_busy, cmd_outcome, dm_corners, gpr_write,        *)
(* csr_access, program_buffer, sw_breakpoint_progbuf, sba, mem_scan,       *)
(* reset_values, dmi_error, halt).  One definition per test case, named as *)
(* the source's.  Steps that only print are left out, and a loop over many *)
(* words, registers or patterns goes over one of each kind.                *)
(***************************************************************************)
EXTENDS RiscvDm
LOCAL INSTANCE SequencesExt

Fill(from, to, s) == FlattenSeq([i \in 1 .. to - from + 1 |-> write_progbuf(from + i - 1, s)])
Register(f) == f @@ [NoCommand EXCEPT !.type = "register"]
wait_not_busy(x) == Wait("abstractcs", [busy |-> F], x)

(* Mutant: the clear does not wait for the command before it. *)
ClearWhileBusy == clear_cmderr

(* A busy module refuses the write that clears cmderr: wait, then clear.   *)
clear_cmderr_idle == wait_not_busy("idle") \o clear_cmderr

DmstatusFields == {"anyhalted", "allhalted", "anyrunning", "allrunning", "anyresumeack", "allresumeack", "anyhavereset",
                   "allhavereset", "anynonexistent", "allnonexistent", "version"}

-----------------------------------------------------------------------------
(* cmderr_sequence.py; width is what probe_width found. *)

access_register(size, f) == f @@ AccessRegister("s0", size, FALSE)
by_width(k32, k64) == If("width", [aarsize |-> {2}], k32, k64)

drive(k, expect) ==
    clear_cmderr \o command(k) \o wait_not_busy("done") \o read_abstractcs("err") \o clear_cmderr
    \o Check("err", [cmderr |-> {expect}])

drive_plain(expect) == LET K(size) == drive(access_register(size, <<>>), expect) IN by_width(K(2), K(3))
drive_type(type, expect) == LET K(size) == drive(access_register(size, [type |-> type]), expect) IN by_width(K(2), K(3))
drive_unimplemented(expect) == LET K(size) == drive(access_register(size, [reg |-> "none"]), expect) IN by_width(K(2), K(3))

probe_width ==
    clear_cmderr \o command(access_register(3, <<>>)) \o wait_not_busy("done") \o read_abstractcs("err") \o clear_cmderr
    \o If("err", [cmderr |-> {CmderrNotSupported}], Set("width", [aarsize |-> 2]), Set("width", [aarsize |-> 3]))

confirm_halted == read_dmstatus("s") \o Check("s", [allhalted |-> T, anyhalted |-> T])

(* Either the second write meets the first command, or the module was      *)
(* quicker than the debugger.                                              *)
busy_case ==
    LET race(nops) == (IF nops > 0 THEN Fill(0, nops - 1, "nop") ELSE Nothing) \o write_progbuf(nops, "ebreak")
        K(size) == command(access_register(size, [postexec |-> TRUE])) \o command(access_register(size, <<>>))
    IN read_abstractcs("acs") \o clear_cmderr
       \o If("acs", [progbufsize |-> {8}], race(7), If("acs", [progbufsize |-> {2}], race(1), race(0)))
       \o by_width(K(2), K(3)) \o wait_not_busy("done") \o read_abstractcs("err") \o clear_cmderr
       \o Check("err", [cmderr |-> {0, CmderrBusy}])

sticky_case ==
    LET K(size) == command(access_register(size, <<>>))
    IN clear_cmderr \o command(access_register(4, <<>>)) \o wait_not_busy("done") \o read_abstractcs("failing")
       \o by_width(K(2), K(3)) \o wait_not_busy("done") \o read_abstractcs("after")
       \o If("failing", [cmderr |-> {0}], Fail, Nothing) \o Same("failing", "after", {"cmderr"})

recovery_case ==
    LET K(size) == command(access_register(size, <<>>))
    IN clear_cmderr \o read_abstractcs("before") \o by_width(K(2), K(3)) \o wait_not_busy("done") \o read_abstractcs("after")
       \o Check("before", [cmderr |-> {0}]) \o Check("after", [cmderr |-> {0}])

cmderr_script ==
    Script("main", {"width"},
      <<Step("Activate", activate), Step("Halt", halt), Step("Probe width", probe_width), Step("Resume", resume),
        Step("cmderr=4", drive_plain(CmderrHaltResume)), Step("Halt again", halt), Step("Confirm halted", confirm_halted),
        Step("cmderr=0", drive_plain(0)), Step("cmderr=2 size", drive(access_register(4, <<>>), CmderrNotSupported)),
        Step("cmderr=2 quick access", drive_type("quick", CmderrNotSupported)),
        Step("cmderr=2 access memory", drive_type("memory", CmderrNotSupported)),
        Step("reserved cmdtype", drive_type("reserved", CmderrNotSupported)),
        Step("cmderr=3", drive_unimplemented(CmderrException)), Step("cmderr=1", busy_case),
        Step("cmderr sticky", sticky_case), Step("cmderr recovers", recovery_case)>>)

-----------------------------------------------------------------------------
(* cmd_busy_sequence.py.  Arming rewrites the Program Buffer while the     *)
(* command of the race before may still run: the module then ignores the   *)
(* writes, and what it holds is what they would have stored.               *)

arm_long_command ==
    write_progbuf(0, "li_400") \o write_progbuf(1, "addi") \o write_progbuf(2, "bnez") \o write_progbuf(3, "ebreak")
    \o clear_cmderr_idle \o command(PostexecOnly)
race_access(access) == arm_long_command \o access \o read_abstractcs("acs") \o Check("acs", [cmderr |-> {CmderrBusy}])

tc_ac_020 ==
    race_access(Write("data0", "ones")) \o race_access(Read("data0", "x")) \o race_access(Write("progbuf0", "junk"))
    \o race_access(Read("progbuf0", "x")) \o clear_cmderr_idle

tc_ac_021 ==
    race_access(command(PostexecOnly)) \o race_access(Write("abstractauto", "0"))
    \o race_access(Write("abstractcs", "0") \o Write("abstractcs", "0")) \o clear_cmderr_idle \o Read("abstractauto", "x")

tc_ac_022 ==
    wait_not_busy("settled") \o If("settled", [v |-> F], Fail, Nothing)
    \o Write("abstractauto", "0") \o Fill(0, 3, "ebreak") \o clear_cmderr_idle
    \o read_abstractcs("acs") \o Read("abstractauto", "auto") \o read_dmstatus("s")
    \o Try(write_gpr("t0", "abcd") \o read_gpr("t0", "val"), read_abstractcs("post") \o Fail)
    \o read_abstractcs("err") \o Check("val", [v |-> {"abcd"}]) \o Check("err", [cmderr |-> {0}])

tc_ac_023 ==
    read_dmstatus("s0") \o read_hartinfo("h0") \o Write("dmstatus", "ones") \o Write("hartinfo", "ones")
    \o read_dmstatus("s1") \o read_hartinfo("h1") \o Same("s0", "s1", DmstatusFields) \o Same("h0", "h1", {"v", "nscratch"})

tc_ac_024 ==
    Write("abstractauto", "0") \o Read("abstractauto", "zero") \o Write("abstractauto", "1") \o Read("abstractauto", "one")
    \o Write("abstractauto", "0") \o clear_cmderr_idle \o Check("zero", [v |-> {"0"}])

tc_ac_025 ==
    read_dmcontrol("base") \o or_dmcontrol("base", [setkeepalive |-> TRUE]) \o read_dmcontrol("x")
    \o or_dmcontrol("base", [clrkeepalive |-> TRUE]) \o read_dmcontrol("x") \o or_dmcontrol("base", [hasel |-> TRUE])
    \o or_dmcontrol("base", [setresethaltreq |-> TRUE]) \o or_dmcontrol("base", [clrresethaltreq |-> TRUE])
    \o or_dmcontrol("base", <<>>) \o is_halted("s") \o Check("s", [allhalted |-> T])

tc_ac_026 ==
    LET probe(reg, write) == clear_cmderr_idle \o Write("data0", "5a5a") \o command(AccessRegister(reg, 2, write))
                             \o wait_not_busy("done") \o read_abstractcs("seen")
    IN probe("custom", TRUE) \o probe("custom", FALSE) \o probe("a0", TRUE) \o probe("a0", FALSE)
       \o probe("fpr", TRUE) \o probe("fpr", FALSE) \o clear_cmderr_idle \o read_gpr("t0", "v")

tc_ac_027 ==
    resume \o is_running("first") \o resume \o is_running("second") \o halt
    \o Check("first", [allrunning |-> T]) \o Check("second", [allrunning |-> T])

tc_ac_028 ==
    Read("command", "k") \o Write("unmapped", "ones") \o is_halted("s")
    \o Check("k", [v |-> {"0"}]) \o Check("s", [allhalted |-> T])

cmd_busy ==
    Script("main", {},
      <<Step("Activate", activate), Step("Halt", halt), Step("TC-AC-020", tc_ac_020), Step("TC-AC-021", tc_ac_021),
        Step("TC-AC-022", tc_ac_022), Step("TC-AC-023", tc_ac_023), Step("TC-AC-024", tc_ac_024), Step("TC-AC-025", tc_ac_025),
        Step("TC-AC-026", tc_ac_026), Step("TC-AC-027", tc_ac_027), Step("TC-AC-028", tc_ac_028)>>)

-----------------------------------------------------------------------------
(* cmd_outcome_sequence.py: the delay loop is in RAM, behind jr t1. *)

run(k, x) == clear_cmderr_idle \o command(k) \o wait_not_busy("done") \o read_abstractcs(x)

race(k, during, x) ==
    clear_cmderr_idle \o command(PostexecOnly) \o during \o command(k) \o read_abstractcs("window")
    \o wait_not_busy("done") \o read_abstractcs(x)

point_t1_at_loop == write_reg64("t1", "0", "loop")

(* Mutant: t1 is not pointed at the loop again. *)
T1LeftToProgram(k, x) ==
    clear_cmderr_idle \o write_reg64_from("t0", "t0_hi", "t0_lo") \o write_reg64_from("t1", "t1_hi", "t1_lo")
    \o resume \o run(k, x) \o halt \o clear_cmderr_idle \o Write("data0", "0")

(* The program runs with its own t0 and t1. *)
while_running(k, x) ==
    clear_cmderr_idle \o write_reg64_from("t0", "t0_hi", "t0_lo") \o write_reg64_from("t1", "t1_hi", "t1_lo")
    \o resume \o run(k, x) \o halt \o clear_cmderr_idle \o point_t1_at_loop \o Write("data0", "0")

sba_write64(a, hi, lo) ==
    sbcs([access |-> 3]) \o sbaddress(a) \o Write("sbdata1", hi) \o Write("sbdata0", lo) \o wait_sbus
sba_read64(a, hi, lo) ==
    sbcs([access |-> 3, readonaddr |-> TRUE]) \o sbaddress(a) \o wait_sbus \o Read("sbdata1", hi) \o Read("sbdata0", lo)

is_err(x, want) == Check(x, [cmderr |-> want])

setup ==
    read_reg64("t0", "t0_hi", "t0_lo") \o read_reg64("t1", "t1_hi", "t1_lo")
    \o sba_write64(LoopAddr, "addi", "li_400") \o sba_write64(LoopAddr + 2, "ebreak", "bnez")
    \o sba_read64(LoopAddr, "h0", "l0") \o sba_read64(LoopAddr + 2, "h1", "l1") \o point_t1_at_loop
    \o Check("l0", [v |-> {"li_400"}]) \o Check("h0", [v |-> {"addi"}])
    \o Check("l1", [v |-> {"bnez"}]) \o Check("h1", [v |-> {"ebreak"}])

tc_pb_010 ==
    write_progbuf(0, "jr_t1")
    \o race(PostexecOnly, read_dmstatus("x") \o raw_dmcontrol([dmactive |-> TRUE]) \o Read("sbcs", "x"), "busy")
    \o write_progbuf(0, "illegal") \o run(PostexecOnly, "exc") \o while_running(PostexecOnly, "hr")
    \o is_err("busy", {CmderrBusy}) \o is_err("exc", {CmderrException}) \o is_err("hr", {CmderrHaltResume})

tc_pb_011 ==
    Fill(1, 3, "ebreak") \o write_progbuf(0, "illegal") \o run(PostexecOnly, "exc") \o while_running(PostexecOnly, "hr")
    \o is_err("exc", {CmderrException}) \o is_err("hr", {CmderrHaltResume})

tc_pb_012 ==
    Fill(4, 7, "ebreak") \o write_progbuf(0, "jr_t1") \o race(PostexecOnly, Nothing, "busy")
    \o write_progbuf(0, "illegal") \o run(PostexecOnly, "exc") \o while_running(PostexecOnly, "hr")
    \o is_err("busy", {CmderrBusy}) \o is_err("exc", {CmderrException}) \o is_err("hr", {CmderrHaltResume})

tc_ac_030 ==
    LET of(type) == race([NoCommand EXCEPT !.type = type], Nothing, "busy") \o is_err("busy", {CmderrBusy})
    IN write_progbuf(0, "jr_t1") \o of("quick") \o of("memory") \o of("reserved")

(* Mutant: the command has a size the hart supports. *)
SupportedSize == write_progbuf(0, "ebreak") \o run(Register([size |-> 2, postexec |-> TRUE]), "err") \o is_err("err", {0})

tc_ac_031 ==
    write_progbuf(0, "ebreak") \o run(Register([size |-> 5, postexec |-> TRUE]), "err") \o is_err("err", {0})

ReadX5Post == [AccessRegister("t0", 2, FALSE) EXCEPT !.postexec = TRUE]

tc_ac_032 ==
    write_progbuf(0, "jr_t1") \o race(ReadX5Post, Nothing, "busy")
    \o run([ReadX5Post EXCEPT !.size = 5], "notsup") \o write_progbuf(0, "illegal") \o run(ReadX5Post, "exc")
    \o Write("data0", "0") \o while_running(ReadX5Post, "hr") \o write_progbuf(0, "ebreak")
    \o is_err("busy", {CmderrBusy}) \o is_err("notsup", {CmderrNotSupported})
    \o is_err("exc", {CmderrException}) \o is_err("hr", {CmderrHaltResume})

Neither == Register(<<>>)

tc_ac_033 ==
    run(Neither, "none") \o write_progbuf(0, "jr_t1") \o race(Neither, Nothing, "busy") \o write_progbuf(0, "ebreak")
    \o while_running(Neither, "hr")
    \o is_err("none", {0}) \o is_err("busy", {CmderrBusy}) \o is_err("hr", {0, CmderrHaltResume})

tc_ac_034 == run(AccessRegister("t0", 5, FALSE), "err") \o Write("data0", "0") \o is_err("err", {CmderrNotSupported})
tc_ac_035 ==
    run(AccessRegister("custom", 3, FALSE), "err") \o Write("data0", "0")
    \o is_err("err", {CmderrNotSupported, CmderrException})

restore ==
    clear_cmderr_idle \o Fill(0, 7, "ebreak")
    \o write_reg64_from("t0", "t0_hi", "t0_lo") \o write_reg64_from("t1", "t1_hi", "t1_lo")
    \o read_reg64("t2", "t2_hi", "t2_lo") \o write_gpr("t2", "abcd") \o read_gpr("t2", "val")
    \o write_reg64_from("t2", "t2_hi", "t2_lo") \o read_abstractcs("err")
    \o Check("val", [v |-> {"abcd"}]) \o is_err("err", {0})

cmd_outcome ==
    Script("main", {"t0_hi", "t0_lo", "t1_hi", "t1_lo"},
      <<Step("Activate", activate), Step("Halt", halt), Step("Load the delay loop", setup), Step("TC-PB-010", tc_pb_010),
        Step("TC-PB-011", tc_pb_011), Step("TC-PB-012", tc_pb_012), Step("TC-AC-030", tc_ac_030), Step("TC-AC-031", tc_ac_031),
        Step("TC-AC-032", tc_ac_032), Step("TC-AC-033", tc_ac_033), Step("TC-AC-034", tc_ac_034), Step("TC-AC-035", tc_ac_035),
        Step("Restore", restore)>>)

-----------------------------------------------------------------------------
(* dm_corners_sequence.py *)

UndecodedAddr == 140
AbstractAddr == 145

tc_dmc_001 ==
    LET one == read_dmstatus("s") \o Check("s", [readable |-> T, allnonexistent |-> T])
    IN select_hart(1) \o TryFinally(one \o one \o one, select_hart(0)) \o is_halted("s") \o Check("s", [allhalted |-> T])

tc_dmc_002 ==
    write_mem32(UndecodedAddr, "0") \o read_mem32(FlagsAddr, "mine") \o read_mem32(FlagsAddr + 2, "other")
    \o read_mem32(WheretoAddr, "idle") \o resume \o raw_dmcontrol([dmactive |-> TRUE, resumereq |-> TRUE])
    \o read_mem32(WheretoAddr, "going") \o raw_dmcontrol([dmactive |-> TRUE]) \o halt
    \o Check("mine", [v |-> {"0"}]) \o Check("other", [v |-> {"0"}]) \o Check("going", [v |-> {"resume"}])

dmc_sba_read64(a, hi, lo) == sbaddress(a) \o wait_sbus \o Read("sbdata1", hi) \o Read("sbdata0", lo)
dmc_abstract(k, x) == command(k) \o poll_until("abstractcs", [busy |-> F]) \o read_abstractcs(x) \o clear_cmderr

tc_dmc_005 ==
    Write("abstractcs", "ones") \o read_abstractcs("x") \o Write("abstractcs", "0")
    \o Write("abstractauto", "ones") \o Read("abstractauto", "auto") \o Write("abstractauto", "0")
    \o Check("auto", [v |-> {"mask"}]) \o dmc_abstract(Neither, "x")

tc_dmc_007 ==
    sbcs([readonaddr |-> TRUE, readondata |-> TRUE, autoincrement |-> TRUE, access |-> 7, clearerror |-> TRUE,
          clearbusyerror |-> TRUE, reserved |-> TRUE])
    \o Read("sbcs", "v") \o sbcs([readonaddr |-> TRUE, access |-> 2]) \o Check("v", [reserved |-> F])

tc_dmc_008 ==
    LET level(reg) == Read(reg, "sum") \o Check("sum", [v |-> {"0", "some"}])
    IN read_haltsum0("x") \o level("haltsum1") \o level("haltsum2") \o level("haltsum3")

tc_dmc_006 ==
    LET both(s) == Check("hi", [v |-> {s}]) \o Check("lo", [v |-> {s}])
        pattern(s) == sbcs([access |-> 3]) \o sbaddress(ScratchAddr) \o Write("sbdata1", s) \o Write("sbdata0", s) \o wait_sbus
                      \o sbcs([access |-> 3, readonaddr |-> TRUE]) \o dmc_sba_read64(ScratchAddr, "hi", "lo") \o both(s)
        buffer(s) == Fill(0, 7, s) \o FlattenSeq([i \in 1 .. 4 |-> dmc_sba_read64(ProgbufAddr + 2 * (i - 1), "hi", "lo") \o both(s)])
        gpr(s) == Write("data0", s) \o Write("data1", s) \o dmc_abstract(AccessRegister("t0", 3, TRUE), "w")
                  \o dmc_abstract(AccessRegister("t0", 3, FALSE), "r") \o Read("data1", "hi") \o Read("data0", "lo")
                  \o is_err("w", {0}) \o is_err("r", {0}) \o both(s)
    IN Read("sbcs", "v") \o If("v", [sbaccess64 |-> F], Return, Nothing)
       \o sbcs([access |-> 3]) \o Write("sbaddress1", "ones") \o Write("sbaddress1", "0") \o sbaddress(ScratchAddr)
       \o pattern("ones") \o pattern("0") \o dmc_sba_read64(MisalignedAddr, "x", "x") \o buffer("ones") \o buffer("0")
       \o Fill(0, 7, "ebreak") \o dmc_sba_read64(RomAddr, "hi", "lo")
       \o Check("hi", [v |-> {"rom_hi"}]) \o Check("lo", [v |-> {"rom_lo"}]) \o dmc_sba_read64(AbstractAddr, "x", "x")
       \o Read("data1", "d1") \o Read("data0", "d0") \o dmc_sba_read64(DataAddr, "hi", "lo")
       \o Same("d1", "hi", {"v"}) \o Same("d0", "lo", {"v"}) \o gpr("ones") \o gpr("0")

tc_dmc_009 ==
    Write("sbdata1", "0") \o write_mem32(HartSlotAddr, "1") \o write_mem32(HartSlotAddr + 2, "1")
    \o raw_dmcontrol([dmactive |-> TRUE, hartsel |-> 1]) \o raw_dmcontrol([dmactive |-> TRUE, hartsel |-> 1, resumereq |-> TRUE])
    \o raw_dmcontrol([dmactive |-> TRUE, hartsel |-> 1]) \o select_hart(0) \o is_halted("s") \o Check("s", [allhalted |-> T])

tc_dmc_010 ==
    LET walk(reg) == dmc_abstract(AccessRegister(reg, 2, FALSE), "r2") \o dmc_abstract(AccessRegister(reg, 3, FALSE), "r3")
                     \o dmc_abstract(AccessRegister(reg, 3, TRUE), "w3")
        gpr(reg) == walk(reg) \o is_err("r2", {0}) \o is_err("r3", {0}) \o is_err("w3", {0})
    IN walk("none") \o walk("mie") \o gpr("t1") \o gpr("s0") \o walk("fpr")
       \o dmc_abstract(AccessRegister("t0", 4, FALSE), "odd") \o write_progbuf(0, "ebreak")
       \o dmc_abstract([AccessRegister("t0", 3, FALSE) EXCEPT !.postexec = TRUE], "post")
       \o is_err("odd", {CmderrNotSupported}) \o is_err("post", {0}) \o is_halted("s") \o Check("s", [allhalted |-> T])

tc_dmc_003 ==
    resume \o sbcs([readonaddr |-> TRUE, access |-> 2]) \o ndmreset(TRUE) \o sbaddress(StallAddr) \o Read("sbcs", "during")
    \o sbcs([readonaddr |-> TRUE, access |-> 2]) \o Read("sbdata1", "x") \o Write("sbaddress1", "0") \o Write("sbdata1", "0")
    \o Read("sbcs", "after") \o Check("during", [busy |-> T]) \o Check("after", [busyerror |-> T])

(* busy_now is read before the write that it predicts the outcome of. *)
tc_dmc_004 ==
    ndmreset(FALSE) \o ackhavereset \o Read("sbcs", "now") \o read_abstractcs("x")
    \o sbcs([clearbusyerror |-> TRUE, clearerror |-> TRUE, readonaddr |-> TRUE, access |-> 2]) \o Read("sbcs", "after")
    \o If("now", [busy |-> T], Check("after", [busyerror |-> T]), Check("after", [busyerror |-> F]))
    \o deactivate \o read_abstractcs("x") \o Read("sbcs", "x") \o activate \o Read("sbcs", "reset") \o halt
    \o Check("reset", [busyerror |-> F]) \o is_halted("s") \o Check("s", [allhalted |-> T])

dm_corners ==
    Script("main", {},
      <<Step("Activate", activate), Step("Halt", halt), Step("TC-DMC-002", tc_dmc_002), Step("TC-DMC-005", tc_dmc_005),
        Step("TC-DMC-007", tc_dmc_007), Step("TC-DMC-008", tc_dmc_008), Step("TC-DMC-006", tc_dmc_006),
        Step("TC-DMC-010", tc_dmc_010), Step("TC-DMC-003", tc_dmc_003), Step("TC-DMC-004", tc_dmc_004),
        Step("TC-DMC-001", tc_dmc_001), Step("TC-DMC-009", tc_dmc_009)>>)

-----------------------------------------------------------------------------
(* gpr_write_sequence.py, csr_access_sequence.py, halt_sequence.py *)

tc_ac_002_roundtrip == write_gpr("t0", "pattern") \o read_gpr("t0", "v") \o Check("v", [v |-> {"pattern"}])
tc_ac_002_x0 == write_gpr("x0", "ones") \o read_gpr("x0", "v") \o Check("v", [v |-> {"0"}])

gpr_write ==
    Script("main", {}, <<Step("Activate", activate), Step("Halt", halt), Step("TC-AC-002", tc_ac_002_roundtrip),
                         Step("TC-AC-002 x0", tc_ac_002_x0)>>)

tc_ac_005 ==
    write_gpr("dscratch0", "p0") \o read_abstractcs("acs") \o If("acs", [cmderr |-> {CmderrNotSupported}], Return, Nothing)
    \o read_gpr("dscratch0", "v") \o Check("v", [v |-> {"p0"}])

ReadScratches == read_gpr("dscratch0", "r0") \o read_gpr("dscratch1", "r1")
WriteScratches == write_gpr("dscratch0", "p0") \o write_gpr("dscratch1", "p1")
Kept == Check("r0", [v |-> {"p0"}]) \o Check("r1", [v |-> {"p1"}])

tc_dcsr_003a == WriteScratches \o ReadScratches \o Kept
tc_dcsr_003b ==
    read_hartinfo("info") \o WriteScratches \o resume \o halt \o ReadScratches \o read_abstractcs("acs")
    \o is_err("acs", {0}) \o If("info", [nscratch |-> {0}], Kept, Nothing)

csr_access ==
    Script("main", {}, <<Step("Activate", activate), Step("Halt", halt), Step("TC-AC-005", tc_ac_005),
                         Step("TC-DCSR-003 held", tc_dcsr_003a), Step("TC-DCSR-003 resume", tc_dcsr_003b)>>)

(* The one script that stops at the first error. *)
halt_script ==
    StoppingScript("main", {},
      <<Step("Activate", activate), Step("Halt", halt), Step("Verify", is_halted("s") \o Check("s", [allhalted |-> T])),
        Step("Read PC", get_pc("pc")), Step("Read ra", read_gpr("s0", "v")), Step("Read sp", read_gpr("a0", "v")),
        Step("Read memory", read_mem32(0, "v")), Step("Resume", resume \o is_running("s") \o Check("s", [allrunning |-> T]))>>)

-----------------------------------------------------------------------------
(* program_buffer_sequence.py, sw_breakpoint_progbuf_sequence.py *)

TooSmall == If("acs", [progbufsize |-> {0, 1}], Return, Nothing)

tc_pb_001(readable) ==
    TooSmall \o write_progbuf(0, "addi_x5") \o write_progbuf(1, "ebreak") \o read_progbuf(0, "r0") \o read_progbuf(1, "r1")
    \o Check("r0", [v |-> {IF readable THEN "addi_x5" ELSE "0"}]) \o Check("r1", [v |-> {IF readable THEN "ebreak" ELSE "0"}])

tc_pb_002 ==
    TooSmall \o read_progbuf(1, "before") \o write_progbuf(0, "junk") \o read_progbuf(1, "after") \o Same("before", "after", {"v"})

tc_pb_003 ==
    TooSmall \o write_gpr("t0", "0") \o write_progbuf(0, "addi_x5") \o write_progbuf(1, "ebreak") \o execute_progbuf
    \o read_gpr("t0", "v") \o Check("v", [v |-> {"1"}])

program_buffer(readable) ==
    Script("main", {"acs"},
      <<Step("Activate", activate), Step("Halt", halt), Step("TC-AC-013", read_abstractcs("acs")),
        Step("TC-PB-001", tc_pb_001(readable)), Step("TC-PB-002", tc_pb_002), Step("TC-PB-003", tc_pb_003)>>)

halt_and_record_cause == halt \o get_dcsr_cause("c") \o Check("c", [cause |-> {"haltreq"}])
tc_pb_ebreak_on_halted ==
    read_abstractcs("acs") \o If("acs", [progbufsize |-> {0}], Return, Nothing) \o get_dcsr_cause("before")
    \o write_progbuf(0, "ebreak") \o execute_progbuf \o get_dcsr_cause("after") \o is_halted("s") \o Check("s", [allhalted |-> T])

sw_breakpoint_progbuf ==
    Script("main", {}, <<Step("Activate", activate), Step("Halt and record cause", halt_and_record_cause),
                         Step("Execute a lone ebreak", tc_pb_ebreak_on_halted)>>)

-----------------------------------------------------------------------------
(* sba_sequence.py, mem_scan_sequence.py.  The stride is what sbaccess     *)
(* reads back, which a target may have hardwired.                          *)

SbaAddr == 0
words == <<"w0", "w1", "w2", "w3">>

tc_sba_001 == Read("sbcs", "v") \o Check("v", [access |-> 0 .. 7])
tc_sba_003_002 == write_mem32(SbaAddr, "pattern") \o read_mem32(SbaAddr, "v") \o Check("v", [v |-> {"pattern"}])

tc_sba_004 ==
    LET back(stride) == Check("end", [v |-> {SbaAddr + 4 * stride}])
                        \o FlattenSeq([i \in 1 .. 4 |-> read_mem32(SbaAddr + stride * (i - 1), "v") \o Check("v", [v |-> {words[i]}])])
    IN sbcs([access |-> 2, autoincrement |-> TRUE]) \o Read("sbcs", "stride") \o sbaddress(SbaAddr)
       \o FlattenSeq([i \in 1 .. 4 |-> Write("sbdata0", words[i]) \o wait_sbus]) \o Read("sbaddress0", "end")
       \o If("stride", [access |-> {3}], back(2), back(1))

tc_sba_005 ==
    sbcs([access |-> 2, autoincrement |-> TRUE, readonaddr |-> TRUE, readondata |-> TRUE]) \o sbaddress(SbaAddr) \o wait_sbus
    \o FlattenSeq([i \in 1 .. 3 |-> Read("sbdata0", "v") \o wait_sbus \o Check("v", [v |-> {words[i]}])]) \o sbcs([access |-> 2])

tc_sba_006 ==
    Write("sbaddress1", "0") \o Read("sbaddress1", "a") \o sbcs([access |-> 2]) \o Write("sbdata1", "0") \o Read("sbdata1", "d")
    \o Check("a", [v |-> {"0"}]) \o Check("d", [v |-> {"0"}])

(* _wait_sbus raises on the error this step is about, before it is cleared. *)
tc_sba_007 ==
    sbcs([readonaddr |-> TRUE, access |-> 2]) \o sbaddress(UnmappedAddr) \o wait_sbus \o Read("sbcs", "v")
    \o sbcs([clearerror |-> TRUE, access |-> 2]) \o Read("sbcs", "cleared") \o Check("cleared", [error |-> {0}])

tc_sba_009 ==
    sbcs([readonaddr |-> TRUE, access |-> 2]) \o sbaddress(SbaAddr) \o Read("sbdata0", "x") \o Write("sbdata0", "junk") \o wait_sbus
    \o Read("sbcs", "v") \o sbcs([clearbusyerror |-> TRUE, clearerror |-> TRUE, access |-> 2]) \o Read("sbcs", "after")
    \o Check("after", [busyerror |-> F]) \o read_mem32(SbaAddr, "x")

tc_sba_010 == resume \o read_mem32(SbaAddr, "v") \o halt

(* Each advertised width, on top of whatever sbcs reads: writing back an   *)
(* error that it shows clears it.                                          *)
tc_sba_019 ==
    LET width(code) == Read("sbcs", "base") \o Modify("base", [access |-> code, readonaddr |-> TRUE]) \o WriteFrom("sbcs", "base")
                       \o Read("sbcs", "got")
                       \o If("got", [access |-> {code}], sbaddress(SbaAddr) \o wait_sbus \o Read("sbdata0", "x"), Nothing)
    IN Read("sbcs", "v") \o width(0) \o width(1) \o width(2) \o If("v", [sbaccess64 |-> T], width(3), Nothing)
       \o Read("sbcs", "base") \o Modify("base", [access |-> 2]) \o WriteFrom("sbcs", "base")

sba ==
    Script("main", {},
      <<Step("Activate", activate), Step("Halt", halt), Step("TC-SBA-001", tc_sba_001), Step("TC-SBA-002/003", tc_sba_003_002),
        Step("TC-SBA-004", tc_sba_004), Step("TC-SBA-005", tc_sba_005), Step("TC-SBA-006", tc_sba_006), Step("TC-SBA-007", tc_sba_007),
        Step("TC-SBA-009", tc_sba_009), Step("TC-SBA-010", tc_sba_010), Step("TC-SBA-019", tc_sba_019)>>)

mem_scan ==
    Script("main", {}, <<Step("Activate", activate), Step("Halt", halt), Step("Read first", read_mem32(SbaAddr, "v")),
                         Step("Read second", read_mem32(SbaAddr + 1, "v") \o Check("v", [v |-> {"0"}]))>>)

-----------------------------------------------------------------------------
(* reset_values_sequence.py; declared is the DUT configuration it loads. *)

Zero(regs) == FlattenSeq([i \in DOMAIN regs |-> Read(regs[i], "word") \o Check("word", [v |-> {"0"}])])

dm_reset == raw_dmcontrol([dmactive |-> FALSE]) \o raw_dmcontrol([dmactive |-> TRUE])
rst_030 == read_dmcontrol("word") \o Check("word", [dmactive |-> T, hartsel |-> {0}, hasel |-> F, hartreset |-> F, ndmreset |-> F])
rst_032(declared) == read_hartinfo("word") \o Check("word", [nscratch |-> {declared.nscratch}])
rst_033(declared) == read_abstractcs("word") \o Check("word", [busy |-> F, cmderr |-> {0}, progbufsize |-> {declared.progbufsize}])
rst_034 == Zero(<<"command">>)
rst_035 == Zero(<<"abstractauto">>)
rst_036 == Zero(<<"data0", "data1">>)
rst_037 == Zero(ProgbufRegs)
rst_038(declared) ==
    Read("sbcs", "word")
    \o Check("word", [busy |-> F, busyerror |-> F, error |-> {0}, readonaddr |-> F, readondata |-> F, autoincrement |-> F,
                      access |-> {declared.sbaccess}, sbaccess64 |-> {declared.sbaccess64}])
rst_039 ==
    Read("sbaddress0", "addr") \o Check("addr", [v |-> {0}])
    \o Zero(<<"sbaddress1", "sbaddress2", "sbaddress3", "sbdata0", "sbdata1", "sbdata2", "sbdata3">>)
rst_040 == Zero(<<"haltsum0", "haltsum1", "haltsum2", "haltsum3">>)
rst_042 == Zero(<<"nextdm", "confstrptr0", "authdata">>)
rst_043 == dtmcs("word") \o Check("word", [dmistat |-> {0}])

reset_values(declared) ==
    Script("main", {},
      <<Step("Reset the Debug Module", dm_reset), Step("RST-030-C", rst_030), Step("RST-032-C", rst_032(declared)),
        Step("RST-033-C", rst_033(declared)), Step("RST-034-C", rst_034), Step("RST-035-C", rst_035), Step("RST-036-C", rst_036),
        Step("RST-037-C", rst_037), Step("RST-038-C", rst_038(declared)), Step("RST-039-C", rst_039), Step("RST-040-C", rst_040),
        Step("RST-042-C", rst_042), Step("RST-043-C", rst_043)>>)

-----------------------------------------------------------------------------
(* dmi_error_sequence.py, over the UVM transport, which has every raw      *)
(* access.  A raw DMI scan has no IR scan in front: a DMI read selects DMI *)
(* for it.                                                                 *)

Usable == read_dmstatus("s") \o Check("s", [version |-> {3}])

tc_dtm_010 == dtmcs("v") \o Check("v", [version |-> {1}])
tc_dtm_011 ==
    read_dmstatus("x") \o read_abstractcs("x") \o dtmcs("before") \o write_dtmcs("dmireset") \o dtmcs("after") \o Usable
    \o Check("after", [dmistat |-> {0}])

provoke_busy == read_dmstatus("x") \o dmi_scan_read("first") \o dmi_scan("busy") \o dmi_scan("sticky")

tc_dtm_012 ==
    provoke_busy \o dtmcs("before") \o write_dtmcs("dmihardreset") \o dtmcs("after") \o write_dtmcs("dmireset") \o read_dmcontrol("c")
    \o Check("before", [dmistat |-> {3}]) \o Check("after", [dmistat |-> {0}]) \o Check("c", [dmactive |-> T])

tc_dtm_002 ==
    jtag_scan(IR_IDCODE, 32, FALSE, "plain") \o jtag_scan(IR_IDCODE, 32, TRUE, "paused")
    \o Check("plain", [v |-> {"idcode"}]) \o Check("paused", [v |-> {"idcode"}])

tc_dtm_017 ==
    jtag_scan(IR_BYPASS0, 8, TRUE, "zeros") \o jtag_scan(IR_BYPASS1, 8, FALSE, "ones")
    \o Check("zeros", [v |-> {"bypass"}]) \o Check("ones", [v |-> {"bypass"}])

(* Mutant: the walk goes from Exit2-DR straight to Update-DR. *)
WalkSkipsShift == <<1, 0, 1, 0, 1, 1>> \o <<1>> \o <<1, 0, 1, 0, 1, 0>> \o <<0, 0, 0, 0, 1>> \o <<0, 1, 1>> \o <<1>>
                  \o <<0, 0, 1, 1>> \o <<0>>

TAP_WALK == <<1, 0, 1, 0, 1, 0, 1, 1>> \o <<1>> \o <<1, 0, 1, 0, 1, 0>> \o <<0, 0, 0, 0, 1>> \o <<0, 1, 1>> \o <<1>>
            \o <<0, 0, 1, 1>> \o <<0>>

tc_dtm_019 ==
    jtag_scan(IR_BYPASS1, 1, FALSE, "x") \o tms_walk(TAP_WALK) \o jtag_scan(IR_BYPASS1, 8, FALSE, "after") \o Usable
    \o Check("after", [v |-> {"bypass"}])

tc_dtm_018 == dtmcs("before") \o write_dtmcs("reserved") \o dtmcs("after") \o Same("before", "after", {"dmistat", "version"})
tc_dtm_013 == Read("unmapped", "x") \o Usable

tc_dtm_015 ==
    LET stuck(x) == Check(x, [dmistat |-> {3}])
    IN provoke_busy \o dmi_scan_read("on_read") \o dmi_scan("on_write") \o dtmcs("stat") \o write_dtmcs("dmireset") \o dtmcs("after")
       \o Usable \o Check("first", [dmistat |-> {0}]) \o stuck("busy") \o stuck("sticky") \o stuck("on_read") \o stuck("on_write")
       \o stuck("stat") \o Check("after", [dmistat |-> {0}])

tc_dtm_014 == tap_reset \o dtmcs("v") \o read_dmcontrol("c") \o Check("c", [dmactive |-> T])

dmi_error ==
    Script("main", {},
      <<Step("Activate", activate), Step("TC-DTM-010", tc_dtm_010), Step("TC-DTM-011", tc_dtm_011), Step("TC-DTM-012", tc_dtm_012),
        Step("TC-DTM-002", tc_dtm_002), Step("TC-DTM-017", tc_dtm_017), Step("TC-DTM-019", tc_dtm_019), Step("TC-DTM-018", tc_dtm_018),
        Step("TC-DTM-013", tc_dtm_013), Step("TC-DTM-015", tc_dtm_015), Step("TC-DTM-014", tc_dtm_014)>>)

Declared == [nscratch |-> 0, progbufsize |-> 8, sbaccess |-> 2, sbaccess64 |-> TRUE]

CommandScripts ==
    [cmderr |-> cmderr_script, cmd_busy |-> cmd_busy, cmd_outcome |-> cmd_outcome, dm_corners |-> dm_corners,
     gpr_write |-> gpr_write, csr_access |-> csr_access, halt |-> halt_script, program_buffer |-> program_buffer(TRUE),
     program_buffer_wo |-> program_buffer(FALSE), sw_breakpoint_progbuf |-> sw_breakpoint_progbuf, sba |-> sba,
     mem_scan |-> mem_scan, reset_values |-> reset_values(Declared), dmi_error |-> dmi_error]
=============================================================================
