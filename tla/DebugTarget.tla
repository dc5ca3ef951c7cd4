---------------------------- MODULE DebugTarget ----------------------------
(***************************************************************************)
(* The Debug Module, its harts and its debug transport, as the debug       *)
(* scripts of pydebug see them through the DMI.  The RTL is not in this    *)
(* repository: this is what riscv_dm.py and the sequences assume of it,    *)
(* and what predictor.py predicts, as operators on one record.             *)
(*   c   the configuration: optional features, answers the specification   *)
(*       leaves open, how fast the harts answer, one seeded defect or none *)
(*   d   the state: dmcontrol, one record per hart, the abstract-command   *)
(*       engine, the system bus and the DTM                                *)
(* A data word is a record: v for a plain value, the other fields for the  *)
(* fields of dcsr, so that every register holds values of one shape.       *)
(***************************************************************************)
EXTENDS Integers, Sequences, FiniteSets, TLC, JtagTap
LOCAL INSTANCE Functions
LOCAL INSTANCE SequencesExt

CONSTANT NumHarts
ASSUME NumHartsAssumption == NumHarts \in Nat \ {0}

Harts == 0 .. NumHarts - 1
Modes == {"M", "S", "U"}
CmderrBusy == 1
CmderrNotSupported == 2
CmderrException == 3
CmderrHaltResume == 4

Word(s) == [v |-> s, cause |-> "none", step |-> FALSE, stepie |-> FALSE, ebreak |-> {}, prv |-> "M"]
Reg(lo, hi) == [lo |-> Word(lo), hi |-> hi]

GprNames == {"x0", "t0", "t1", "t2", "s0", "a0"}
CsrNames == {"dcsr", "dpc", "dscratch0", "dscratch1", "mstatus", "mie", "mcause", "mepc", "sepc",
             "pmp", "misa", "tselect", "tinfo", "tdata1", "tdata2", "tdata3"}
TriggerCsrs == {"tselect", "tinfo", "tdata1", "tdata2"}

ProgbufRegs == <<"progbuf0", "progbuf1", "progbuf2", "progbuf3", "progbuf4", "progbuf5", "progbuf6", "progbuf7">>

(* System-bus addresses, in 32-bit words: RAM, and the Debug Module's own  *)
(* memory that the bus can reach.                                          *)
RamAddrs == 0 .. 11
ScratchAddr == 4
LoopAddr == 8
TohostAddr == 12
StallAddr == 3
UnmappedAddr == 99
FlagsAddr == 100
MisalignedAddr == 102      \* a byte address inside the word before it
WheretoAddr == 104
HartSlotAddr == 106
ProgbufAddr == 110
RomAddr == 120
DataAddr == 130

-----------------------------------------------------------------------------
(* The harts. *)

ResetHart(boot) ==
    [st |-> "running", rst |-> FALSE, haltreq |-> FALSE, resumereq |-> FALSE, ack |-> FALSE, havereset |-> FALSE,
     resethaltreq |-> FALSE, pc |-> boot, prv |-> "M", mpp |-> "M",
     regs |-> [r \in GprNames \cup CsrNames |->
                CASE r = "misa" -> Reg("rv64", "rv64") [] r \in {"t0", "t1", "t2"} -> Reg("own_lo", "own_hi")
                  [] OTHER -> Reg("0", "0")]]

EnterDebug(x, cause) ==
    [x EXCEPT !.st = "halted",
              !.regs["dcsr"].lo = [@ EXCEPT !.cause = cause, !.prv = x.prv],
              !.regs["dpc"] = Reg(x.pc, "0")]

LeaveDebug(x, c) ==
    [x EXCEPT !.st = "running", !.resumereq = FALSE, !.ack = TRUE,
              !.pc = x.regs["dpc"].lo.v, !.prv = x.regs["dcsr"].lo.prv,
              !.regs["dscratch0"] = IF c.nscratch > 0 THEN Reg("used", "0") ELSE @]

(* The programs the scripts run, reduced to the instructions they look at. *)
Succ == [main |-> "main", ebreak_park |-> "ebreak_park", cls_ebreak |-> "ebreak_park",
         trigger_lead |-> "cls_trigger_target", cls_trigger_target |-> "ebreak_park",
         step_loop |-> "step_loop4", step_loop4 |-> "step_loop8", step_loop8 |-> "step_loop",
         cls_sret |-> "sret_insn", sret_insn |-> "step_loop",
         trap_handler |-> "handler_mret", handler_mret |-> "step_loop",
         stall_loop |-> "wfi_insn", wfi_insn |-> "after_wfi", after_wfi |-> "stall_loop",
         priv_m |-> "priv_s", priv_s |-> "priv_u", priv_u |-> "priv_m",
         elf |-> "elf_done", elf_done |-> "elf_done", elf_hang |-> "elf_hang"]

Trap(x, cause, c) ==
    [x EXCEPT !.pc = IF c.defect = "RTL-010" /\ x.regs["dcsr"].lo.step THEN "handler_mret" ELSE "trap_handler",
              !.prv = "M", !.mpp = x.prv,
              !.regs["mcause"] = Reg(cause, "0"), !.regs["mepc"] = Reg(x.pc, "0")]

(* RTL-011: a stepped return from a trap keeps the privilege it had. *)
LosesReturn(x, c) == c.defect = "RTL-011" /\ x.regs["dcsr"].lo.step

Armed(x, c) == c.trig /\ x.regs["tdata1"].lo.v = "mcontrol6" /\ x.regs["tdata2"].lo.v = x.pc

(* One instruction of a running hart. *)
Execute(x, c) ==
    CASE Armed(x, c) -> EnterDebug(x, IF c.defect = "trigger_cause" THEN "haltreq" ELSE "trigger")
      [] x.pc = "cls_ebreak" -> IF x.prv \in x.regs["dcsr"].lo.ebreak \/ c.defect = "ebreak_always"
                                THEN EnterDebug(x, "ebreak") ELSE Trap(x, "breakpoint", c)
      [] x.pc = "step_loop" /\ x.prv = "U" -> Trap(x, "illegal", c)
      [] x.pc = "step_loop8" -> Trap(x, "illegal", c)
      [] x.pc = "cls_sret" -> [x EXCEPT !.pc = "sret_insn", !.regs["sepc"] = Reg("step_loop", "0")]
      [] x.pc = "trap_handler" -> [x EXCEPT !.pc = "handler_mret", !.regs["mepc"].lo.v = Succ[@]]
      [] x.pc = "handler_mret" -> [x EXCEPT !.pc = x.regs["mepc"].lo.v,
                                            !.prv = IF LosesReturn(x, c) THEN @ ELSE x.mpp]
      [] x.pc = "sret_insn" -> [x EXCEPT !.pc = x.regs["sepc"].lo.v, !.prv = "S"]
      [] x.pc = "wfi_insn" /\ ~x.regs["dcsr"].lo.step -> x
      [] x.pc = "elf" -> [x EXCEPT !.pc = IF c.defect = "program_hangs" THEN "elf_hang" ELSE "elf_done"]
      [] x.pc = "priv_m" -> [x EXCEPT !.pc = "priv_s", !.prv = IF LosesReturn(x, c) THEN @ ELSE "S"]
      [] x.pc = "priv_s" -> [x EXCEPT !.pc = "priv_u", !.prv = IF LosesReturn(x, c) THEN @ ELSE "U"]
      [] x.pc = "priv_u" -> [x EXCEPT !.pc = "priv_m", !.prv = "M"]
      [] OTHER -> [x EXCEPT !.pc = Succ[@]]

(* The next thing a hart does on its own; the same record when it has      *)
(* nothing to do.                                                          *)
HartStep(x, c) ==
    CASE x.st = "waking" /\ (x.haltreq \/ x.resethaltreq) -> EnterDebug(x, IF x.haltreq THEN "haltreq" ELSE "resethaltreq")
      [] x.st = "waking" -> [x EXCEPT !.st = "running"]
      [] x.st = "halted" /\ x.resumereq /\ ~x.rst -> LeaveDebug(x, c)
      [] x.st = "running" /\ x.haltreq -> EnterDebug(x, "haltreq")
      [] x.st = "running" /\ x.regs["dcsr"].lo.step ->
            IF c.defect = "wfi_stalls" /\ x.pc = "wfi_insn" THEN x
            ELSE LET y == Execute(x, c)
                 IN IF y.st = "halted" THEN y ELSE EnterDebug(y, IF c.defect = "step_cause" THEN "haltreq" ELSE "step")
      [] x.st = "running" -> Execute(x, c)
      [] OTHER -> x

-----------------------------------------------------------------------------
(* The abstract-command engine.  A command is accepted, refused or ignored *)
(* when command is written and takes effect when it completes.             *)

NoCommand == [type |-> "none", size |-> 2, reg |-> "x0", transfer |-> FALSE, write |-> FALSE, postexec |-> FALSE]

Refused(d) == [d EXCEPT !.abs.cmderr = IF @ = 0 THEN CmderrBusy ELSE @]

Supported(r, c) ==
    /\ r \in GprNames \cup CsrNames
    /\ r \in {"dscratch0", "dscratch1"} => c.dscratch
    /\ r \in TriggerCsrs => c.trig
    /\ r # "tdata3"

BadSize(k, c) == k.size > 3 \/ (k.size = 3 /\ ~c.xlen64)

JumpsToLoop(d) ==
    /\ d.abs.pb["progbuf0"] = "jr_t1" /\ d.hart[d.hartsel].regs["t1"].lo.v = "loop"
    /\ d.mem[LoopAddr] = "li_400" /\ d.mem[LoopAddr + 3] = "ebreak"

(* The delay loop, in the Program Buffer or in RAM behind jr t1: it is the *)
(* one command that certainly outlives the next DMI accesses.              *)
IsLong(d, k) ==
    /\ k.postexec
    /\ \/ d.abs.pb["progbuf0"] = "li_400"
       \/ JumpsToLoop(d)

StartCommand(d, k, c) ==
    LET h == d.hartsel
        err(n) == [d EXCEPT !.abs.cmderr = n]
    IN CASE d.abs.busy -> Refused(d)
         [] d.abs.cmderr # 0 -> d
         [] k.type # "register" -> err(IF k.type = "reserved" THEN c.reserved ELSE CmderrNotSupported)
         [] BadSize(k, c) /\ (k.transfer \/ c.defect = "riscv-dbg#32") -> err(CmderrNotSupported)
         [] h \notin Harts \/ d.hart[h].st # "halted" ->
               IF k.transfer \/ k.postexec THEN err(CmderrHaltResume) ELSE err(c.noop)
         [] OTHER -> [d EXCEPT !.abs.busy = TRUE, !.abs.cmd = k, !.abs.long = IsLong(d, k)]

(* Running the Program Buffer: the error it ends with. *)
ProgbufError(d) ==
    CASE d.abs.pb["progbuf0"] \in {"ebreak", "nop", "addi_x5", "li_400"} -> 0
      [] JumpsToLoop(d) -> 0
      [] OTHER -> CmderrException

(* What the Program Buffer does to t0 (x5). *)
ProgbufT0(d, v) ==
    CASE d.abs.pb["progbuf0"] \in {"li_400", "jr_t1"} -> "0"
      [] d.abs.pb["progbuf0"] = "addi_x5" -> IF v = "0" THEN "1" ELSE "more"
      [] OTHER -> v

CompleteCommand(d, c) ==
    LET k == d.abs.cmd
        x == d.hart[d.hartsel].regs
        bad == k.transfer /\ ~Supported(k.reg, c)
        err == IF bad THEN c.badreg ELSE IF k.postexec THEN ProgbufError(d) ELSE 0
        wrote == IF k.transfer /\ k.write /\ ~bad /\ k.reg # "x0"
                 THEN [x EXCEPT ![k.reg] = [lo |-> d.abs.data0, hi |-> IF k.size = 3 THEN d.abs.data1 ELSE "sext"]] ELSE x
        ran == IF k.postexec /\ ~bad THEN [wrote EXCEPT !["t0"].lo.v = ProgbufT0(d, @)] ELSE wrote
        got == k.transfer /\ ~k.write /\ ~bad
    IN [d EXCEPT !.abs = [@ EXCEPT !.busy = FALSE, !.long = FALSE, !.cmderr = IF @ = 0 THEN err ELSE @,
                                   !.data0 = IF got THEN x[k.reg].lo ELSE @,
                                   !.data1 = IF got /\ k.size = 3 THEN x[k.reg].hi ELSE @],
                 !.hart[d.hartsel].regs = IF c.defect = "RTL-013" /\ k.write /\ k.reg = "tdata1" /\ d.abs.data0.v = "0" THEN x ELSE ran]

-----------------------------------------------------------------------------
(* The system bus. *)

SbReset(c) == [busy |-> FALSE, busyerror |-> FALSE, error |-> 0, readonaddr |-> FALSE, readondata |-> FALSE,
            autoincrement |-> FALSE, access |-> IF c.sbfixed THEN 3 ELSE 2, addr |-> 0,
               data0 |-> "0", data1 |-> "0", op |-> "none", stray |-> FALSE, lost |-> FALSE]

(* One 32-bit word as the bus reads it. *)
BusWord(d, a, c) ==
    CASE a \in RamAddrs -> d.mem[a]
      [] a = WheretoAddr -> d.whereto
      [] a = TohostAddr -> IF d.hart[0].pc = "elf_done" THEN (IF c.defect = "program_fails" THEN "fail" ELSE "pass") ELSE "0"
      [] a \in ProgbufAddr .. ProgbufAddr + 7 -> d.abs.pb[ProgbufRegs[a - ProgbufAddr + 1]]
      [] a = RomAddr -> "rom_lo"
      [] a = RomAddr + 1 -> "rom_hi"
      [] a = DataAddr -> d.abs.data0.v
      [] a = DataAddr + 1 -> d.abs.data1
      [] OTHER -> "0"

StartBus(d, op, c) ==
    IF d.sb.busy THEN [d EXCEPT !.sb.busyerror = TRUE]
    ELSE IF d.sb.busyerror \/ d.sb.error # 0 THEN d
    ELSE [d EXCEPT !.sb.busy = TRUE, !.sb.op = op, !.sb.lost = (c.loses /\ d.ndmreset)]

CompleteBus(d, c) ==
    LET a == d.sb.addr
        wide == d.sb.access = 3
        error == CASE a = UnmappedAddr /\ c.sberr -> 2 [] a = MisalignedAddr /\ wide /\ c.sbalign -> 3 [] OTHER -> 0
        fault == error # 0
        stored == IF d.sb.op = "write" /\ a \in RamAddrs
                  THEN IF wide /\ a + 1 \in RamAddrs THEN [d.mem EXCEPT ![a] = d.sb.data0, ![a + 1] = d.sb.data1]
                               ELSE [d.mem EXCEPT ![a] = d.sb.data0]
                  ELSE d.mem
    IN [d EXCEPT !.mem = stored,
                 !.sb = [@ EXCEPT !.busy = FALSE, !.op = "none", !.error = IF fault THEN error ELSE @,
                                  !.data0 = IF d.sb.op = "read" /\ ~fault THEN BusWord(d, a, c) ELSE @,
                                  !.data1 = IF d.sb.op = "read" /\ ~fault /\ wide THEN BusWord(d, a + 1, c) ELSE @,
                                  !.addr = IF d.sb.autoincrement /\ ~fault THEN a + (IF wide THEN 2 ELSE 1) ELSE a]]

(* The bus answers unless the reset the debugger holds has stopped it; an  *)
(* access started in that reset may be lost for good.                      *)
BusAnswers(d) == d.sb.busy /\ ~d.ndmreset /\ ~d.sb.lost
CommandAnswers(d) == d.abs.busy /\ ~d.abs.long

-----------------------------------------------------------------------------
(* dmcontrol. *)

ZeroControl == [dmactive |-> FALSE, hartsel |-> 0, hasel |-> FALSE, haltreq |-> FALSE, resumereq |-> FALSE,
                ackhavereset |-> FALSE, ackunavail |-> FALSE, hartreset |-> FALSE, ndmreset |-> FALSE,
                setresethaltreq |-> FALSE, clrresethaltreq |-> FALSE, setkeepalive |-> FALSE, clrkeepalive |-> FALSE]

Selected(d) == ({d.hartsel} \cup IF d.hasel THEN d.mask ELSE {}) \cap Harts

(* What one dmcontrol write f does to hart h; sel says whether it is       *)
(* selected by that write, reset whether it holds the hart in reset.  A    *)
(* hart that was halted may be reported halted through the reset and after *)
(* it (c.keeps), as both designs under test do.                            *)
ControlHart(x, f, sel, reset, c) ==
    LET a == [x EXCEPT !.haltreq = IF sel THEN f.haltreq /\ ~(c.defect = "resume_wins" /\ f.resumereq) ELSE @,
                       !.havereset = (@ /\ ~(sel /\ f.ackhavereset /\ c.defect # "sticky_havereset")),
                       !.resethaltreq = (IF c.resethaltreq /\ sel /\ (f.setresethaltreq \/ f.clrresethaltreq)
                                         THEN f.setresethaltreq ELSE @),
                       !.ack = IF sel /\ f.resumereq /\ ~f.haltreq
                               THEN c.defect = "acks_in_reset" /\ x.st = "reset" ELSE @,
                       !.resumereq = @ \/ (sel /\ f.resumereq /\ ~f.haltreq /\ x.st = "halted")]
        b == [a EXCEPT !.rst = TRUE, !.havereset = TRUE, !.resumereq = FALSE, !.regs = ResetHart(x.pc).regs, !.prv = "M"]
    IN CASE reset /\ ~x.rst -> IF c.keeps /\ x.st = "halted" THEN EnterDebug(b, "haltreq") ELSE [b EXCEPT !.st = "reset"]
         [] ~reset /\ x.rst -> [a EXCEPT !.rst = FALSE, !.st = IF @ = "reset" THEN "waking" ELSE @,
                                          !.haltreq = (@ /\ c.defect # "forgets_haltreq")]
         [] OTHER -> IF c.defect = "halts_in_reset" /\ x.st = "reset" /\ a.haltreq THEN [a EXCEPT !.st = "halted"] ELSE a

WriteControl(d, f, c) ==
    LET hasel == f.hasel /\ c.hasel
        sel == {f.hartsel} \cup (IF hasel THEN d.mask ELSE {})
        hartreset == f.hartreset /\ c.hartreset
        inreset(h) == f.ndmreset \/ (hartreset /\ h \in sel)
        spread(h) == h \in sel \/ (c.defect = "resethaltreq_all" /\ f.setresethaltreq)
    IN [d EXCEPT !.hartsel = f.hartsel, !.hasel = hasel, !.ndmreset = f.ndmreset, !.hartreset = hartreset,
                 !.whereto = IF f.resumereq THEN "resume" ELSE "0",
                 !.hart = [h \in Harts |-> ControlHart(d.hart[h], f, spread(h), inreset(h), c)]]

AbsReset == [busy |-> FALSE, long |-> FALSE, cmderr |-> 0, auto |-> "0", autoran |-> FALSE, cmd |-> NoCommand,
             data0 |-> Word("0"), data1 |-> "0", pb |-> [r \in Range(ProgbufRegs) |-> "0"]]

(* dmactive=0 resets the module; the harts keep what they are doing, less  *)
(* the requests the module held for them.                                  *)
Deactivated(d, c) ==
    [d EXCEPT !.dmactive = FALSE, !.hartsel = 0, !.hasel = FALSE, !.mask = {}, !.ndmreset = FALSE, !.hartreset = FALSE,
              !.whereto = "0", !.abs = AbsReset,
              !.sb = [SbReset(c) EXCEPT !.busy = d.sb.lost, !.lost = d.sb.lost],
              !.hart = [h \in Harts |-> [d.hart[h] EXCEPT !.haltreq = FALSE, !.resumereq = FALSE, !.resethaltreq = FALSE, !.rst = FALSE,
                                                          !.st = IF @ = "reset" THEN "waking" ELSE @]]]

(* dmactive takes the value written to it. *)
Activated(d, c) == IF d.want THEN [d EXCEPT !.dmactive = TRUE] ELSE Deactivated(d, c)

TargetInit(boot, c) ==
    [dmactive |-> FALSE, want |-> FALSE, hartsel |-> 0, hasel |-> FALSE, mask |-> {}, ndmreset |-> FALSE, hartreset |-> FALSE,
     whereto |-> "0", hart |-> [h \in Harts |-> ResetHart(boot)], abs |-> AbsReset, sb |-> SbReset(c),
     mem |-> [a \in RamAddrs |-> "0"], dtm |-> [stat |-> 0, inflight |-> FALSE, tap |-> TapInit]]

-----------------------------------------------------------------------------
(* DMI reads. *)

DmstatusValue(d, c) ==
    LET S == IF d.dmactive THEN Selected(d) ELSE {}
        any(P(_)) == \E h \in S : P(d.hart[h])
        all(P(_)) == S # {} /\ d.hartsel \in Harts /\ \A h \in S : P(d.hart[h])
        halted(x) == x.st = "halted"
        running(x) == x.st \in {"running", "waking"} \/ (x.st = "reset" /\ c.resetruns)
        ack(x) == x.ack
        havereset(x) == x.havereset
    IN [anyhalted |-> any(halted), allhalted |-> all(halted), anyrunning |-> any(running), allrunning |-> all(running),
        anyresumeack |-> any(ack), allresumeack |-> all(ack), anyhavereset |-> any(havereset), allhavereset |-> all(havereset),
        anynonexistent |-> d.hartsel \notin Harts, allnonexistent |-> d.hartsel \notin Harts,
        readable |-> ~(c.defect = "RTL-008" /\ d.hartsel \notin Harts),
        hasresethaltreq |-> c.resethaltreq, version |-> IF d.dmactive THEN 3 ELSE 0]

HaltedHarts(d) == {h \in Harts : d.hart[h].st = "halted"}

(* The value a DMI read of reg returns, as a record. *)
ReadValue(d, reg, c) ==
    CASE reg = "dmstatus" -> DmstatusValue(d, c)
      [] reg = "dmcontrol" -> [dmactive |-> d.dmactive, hartsel |-> d.hartsel, hasel |-> d.hasel,
                               hartreset |-> d.hartreset, ndmreset |-> d.ndmreset]
      [] reg = "haltsum0" -> [halted |-> HaltedHarts(d), v |-> IF HaltedHarts(d) = {} THEN "0" ELSE "some"]
      [] reg = "haltsum1" -> [v |-> IF c.defect = "RTL-007" THEN "unknown" ELSE "0"]
      [] reg = "hartinfo" -> [nscratch |-> c.nscratch, v |-> "hartinfo"]
      [] reg = "abstractcs" -> [busy |-> d.abs.busy, cmderr |-> d.abs.cmderr, progbufsize |-> c.progbufsize]
      [] reg = "abstractauto" -> [v |-> d.abs.auto]
      [] reg = "data0" -> d.abs.data0
      [] reg = "data1" -> [v |-> d.abs.data1]
      [] reg \in Range(ProgbufRegs) -> [v |-> IF c.readable THEN d.abs.pb[reg] ELSE "0"]
      [] reg = "sbcs" -> [busy |-> d.sb.busy, busyerror |-> d.sb.busyerror, error |-> d.sb.error,
                          access |-> d.sb.access, readonaddr |-> d.sb.readonaddr, readondata |-> d.sb.readondata,
                          autoincrement |-> d.sb.autoincrement, reserved |-> d.sb.stray, sbaccess64 |-> c.sb64,
                          clearerror |-> d.sb.error # 0, clearbusyerror |-> d.sb.busyerror]
      [] reg = "sbaddress0" -> [v |-> d.sb.addr]
      [] reg = "sbdata0" -> [v |-> d.sb.data0]
      [] reg = "sbdata1" -> [v |-> d.sb.data1]
      [] reg = "dtmcs" -> [dmistat |-> d.dtm.stat, version |-> 1]
      [] reg \in {"scan_read", "scan_nop"} -> [dmistat |-> IF d.dtm.inflight THEN 3 ELSE d.dtm.stat]
      [] reg = "dr" -> [v |-> IF d.dtm.tap.state # "RunTestIdle" THEN "garbage" ELSE d.dtm.tap.ir]
      [] OTHER -> [v |-> "0"]

(* A scan of the DTM goes through the instruction it needs; a raw DMI scan *)
(* relies on the one selected.                                             *)
Scanned(d, reg) ==
    CASE reg \in {"scan_read", "scan_nop", "tap", "dr"} -> d
      [] OTHER -> [d EXCEPT !.dtm.inflight = FALSE, !.dtm.tap.ir = IF reg = "dtmcs" THEN "dtmcs" ELSE "dmi"]

(* What the read itself changes. *)
ReadEffect(d, reg, c) ==
    CASE reg \in {"data0", "data1"} \cup Range(ProgbufRegs) /\ d.abs.busy -> Refused(d)
      [] reg = "data0" -> [d EXCEPT !.abs.autoran = @ \/ d.abs.auto # "0"]
      [] reg = "abstractcs" -> [d EXCEPT !.abs.long = FALSE]
      [] reg = "sbdata0" /\ (d.sb.busy \/ d.sb.readondata) -> StartBus(d, "read", c)
      [] reg = "sbdata1" /\ d.sb.busy -> [d EXCEPT !.sb.busyerror = TRUE]
      [] reg \in {"scan_read", "scan_nop"} ->
            [d EXCEPT !.dtm = [@ EXCEPT !.stat = IF d.dtm.inflight THEN 3 ELSE @,
                                        !.inflight = (reg = "scan_read" /\ d.dtm.tap.ir = "dmi" /\ d.dtm.stat = 0 /\ ~@)]]
      [] OTHER -> d

-----------------------------------------------------------------------------
(* DMI writes. *)

ZeroSbcs == [readonaddr |-> FALSE, readondata |-> FALSE, autoincrement |-> FALSE, access |-> 0,
             clearerror |-> FALSE, clearbusyerror |-> FALSE, reserved |-> FALSE]

WriteSbcs(d, v, c) ==
    [d EXCEPT !.sb = [@ EXCEPT !.busyerror = (IF d.sb.busy THEN TRUE ELSE @ /\ ~v.clearbusyerror),
                               !.error = IF v.clearerror THEN 0 ELSE @,
                               !.readonaddr = v.readonaddr, !.readondata = v.readondata,
                               !.autoincrement = v.autoincrement,
                               !.access = IF c.sbfixed THEN 3 ELSE v.access,
                               !.stray = c.defect = "RTL-006" /\ v.reserved]]

WriteAbstract(d, reg, v, c) ==
    CASE reg = "command" -> StartCommand(d, v, c)
      [] d.abs.busy -> Refused(d)
      [] reg = "abstractcs" -> IF v.v = "0" THEN d ELSE [d EXCEPT !.abs.cmderr = 0]
      [] reg = "abstractauto" -> [d EXCEPT !.abs.auto = IF v.v = "ones" THEN "mask" ELSE v.v]
      [] reg = "data0" -> [d EXCEPT !.abs.data0 = v, !.abs.autoran = @ \/ d.abs.auto # "0"]
      [] reg = "data1" -> [d EXCEPT !.abs.data1 = v.v]
      [] \E i \in 1 .. c.progbufsize : reg = ProgbufRegs[i] -> [d EXCEPT !.abs.pb[reg] = v.v]
      [] OTHER -> d

WriteReg(d, reg, v, c) ==
    CASE reg = "dtmcs" -> IF v.v = "dmireset" \/ (v.v = "dmihardreset" /\ c.defect # "RTL-009")
                          THEN [d EXCEPT !.dtm = [@ EXCEPT !.stat = 0, !.inflight = FALSE]] ELSE d
      [] reg = "tap" -> [d EXCEPT !.dtm.tap = drive_bit(@, v)]
      [] reg = "dmcontrol" /\ v.dmactive # d.dmactive ->
            IF c.lazydm THEN [d EXCEPT !.want = v.dmactive] ELSE Activated([d EXCEPT !.want = v.dmactive], c)
      [] reg = "dmcontrol" -> WriteControl(d, v, c)
      [] ~d.dmactive -> d
      [] reg = "hawindow" -> [d EXCEPT !.mask = IF c.hasel THEN {0} ELSE {}]
      [] reg \in {"command", "abstractcs", "abstractauto", "data0", "data1"} \cup Range(ProgbufRegs) -> WriteAbstract(d, reg, v, c)
      [] reg = "sbcs" -> WriteSbcs(d, v, c)
      [] reg \in {"sbaddress0", "sbaddress1", "sbdata1"} /\ d.sb.busy -> [d EXCEPT !.sb.busyerror = TRUE]
      [] reg = "sbaddress0" -> LET e == [d EXCEPT !.sb.addr = v.v] IN IF d.sb.readonaddr THEN StartBus(e, "read", c) ELSE e
      [] reg = "sbdata1" -> [d EXCEPT !.sb.data1 = v.v]
      [] reg = "sbdata0" -> StartBus(IF d.sb.busy THEN d ELSE [d EXCEPT !.sb.data0 = v.v], "write", c)
      [] OTHER -> d

(* A hart has nothing under way, or only goes round in its program. *)
Loops == {"step_loop", "step_loop4", "step_loop8", "trap_handler", "handler_mret", "priv_m", "priv_s", "priv_u"}
Idle(x, c) ==
    \/ HartStep(x, c) = x
    \/ x.st = "running" /\ ~x.haltreq /\ ~x.regs["dcsr"].lo.step /\ x.pc \in Loops

(* A hart that was asked to resume is still in Debug Mode. *)
Leaving(d) == \E h \in Harts : d.hart[h].st = "halted" /\ d.hart[h].resumereq

(* Nothing that was asked of the target is outstanding. *)
Quiet(d, c) ==
    /\ \A h \in Harts : Idle(d.hart[h], c)
    /\ ~CommandAnswers(d) /\ ~BusAnswers(d) /\ d.want = d.dmactive
=============================================================================
