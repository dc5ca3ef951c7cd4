------------------------------ MODULE RiscvDm ------------------------------
(***************************************************************************)
(* The debug command library (api/riscv_dm.py, sequences/hart_control.py): *)
(* each method as the sequence of DMI accesses and decisions it makes.     *)
(* Python's statements become instructions, data that the interpreter of   *)
(* module Scenario carries out one at a time against the target:           *)
(*   write, control   a DMI write; control is a write of dmcontrol         *)
(*   read             a DMI read into a variable                           *)
(*   poll             read until a condition holds, DebugError on timeout  *)
(*   wait             the same, giving False on timeout                    *)
(*   check, same, differ   the verdict of a StepResult                     *)
(*   if, ifsame, until, set, modify, mix, track, return, raise, endtry     *)
(* A condition maps fields to the sets of values they may have.            *)
(***************************************************************************)
EXTENDS DebugTarget

T == {TRUE}
F == {FALSE}
Nothing == <<>>

Write(reg, s) == <<[op |-> "write", reg |-> reg, val |-> Word(s)]>>
WriteRec(reg, r) == <<[op |-> "write", reg |-> reg, val |-> r]>>
WriteFrom(reg, x) == <<[op |-> "copy", reg |-> reg, from |-> x]>>
Read(reg, x) == <<[op |-> "read", reg |-> reg, to |-> x]>>
Check(x, want) == <<[op |-> "check", on |-> x, want |-> want]>>
Same(x, y, fields) == <<[op |-> "same", on |-> x, with |-> y, fields |-> fields]>>
If(x, want, then, else) == <<[op |-> "if", on |-> x, want |-> want, then |-> then, else |-> else]>>
Differ(xs, f) == <<[op |-> "differ", on |-> xs, field |-> f]>>
IfSame(x, y, fields, then, else) ==
    <<[op |-> "ifsame", on |-> x, with |-> y, fields |-> fields, then |-> then, else |-> else]>>
Until(x, want, body) == body \o <<[op |-> "until", on |-> x, want |-> want, body |-> body]>>
Mix(x, y, fields) == <<[op |-> "mix", to |-> x, from |-> y, fields |-> fields]>>
Set(x, r) == <<[op |-> "set", to |-> x, rec |-> r]>>
Modify(x, f) == <<[op |-> "modify", to |-> x, rec |-> f]>>
Track(h) == <<[op |-> "track", hart |-> h]>>
Return == <<[op |-> "return"]>>
Raise == <<[op |-> "raise"]>>
Fail == Set("no", [v |-> FALSE]) \o Check("no", [v |-> T]) \o Return
Try(body, handler) == body \o <<[op |-> "endtry", handler |-> handler]>>
TryFinally(body, final) == Try(body, final \o Raise) \o final
Wait(reg, want, x) == <<[op |-> "wait", reg |-> reg, want |-> want, to |-> x]>>

(* A script: its steps, the program its target boots, the variables that   *)
(* outlive a step, and DebugSession's stop_on_error.                       *)
Step(name, body) == [name |-> name, body |-> body]
Script(boot, keep, steps) == [boot |-> boot, keep |-> keep, steps |-> steps, stop |-> FALSE]
StoppingScript(boot, keep, steps) == [boot |-> boot, keep |-> keep, steps |-> steps, stop |-> TRUE]

-----------------------------------------------------------------------------
(* dmcontrol writes: with the hart the object tracks, a raw word, and a    *)
(* word built on one that was read.                                        *)
write_dmcontrol(f) == <<[op |-> "control", base |-> "tracked", rec |-> f]>>
raw_dmcontrol(f) == <<[op |-> "control", base |-> "zero", rec |-> f]>>
or_dmcontrol(x, f) == <<[op |-> "control", base |-> x, rec |-> f]>>

poll_until(reg, want) == <<[op |-> "poll", reg |-> reg, want |-> want, error |-> "none"]>>
wait_abstractcs == <<[op |-> "poll", reg |-> "abstractcs", want |-> [busy |-> F], error |-> "cmderr"]>>
wait_sbus == <<[op |-> "poll", reg |-> "sbcs", want |-> [busy |-> F], error |-> "error"]>>

activate ==
    Track(0) \o raw_dmcontrol([dmactive |-> TRUE, ackhavereset |-> TRUE])
    \o Read("dmstatus", "status") \o If("status", [version |-> {0}], Raise, Nothing)

deactivate == raw_dmcontrol([dmactive |-> FALSE]) \o Track(0)

select_hart(h) == Track(h) \o write_dmcontrol([dmactive |-> TRUE])

(* Mutant: the request is never withdrawn. *)
HaltreqStays == write_dmcontrol([haltreq |-> TRUE]) \o poll_until("dmstatus", [allhalted |-> T])

(* A timeout of the poll leaves haltreq asserted: the write that clears it *)
(* comes after.                                                            *)
halt ==
    write_dmcontrol([haltreq |-> TRUE]) \o poll_until("dmstatus", [allhalted |-> T])
    \o write_dmcontrol([haltreq |-> FALSE])

resume ==
    write_dmcontrol([resumereq |-> TRUE]) \o poll_until("dmstatus", [allrunning |-> T])
    \o write_dmcontrol([resumereq |-> FALSE])

resume_no_wait == write_dmcontrol([resumereq |-> TRUE]) \o write_dmcontrol([resumereq |-> FALSE])

ndmreset(on) == write_dmcontrol([ndmreset |-> on])
hartreset(on) == write_dmcontrol([hartreset |-> on])
is_halted(x) == Read("dmstatus", x)
is_running(x) == Read("dmstatus", x)
ackhavereset == write_dmcontrol([ackhavereset |-> TRUE])
ackunavail == write_dmcontrol([ackunavail |-> TRUE])
set_reset_haltreq == write_dmcontrol([setresethaltreq |-> TRUE])
clr_reset_haltreq == write_dmcontrol([clrresethaltreq |-> TRUE])

read_dmstatus(x) == Read("dmstatus", x)
read_dmcontrol(x) == Read("dmcontrol", x)
read_hartinfo(x) == Read("hartinfo", x)
read_haltsum0(x) == Read("haltsum0", x)
read_abstractcs(x) == Read("abstractcs", x)
clear_cmderr == Write("abstractcs", "w1c")

-----------------------------------------------------------------------------
(* Abstract commands. *)
AccessRegister(reg, size, write) ==
    [NoCommand EXCEPT !.type = "register", !.reg = reg, !.size = size, !.transfer = TRUE, !.write = write]
command(k) == WriteRec("command", k)

read_gpr(reg, x) == command(AccessRegister(reg, 2, FALSE)) \o wait_abstractcs \o Read("data0", x)
write_gpr(reg, s) == Write("data0", s) \o command(AccessRegister(reg, 2, TRUE)) \o wait_abstractcs
write_gpr_from(reg, x) == WriteFrom("data0", x) \o command(AccessRegister(reg, 2, TRUE)) \o wait_abstractcs
read_reg64(reg, hi, lo) ==
    command(AccessRegister(reg, 3, FALSE)) \o wait_abstractcs \o Read("data1", hi) \o Read("data0", lo)
write_reg64(reg, hi, lo) ==
    Write("data0", lo) \o Write("data1", hi) \o command(AccessRegister(reg, 3, TRUE)) \o wait_abstractcs
write_reg64_from(reg, hi, lo) ==
    WriteFrom("data0", lo) \o WriteFrom("data1", hi) \o command(AccessRegister(reg, 3, TRUE)) \o wait_abstractcs

write_progbuf(i, s) == Write(ProgbufRegs[i + 1], s)
read_progbuf(i, x) == Read(ProgbufRegs[i + 1], x)
PostexecOnly == [NoCommand EXCEPT !.type = "register", !.postexec = TRUE]
execute_progbuf == command(PostexecOnly) \o wait_abstractcs

read_dcsr(x) == read_gpr("dcsr", x)
get_dcsr_cause(x) == read_dcsr(x)
get_pc(x) == read_gpr("dpc", x)
set_step(on) == read_dcsr("dcsr") \o Modify("dcsr", [step |-> on]) \o write_gpr_from("dcsr", "dcsr")

-----------------------------------------------------------------------------
(* The system bus. *)
sbcs(f) == WriteRec("sbcs", f @@ ZeroSbcs)
sbaddress(a) == WriteRec("sbaddress0", [v |-> a])
read_mem32(a, x) == sbcs([readonaddr |-> TRUE, access |-> 2]) \o sbaddress(a) \o wait_sbus \o Read("sbdata0", x)
write_mem32(a, s) == sbcs([access |-> 2]) \o sbaddress(a) \o Write("sbdata0", s) \o wait_sbus

-----------------------------------------------------------------------------
(* The raw JTAG accesses of uvm_transport.py. *)
dtmcs(x) == Read("dtmcs", x)
write_dtmcs(s) == Write("dtmcs", s)
dmi_scan_read(x) == Read("scan_read", x)
dmi_scan(x) == Read("scan_nop", x)
clock(bits) == [i \in DOMAIN bits |-> [op |-> "write", reg |-> "tap", val |-> bits[i]]]
tms_walk(bits) == clock(drive_tms_walk(bits))
jtag_scan(ir, len, pause, x) == clock(drive_ir(ir, pause) \o drive_dr(len, pause)) \o Read("dr", x)
tap_reset == clock(drive_tap_reset)

-----------------------------------------------------------------------------
(* hart_control.py: the helpers of the debug-entry scripts. *)
wait_halted(x) == Wait("dmstatus", [allhalted |-> T], x)
ensure_halted(x) ==
    clear_cmderr \o Read("dmstatus", "now")
    \o If("now", [allhalted |-> T], Set(x, [v |-> TRUE]), halt \o wait_halted(x))
open_pmp == write_reg64("pmp", "all", "all") \o write_reg64("pmp", "0", "napot")
modify_dcsr(f) == read_dcsr("dcsr") \o Modify("dcsr", f) \o write_gpr_from("dcsr", "dcsr")
place(pc, prv) == modify_dcsr([prv |-> prv]) \o write_reg64("dpc", "0", pc)
(* Mutant: the step is started with resume(), which polls for allrunning. *)
StepPollsRunning(x) == resume \o wait_halted(x)

step_once(x) == resume_no_wait \o wait_halted(x)
run_until_halted(x) == resume_no_wait \o wait_halted(x)
=============================================================================
