---------------------------- MODULE HartSessions ----------------------------
(***************************************************************************)
(* Sessions that run the scripts of modules CommandScenarios and           *)
(* EntryScenarios over one hart: what those scripts owe the command        *)
(* engine, the program, the TAP and the hart they send out of Debug Mode.  *)
(***************************************************************************)
EXTENDS Scenario, CommandScenarios, EntryScenarios

HartScripts == CommandScripts @@ EntryScripts

Sound == cfg.defect = "none" /\ ~cfg.slow

(* An abstract command is only started with cmderr clear, and so is never  *)
(* silently ignored: clear_cmderr_idle has waited for the command before   *)
(* it.  cmderr_sequence alone sends one over an error, to see it sticky,   *)
(* and trigger_sequence goes on over an error that TC-TRIG-006 left.       *)
CommandsStartClean ==
    Sound /\ script \notin {"cmderr", "trigger"} /\ Doing("write") /\ Now.reg = "command" => dut.abs.cmderr = 0

(* cmd_outcome borrows t0 and t1.  The program never runs an instruction   *)
(* with anything in them but its own values, and yet every Program Buffer  *)
(* that leaves for the RAM (jr t1) finds t1 at the loop loaded there.      *)
BorrowedRegisters ==
    Sound =>
        /\ dut.abs.busy /\ dut.abs.cmd.postexec /\ dut.abs.pb["progbuf0"] = "jr_t1" => JumpsToLoop(dut)
        /\ script = "cmd_outcome" /\ dut.hart[0].st = "running"
              => \A r \in {"t0", "t1"} : dut.hart[0].regs[r] = Reg("own_lo", "own_hi")

(* dmi_error takes every arc of the TAP but the wait in Run-Test/Idle, and *)
(* its walk passes Update-DR without issuing a DMI operation.              *)
TapWalk ==
    Over /\ script = "dmi_error" =>
        /\ TapArcs \ dut.dtm.tap.arcs \subseteq {<<"RunTestIdle", 0>>}
        /\ dut.dtm.tap.state = "RunTestIdle" /\ ~dut.dtm.tap.issued

(* A script gives the hart back as it found it: nothing asserted by the    *)
(* module, and in the hart no step (issue #105: resume() then times out),  *)
(* no ebreak to Debug Mode and no trigger armed.  single_step never clears *)
(* dcsr.step, and step_stall stops before it does when the hart is slower  *)
(* than its three samples.                                                 *)
HartHandedBack ==
    Over /\ cfg.defect = "none" =>
        /\ NothingLeftAsserted /\ SelectionInStep
        /\ ~cfg.slow /\ script # "single_step" /\ failed = {} =>
              LET x == dut.hart[0].regs IN ~x["dcsr"].lo.step /\ x["dcsr"].lo.ebreak = {} /\ x["tdata1"].lo.v = "0"

(* step_matrix follows the hart through every trap and return, over a      *)
(* hart that returns wrongly too (RTL-011): when it is about to step, the  *)
(* place and privilege it believes in are the hart's.                      *)
FollowsTheHart ==
    script = "step_matrix" /\ Doing("if") /\ Now.on = "pc" /\ Now.want.v = {"handler_mret"}
        => dut.hart[0].regs["dpc"].lo.v = env["pc"].v /\ dut.hart[0].regs["dcsr"].lo.prv = env["pc"].prv

(* A wait for the re-halt that follows a resume request ends only when the *)
(* hart has been out of Debug Mode and come back (hart_control.step_once,  *)
(* "run one instruction and wait for the re-halt").                        *)
WaitSeesRehalt ==
    [][ (Doing("wait") /\ Leaving(dut)) => ~(env'[Now.to].v /\ code' = Tail(code)) ]_code
=============================================================================
