--------------------------- MODULE MCHartSessions ---------------------------
EXTENDS HartSessions

Base == [late |-> FALSE, leaves |-> FALSE, slow |-> FALSE, lazydm |-> FALSE, defect |-> "none", resethaltreq |-> TRUE, hartreset |-> TRUE,
         hasel |-> TRUE, progbufsize |-> 8, readable |-> TRUE, xlen64 |-> TRUE, dscratch |-> TRUE, nscratch |-> 0,
         badreg |-> 3, reserved |-> 2, noop |-> 0, sberr |-> FALSE, sb64 |-> TRUE, sbfixed |-> FALSE, trig |-> TRUE,
         keeps |-> TRUE, resetruns |-> TRUE, sbalign |-> FALSE, loses |-> FALSE]
Late == [Base EXCEPT !.late = TRUE]
Slow == [Late EXCEPT !.slow = TRUE]

(* Each target with a hart and engines that answer at once, and late; for  *)
(* the short scripts also later than the timeouts.                         *)
Timed(cs) == cs \cup {[c EXCEPT !.late = TRUE] : c \in cs}
Seeded(defects) == {[Base EXCEPT !.defect = x] : x \in defects}

CommandConfigs ==
    [cmderr |-> Timed({[Base EXCEPT !.progbufsize = n, !.xlen64 = w] : n \in {1, 2, 8}, w \in BOOLEAN}),
     cmd_outcome |-> Timed({[Base EXCEPT !.noop = n, !.badreg = b] : n \in {0, 4}, b \in {2, 3}}) \cup Seeded({"riscv-dbg#32"}),
     dm_corners |-> Timed({[Base EXCEPT !.sb64 = w, !.sbalign = a, !.loses = x] : w, a, x \in BOOLEAN})
                    \cup {[Base EXCEPT !.keeps = FALSE, !.resetruns = FALSE]} \cup Seeded({"RTL-006", "RTL-007", "RTL-008"}),
     csr_access |-> Timed({[Base EXCEPT !.nscratch = n] : n \in {0, 1}}),
     program_buffer |-> Timed({[Base EXCEPT !.progbufsize = n] : n \in {1, 2, 8}}),
     program_buffer_wo |-> Timed({[Base EXCEPT !.progbufsize = n, !.readable = FALSE] : n \in {1, 2, 8}}),
     sw_breakpoint_progbuf |-> Timed({[Base EXCEPT !.progbufsize = n] : n \in {0, 1, 8}}),
     sba |-> Timed({[Base EXCEPT !.sb64 = w, !.sbfixed = f, !.sberr = e] : w, f, e \in BOOLEAN}),
     dmi_error |-> Timed({Base}) \cup Seeded({"RTL-009"})]
    @@ [s \in {"gpr_write", "halt", "mem_scan"} |-> Timed({Base}) \cup {Slow}]
    @@ [s \in DOMAIN CommandScripts |-> Timed({Base})]

(* A hart asked to resume has left Debug Mode by the next access: what     *)
(* the scripts that step rely on (run stale_halt).                         *)
EntryConfigs ==
    [step_classes |-> Timed({Base}) \cup Seeded({"step_cause"}),
     step_matrix |-> Timed({Base}) \cup Seeded({"RTL-010", "RTL-011"}),
     step_stall |-> Timed({Base}) \cup Seeded({"wfi_stalls"}),
     trigger |-> Timed({[Base EXCEPT !.trig = g, !.xlen64 = w, !.badreg = b] : g, w \in BOOLEAN, b \in {2, 3}}) \cup Seeded({"RTL-013"}),
     debug_entry |-> Timed({[Base EXCEPT !.trig = g] : g \in BOOLEAN}) \cup Seeded({"trigger_cause", "ebreak_always"}),
     priv_irq |-> {Late},
     run_elf |-> Timed({Base}) \cup Seeded({"program_fails", "program_hangs"}),
     run_elf_act |-> Timed({Base}) \cup Seeded({"program_fails"})]
    @@ [s \in DOMAIN EntryScripts |-> Timed({Base})]

MCConfigs == CommandConfigs @@ [s \in DOMAIN EntryScripts |-> {[c EXCEPT !.leaves = TRUE] : c \in EntryConfigs[s]}]

(* A hart that may still be in Debug Mode when the next access arrives. *)
StaleConfigs == [s \in DOMAIN EntryScripts |-> {Late}]

MCDefects ==
    [step_cause |-> {"Walk the classes"}, wfi_stalls |-> {"TC-SSTEP-002"}, trigger_cause |-> {"TC-DCSR-011"},
     ebreak_always |-> {"TC-DCSR-012"}, program_fails |-> {"Wait for the verdict"}, program_hangs |-> {"Wait for the verdict"}]
    @@ [x \in {"RTL-010", "RTL-011"} |-> {"TC-SSTEP-008/009"}] @@ [x \in {"RTL-013"} |-> {"TC-TRIG-006"}]
    @@ [x \in {"riscv-dbg#32"} |-> {"TC-AC-031"}] @@ [x \in {"RTL-006"} |-> {"TC-DMC-007"}]
    @@ [x \in {"RTL-007"} |-> {"TC-DMC-008"}] @@ [x \in {"RTL-008"} |-> {"TC-DMC-001"}] @@ [x \in {"RTL-009"} |-> {"TC-DTM-012"}]

(* A target that does report a bus error makes _wait_sbus raise before the *)
(* step has cleared it, and the bus stays shut for the steps that follow   *)
(* until one of them writes back what it read of sbcs.  A transfer lost    *)
(* with the reset crossbar keeps it shut for TC-DMC-009, which the source  *)
(* runs behind the step it means to run last (dm_corners_sequence.py:463). *)
MCFalseAlarms(c) ==
    (IF c.sberr THEN {"TC-SBA-007", "TC-SBA-009", "TC-SBA-010"} ELSE {})
    \cup (IF c.sbalign /\ c.sb64 THEN {"TC-DMC-006", "TC-DMC-003"} ELSE {})
    \cup (IF c.loses /\ ~(c.sbalign /\ c.sb64) THEN {"TC-DMC-009"} ELSE {})

MCTimingSteps == {"TC-DMC-004", "TC-SSTEP-002", "Catch each privilege"}
=============================================================================
