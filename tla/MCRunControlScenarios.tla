----------------------- MODULE MCRunControlScenarios -----------------------
EXTENDS Scenario, RunControlScenarios

Base == [late |-> FALSE, leaves |-> FALSE, slow |-> FALSE, lazydm |-> FALSE, defect |-> "none", resethaltreq |-> TRUE, hartreset |-> TRUE,
         hasel |-> TRUE, progbufsize |-> 8, readable |-> TRUE, xlen64 |-> TRUE, dscratch |-> TRUE, nscratch |-> 0,
         badreg |-> 3, reserved |-> 2, noop |-> 0, sberr |-> FALSE, sb64 |-> TRUE, sbfixed |-> FALSE,
         trig |-> TRUE, keeps |-> FALSE, resetruns |-> TRUE, sbalign |-> FALSE, loses |-> FALSE]

(* The optional features these scripts ask about, each with a hart that    *)
(* answers at once, late, and later than the timeouts.                     *)
Options == {[Base EXCEPT !.resethaltreq = a, !.hartreset = b, !.hasel = m] : a, b, m \in BOOLEAN}
Timings ==
    Options \cup {[c EXCEPT !.late = TRUE] : c \in Options} \cup {[c EXCEPT !.late = TRUE, !.slow = TRUE] : c \in Options}
    \cup {[Base EXCEPT !.late = TRUE, !.lazydm = TRUE]}
    \cup {[c EXCEPT !.keeps = k, !.resetruns = FALSE] : c \in Options, k \in BOOLEAN} \cup {[Base EXCEPT !.late = TRUE, !.keeps = TRUE]}
Seeded(defects) == {[Base EXCEPT !.defect = x] : x \in defects}

MCConfigs ==
    [run_control |-> Timings \cup Seeded({"resume_wins", "acks_in_reset"}),
     reset_ctrl |-> Timings \cup Seeded({"halts_in_reset", "forgets_haltreq", "sticky_havereset"}),
     halt_on_reset |-> Timings \cup Seeded({"resethaltreq_all"})]
    @@ [s \in DOMAIN RunControlScripts |-> Timings]

MCDefects ==
    [resume_wins |-> {"TC-RC-005"}, acks_in_reset |-> {"TC-RC-007"}, halts_in_reset |-> {"TC-RST-001 haltreq"},
     forgets_haltreq |-> {"TC-RST-001 haltreq"}, sticky_havereset |-> {"TC-RST-004", "TC-RST-006"}, resethaltreq_all |-> {"TC-HOR-004"}]

(* A hart that stays halted through a reset fails the two steps that       *)
(* expect it to come out running (invariants.py lists it as unspecified:   *)
(* "should now be running but may be halted").  A module that takes its    *)
(* time over dmactive fails TC-DMA-001, which reads it back once, and      *)
(* TC-DMA-002, whose activate does not wait for it.                        *)
MCFalseAlarms(c) ==
    (IF c.keeps /\ c.resethaltreq THEN {"TC-HOR-003"} ELSE {}) \cup (IF c.keeps /\ c.hartreset THEN {"TC-RST-002"} ELSE {})
    \cup (IF c.lazydm THEN {"TC-DMA-001", "TC-DMA-002"} ELSE {})

MCTimingSteps == {"TC-RC-005", "TC-HOR-002", "TC-HOR-004"}
=============================================================================
