------------------------------ MODULE DMRefModel ------------------------------
(***************************************************************************)
(* Run control of sv/model/dm_ref_model.sv, the SystemVerilog twin of      *)
(* predictor.py that dm_checker compares the RTL with.  The words, the     *)
(* configuration and the bits left out are those of DMPredictor.  A        *)
(* hart_signal_bit is the value it holds: set and observe both assign it.  *)
(***************************************************************************)
EXTENDS Naturals

CONSTANTS num_harts, hasresethaltreq, supports_hartreset, supports_hasel,
          resumeack_reset, havereset_poweron

VARIABLES dmactive, ndmreset, hartsel, hasel, hartreset_level, harts,
          shadowStep   \* shadow_regs.exists(dcsr) && shadow_regs[dcsr][2]

vars == <<dmactive, ndmreset, hartsel, hasel, hartreset_level, harts, shadowStep>>

hart_exists(i) == i \in DOMAIN harts

hart_indices == 0 .. (num_harts - 1)

\* reset_dm: power-on, and the reset a dmactive=0 write performs.
power_on_hart ==
    [halt_request |-> FALSE, reset_haltreq |-> FALSE, hart_reset |-> FALSE,
     resume_ack |-> resumeack_reset, halted |-> FALSE, running |-> TRUE,
     havereset |-> havereset_poweron]

reset_hart(h) ==
    [power_on_hart EXCEPT !.halted = h.halted, !.running = h.running,
                          !.havereset = h.havereset]

\* Mutant of release_from_reset: only halt_request halts the hart.
release_ignores_haltreq(h) ==
    [h EXCEPT !.havereset = TRUE, !.halted = h.halt_request, !.running = ~h.halt_request]

release_from_reset(h) ==
    LET halt == h.reset_haltreq \/ h.halt_request
    IN  [h EXCEPT !.havereset = TRUE, !.halted = halt, !.running = ~halt]

apply_ndmreset(hs, asserted) ==
    IF asserted /\ ~ndmreset
    THEN [i \in DOMAIN hs |-> [hs[i] EXCEPT !.halted = FALSE, !.running = TRUE,
                                  !.havereset = TRUE, !.resume_ack = resumeack_reset]]
    ELSE IF ~asserted /\ ndmreset
    THEN [i \in DOMAIN hs |-> release_from_reset(hs[i])]
    ELSE hs

\* apply_hartreset gives up before it looks at the level when hartsel names no
\* hart: neither the level nor a hart changes.
apply_hartreset(hs, sel, asserted) ==
    IF ~hart_exists(sel) THEN hs
    ELSE IF asserted /\ ~hartreset_level
    THEN [hs EXCEPT ![sel].hart_reset = TRUE, ![sel].halted = FALSE,
                    ![sel].running = FALSE, ![sel].resume_ack = resumeack_reset]
    ELSE IF ~asserted /\ hartreset_level
    THEN [hs EXCEPT ![sel] = release_from_reset([hs[sel] EXCEPT !.hart_reset = FALSE])]
    ELSE hs

level_after_hartreset(sel, asserted) ==
    IF hart_exists(sel) THEN asserted ELSE hartreset_level

\* The statements of write_dmcontrol from set/clrresethaltreq to haltreq.
apply_requests(h, f) ==
    LET halts == f.haltreq /\ h.running /\ ~h.halted
    IN  [h EXCEPT !.reset_haltreq = IF ~hasresethaltreq THEN @
                                    ELSE IF f.clrresethaltreq THEN FALSE
                                    ELSE @ \/ f.setresethaltreq,
                  !.havereset = @ /\ ~f.ackhavereset,
                  !.halt_request = f.haltreq,
                  !.halted = @ \/ halts,
                  !.running = @ /\ ~halts]

apply_resumereq(h) ==
    IF h.halted
    THEN [h EXCEPT !.halted = shadowStep, !.running = ~shadowStep, !.resume_ack = TRUE]
    ELSE [h EXCEPT !.resume_ack = FALSE]

settle_reset_state(hs, ndm) ==
    [i \in DOMAIN hs |-> IF ndm \/ hs[i].hart_reset
                         THEN [hs[i] EXCEPT !.halted = FALSE, !.running = TRUE]
                         ELSE hs[i]]

-----------------------------------------------------------------------------
Init ==
    /\ dmactive = FALSE
    /\ ndmreset = FALSE
    /\ hartsel = 0
    /\ hasel = FALSE
    /\ hartreset_level = FALSE
    /\ harts = [i \in hart_indices |-> power_on_hart]
    /\ shadowStep = FALSE

reset_dm ==
    /\ dmactive' = FALSE
    /\ ndmreset' = FALSE
    /\ hartsel' = 0
    /\ hasel' = FALSE
    /\ hartreset_level' = FALSE
    /\ harts' = [i \in hart_indices |-> reset_hart(harts[i])]
    /\ UNCHANGED shadowStep

\* write_dmcontrol.  resumes: the selected hart is halted when resumereq is
\* looked at, so it is resumed and the register shadow is dropped.
write_dmcontrol(f) ==
    \/ ~f.dmactive /\ reset_dm
    \/ /\ f.dmactive
       /\ dmactive' = TRUE
       /\ hartsel' = f.hartsel
       /\ hasel' = (supports_hasel /\ f.hasel)
       /\ ndmreset' = f.ndmreset
       /\ LET sel == f.hartsel
              hr == f.hartreset /\ supports_hartreset
              h1 == apply_hartreset(apply_ndmreset(harts, f.ndmreset), sel, hr)
              h2 == IF hart_exists(sel) THEN [h1 EXCEPT ![sel] = apply_requests(@, f)] ELSE h1
              asked == hart_exists(sel) /\ f.resumereq /\ ~f.haltreq
              h3 == IF asked THEN [h2 EXCEPT ![sel] = apply_resumereq(@)] ELSE h2
              resumes == asked /\ h2[sel].halted
          IN  /\ hartreset_level' = level_after_hartreset(sel, hr)
              /\ harts' = settle_reset_state(h3, f.ndmreset)
              /\ shadowStep' = (shadowStep /\ ~resumes)

\* execute_command: a dcsr write is shadowed, postexec drops the shadow.
write_dcsr(step) ==
    /\ shadowStep' = step
    /\ UNCHANGED <<dmactive, ndmreset, hartsel, hasel, hartreset_level, harts>>

postexec ==
    /\ shadowStep' = FALSE
    /\ UNCHANGED <<dmactive, ndmreset, hartsel, hasel, hartreset_level, harts>>

sync_observed_hart_signals(o) ==
    /\ harts' = IF hart_exists(hartsel)
                THEN [harts EXCEPT ![hartsel].halted = o.halted,
                                   ![hartsel].running = o.running,
                                   ![hartsel].resume_ack = o.resume_ack]
                ELSE harts
    /\ UNCHANGED <<dmactive, ndmreset, hartsel, hasel, hartreset_level, shadowStep>>

-----------------------------------------------------------------------------
expect_dmstatus ==
    LET e == hart_exists(hartsel)
    IN  [ndmresetpending |-> ndmreset, nonexistent |-> ~e,
         halted |-> e /\ harts[hartsel].halted,
         running |-> e /\ harts[hartsel].running,
         havereset |-> e /\ harts[hartsel].havereset,
         resumeack |-> e /\ harts[hartsel].resume_ack]

expect_dmcontrol ==
    [dmactive |-> dmactive, ndmreset |-> ndmreset, hasel |-> hasel,
     hartreset |-> hartreset_level /\ supports_hartreset, hartsel |-> hartsel]

expect_haltsum0 == {i \in hart_indices : i < 32 /\ harts[i].halted}
=============================================================================
