----------------------------- MODULE DMInvariants -----------------------------
(***************************************************************************)
(* model/invariants.py run over the golden-reference model: after every    *)
(* DMI operation an observer calls check_all with the snapshot taken       *)
(* before it and the live predictor, already updated.  rules holds the     *)
(* DUT rules the last call reported (the stimulus-legality rules say       *)
(* nothing about the model and are assumptions about the debugger here).   *)
(*                                                                         *)
(* The observer stands on ModelBackedMockTransport, which answers reads    *)
(* from the model: no observation is ever synchronised back into it.       *)
(* The rules that inspect one dmstatus or dmcontrol word are left out:     *)
(* with one selected hart all* and any* are the same bit, and the version  *)
(* and reads-zero rules compare constants.                                 *)
(***************************************************************************)
EXTENDS DMPredictor

CONSTANTS
    StepArming,      \* a debugger may set dcsr.step
    ResumeOnRelease  \* a write may release a reset and carry resumereq

ASSUME StimulusAssumption == StepArming \in BOOLEAN /\ ResumeOnRelease \in BOOLEAN

VARIABLE rules

ivars == <<dmactive, ndmreset, hartsel, hasel, hartreset_level, harts, dcsrStep, rules>>

-----------------------------------------------------------------------------
(* The helpers and rules.  harts is prev_state, harts' the post state.     *)

InReset(h) == ~h.halted /\ ~h.running

\* Whether the write moves a reset: the code looks at the word and at the
\* levels after it, never at the levels before it.
IsResetWrite(f) == f.ndmreset \/ ndmreset' \/ f.hartreset \/ hartreset_level'

\* selected_indices() after the write, without a hartsel that names no hart.
Selected == {hartsel'} \cap Harts

InvHaltedRunningMutex ==
    {r \in {"HALT-RUN-MUTEX"} : \E i \in Harts : harts'[i].halted /\ harts'[i].running}

InvResumereqIgnoredWhenHaltreq(f) ==
    {r \in {"RESUMEREQ-IGNORED-WHEN-HALTREQ"} :
        /\ f.haltreq /\ f.resumereq /\ f.dmactive /\ ~IsResetWrite(f)
        /\ \E i \in Selected : harts[i].halted /\ ~harts'[i].halted}

InvHaltedIgnoresHaltreq(f) ==
    {r \in {"HALTED-IGNORES-HALTREQ"} :
        /\ f.haltreq /\ f.dmactive /\ ~IsResetWrite(f)
        /\ \E i \in Selected : /\ harts[i].halted
                               /\ \/ ~harts'[i].halted \/ harts'[i].running
                                  \/ harts'[i].resume_ack # harts[i].resume_ack}

InvResumereq(f) ==
    IF ~f.resumereq \/ ~f.dmactive \/ f.haltreq \/ IsResetWrite(f) THEN {}
    ELSE {r \in {"RESUMEREQ-RESUMES-HALTED"} : \E i \in Selected :
             harts[i].halted /\ (harts'[i].halted \/ ~harts'[i].running \/ ~harts'[i].resume_ack)}
         \cup {r \in {"RUNNING-IGNORES-RESUMEREQ"} : \E i \in Selected :
             ~harts[i].halted /\ harts[i].running /\ (harts'[i].halted \/ ~harts'[i].running)}
         \cup {r \in {"RESUMEREQ-CLEARS-ACK"} : \E i \in Selected :
             ~harts[i].halted /\ harts[i].running /\ harts'[i].resume_ack}

\* acked: the harts an ackhavereset of this operation names.
InvHaveresetSticky(acked) ==
    {r \in {"HAVERESET-STICKY"} : \E i \in Harts \ acked :
        harts[i].havereset /\ ~harts'[i].havereset}
    \cup {r \in {"ACKHAVERESET-CLEARS"} : \E i \in acked : harts'[i].havereset}

\* A release from reset is seen as a hart that reported neither halted nor
\* running and now reports one of them.
InvResetRelease(f) ==
    LET released == {i \in Harts : InReset(harts[i]) /\ ~InReset(harts'[i])}
        WantsHalt(i) == harts[i].reset_haltreq \/ harts'[i].reset_haltreq \/ harts'[i].halt_request
    IN  IF ~f.dmactive THEN {}
        ELSE {r \in {"HAVERESET-SET-ON-RESET"} : \E i \in released : ~harts'[i].havereset}
             \cup {r \in {"HALT-ON-RESET"} : \E i \in released :
                      WantsHalt(i) /\ ~harts'[i].halted}
             \cup {r \in {"NO-HALT-WITHOUT-REQUEST"} : \E i \in released :
                      ~WantsHalt(i) /\ harts'[i].halted}

InvResethaltreqPerHart(f) ==
    {r \in {"RESETHALTREQ-PER-HART"} :
        /\ f.dmactive /\ (f.setresethaltreq \/ f.clrresethaltreq)
        /\ \E i \in Harts \ Selected : harts'[i].reset_haltreq # harts[i].reset_haltreq}

InvDmResetState(f) ==
    {r \in {"DM-RESET-STATE"} :
        /\ ~f.dmactive
        /\ \/ ndmreset' \/ hartreset_level' \/ hasel' \/ hartsel' # 0
           \/ \E i \in Harts : harts'[i].halt_request \/ harts'[i].reset_haltreq}

\* check_all for a dmcontrol write, and for every other operation.
CheckAllWrite(f) ==
    InvHaltedRunningMutex
    \cup (IF f.dmactive
          THEN InvHaveresetSticky(IF f.ackhavereset THEN Selected ELSE {}) ELSE {})
    \cup InvDmResetState(f) \cup InvResumereqIgnoredWhenHaltreq(f)
    \cup InvHaltedIgnoresHaltreq(f) \cup InvResumereq(f)
    \cup InvResetRelease(f) \cup InvResethaltreqPerHart(f)

CheckAllOther == InvHaltedRunningMutex \cup InvHaveresetSticky({})

-----------------------------------------------------------------------------
(* A debugger that keeps the spec's rules: one mutex bit a write, and no   *)
(* change of the selection while hartreset is 1 (#3.14.2).                 *)
Legal(f) ==
    /\ OneMutexBit(f)
    /\ hartreset_level /\ f.dmactive => f.hartsel = hartsel
    /\ ResumeOnRelease \/ ~(f.resumereq /\ (ndmreset \/ hartreset_level))

ObservedWrite(f) == Legal(f) /\ WriteDmcontrol(f) /\ rules' = CheckAllWrite(f)

ObservedDcsr(step) == (step => StepArming) /\ WriteDcsr(step) /\ rules' = CheckAllOther

ObservedPostexec == Postexec /\ rules' = CheckAllOther

IInit == Init /\ rules = {}

INext ==
    \/ \E f \in Writes : ObservedWrite(f)
    \/ \E step \in BOOLEAN : ObservedDcsr(step)
    \/ ObservedPostexec

ISpec == IInit /\ [][INext]_ivars

-----------------------------------------------------------------------------
\* invariants.py: "a violation is always a real finding" - so the model, judged
\* by its own rules, never breaks one, for a debugger that keeps the spec's rules.
NoDutViolation == rules = {}

\* predictor._apply_hartreset: a hart is held in hartreset exactly while the
\* level is 1 and the hart is selected; no hart is left behind in reset.
HartresetFollowsLevel ==
    \A i \in Harts : harts[i].hart_reset <=> (hartreset_level /\ i = hartsel)

\* invariants._in_reset, what its comment says of predictor._settle_reset_state:
\* a hart held in reset reports neither halted nor running.
HeldInResetReportsNeither ==
    \A i \in Harts : ndmreset \/ harts[i].hart_reset => InReset(harts[i])

\* What _settle_reset_state does instead: without observations a hart is always
\* exactly one of halted and running.  The edge _inv_reset_release looks for is
\* never there, and its three rules never judge anything.
HaltXorRun == \A i \in Harts : harts[i].halted # harts[i].running
=============================================================================
