----------------------------- MODULE DMPredictor -----------------------------
(***************************************************************************)
(* Run control of the golden-reference model, model/predictor.py: what the *)
(* model believes about the Debug Module and its harts after a sequence of *)
(* DMI writes and dmstatus reads.                                          *)
(*                                                                         *)
(* A dmcontrol word is a record of its decoded fields.  hasel is tied to 0 *)
(* unless SupportsHasel, and selects nothing even then, as in the code.    *)
(* The availability bits are left out: no statement of the repository ever *)
(* sets available to False or unavail_sticky to True, so HartState.unavail *)
(* is constantly False and ackunavail has no effect.                       *)
(***************************************************************************)
EXTENDS Naturals

CONSTANTS
    NumHarts,           \* implemented harts; hartsel >= NumHarts is nonexistent
    Writes,             \* the dmcontrol words a debugger may write, decoded
    HasResetHaltReq,    \* set/clrresethaltreq are implemented
    SupportsHartreset,  \* dmcontrol.hartreset is implemented
    SupportsHasel,      \* dmcontrol.hasel is writable
    ResumeackReset,     \* reset value of the resume-ack bit
    HaveresetPoweron    \* havereset of a hart at power-on

Harts == 0 .. NumHarts - 1

\* DMCONTROL.decode: the fields of a dmcontrol word that change state.
Fields == [dmactive : BOOLEAN, ndmreset : BOOLEAN, hartreset : BOOLEAN,
           setresethaltreq : BOOLEAN, clrresethaltreq : BOOLEAN,
           ackhavereset : BOOLEAN, haltreq : BOOLEAN, resumereq : BOOLEAN,
           hasel : BOOLEAN, hartsel : Nat]

ASSUME ConfigAssumption ==
    /\ NumHarts \in Nat \ {0}
    /\ Writes \subseteq Fields
    /\ HasResetHaltReq \in BOOLEAN
    /\ SupportsHartreset \in BOOLEAN
    /\ SupportsHasel \in BOOLEAN
    /\ ResumeackReset \in BOOLEAN
    /\ HaveresetPoweron \in BOOLEAN

VARIABLES
    dmactive, ndmreset, hartsel, hasel,
    hartreset_level,   \* the level last written to a supported hartreset
    harts,             \* HartState of every implemented hart
    dcsrStep           \* bit step of shadow_regs[dcsr]; FALSE when not shadowed

vars == <<dmactive, ndmreset, hartsel, hasel, hartreset_level, harts, dcsrStep>>

HartState == [halt_request : BOOLEAN, resume_ack : BOOLEAN,
              reset_haltreq : BOOLEAN, hart_reset : BOOLEAN,
              halted : BOOLEAN, running : BOOLEAN, havereset : BOOLEAN]

\* What a dmstatus read shows of the selected hart: the bits as they come, a
\* faulty word that shows halted and running included.
Observations == [halted : BOOLEAN, running : BOOLEAN, resume_ack : BOOLEAN]

-----------------------------------------------------------------------------
(* One operator per method of the model that changes a hart.               *)

PowerOnHart ==
    [halt_request |-> FALSE, resume_ack |-> ResumeackReset,
     reset_haltreq |-> FALSE, hart_reset |-> FALSE,
     halted |-> FALSE, running |-> TRUE, havereset |-> HaveresetPoweron]

\* Mutants of ResetDmHart: a bit survives the DM reset.
ResetKeepsResethaltreq(h) ==
    [h EXCEPT !.halt_request = FALSE, !.resume_ack = ResumeackReset, !.hart_reset = FALSE]

ResetKeepsHartreset(h) ==
    [h EXCEPT !.halt_request = FALSE, !.resume_ack = ResumeackReset, !.reset_haltreq = FALSE]

\* A DM reset clears the bits the DM tracks and keeps the hart's own signals.
ResetDmHart(h) ==
    [h EXCEPT !.halt_request = FALSE, !.resume_ack = ResumeackReset,
              !.reset_haltreq = FALSE, !.hart_reset = FALSE]

\* Mutant of ReleaseFromReset: the halt-on-reset bit is forgotten.
ReleaseIgnoresResethaltreq(h) ==
    [h EXCEPT !.havereset = TRUE, !.halted = h.halt_request, !.running = ~h.halt_request]

ReleaseFromReset(h) ==
    LET halt == h.reset_haltreq \/ h.halt_request
    IN  [h EXCEPT !.havereset = TRUE, !.halted = halt, !.running = ~halt]

\* ndmreset is a level over all harts: only its edges act.
ApplyNdmreset(h, asserted) ==
    IF asserted /\ ~ndmreset
    THEN [h EXCEPT !.halted = FALSE, !.running = TRUE, !.havereset = TRUE,
                   !.resume_ack = ResumeackReset]
    ELSE IF ~asserted /\ ndmreset THEN ReleaseFromReset(h)
    ELSE h

\* hartreset is a level over the selected hart.
ApplyHartreset(h, asserted) ==
    IF asserted /\ ~hartreset_level
    THEN [h EXCEPT !.hart_reset = TRUE, !.halted = FALSE, !.running = FALSE,
                   !.resume_ack = ResumeackReset]
    ELSE IF ~asserted /\ hartreset_level
    THEN ReleaseFromReset([h EXCEPT !.hart_reset = FALSE])
    ELSE h

ApplyResethaltreq(h, f) ==
    IF ~HasResetHaltReq THEN h
    ELSE [h EXCEPT !.reset_haltreq = (@ \/ f.setresethaltreq) /\ ~f.clrresethaltreq]

AckHavereset(h, f) == [h EXCEPT !.havereset = @ /\ ~f.ackhavereset]

\* Mutant of ApplyHaltreq: the halted hart is still reported running.
HaltKeepsRunning(h, f) ==
    [h EXCEPT !.halt_request = f.haltreq, !.halted = @ \/ (f.haltreq /\ h.running)]

\* The halt request bit follows haltreq; a running hart that sees it halts.
ApplyHaltreq(h, f) ==
    LET halts == f.haltreq /\ h.running /\ ~h.halted
    IN  [h EXCEPT !.halt_request = f.haltreq,
                  !.halted = @ \/ halts, !.running = @ /\ ~halts]

\* Mutant of ApplyResumereq: the ack of a hart that does not resume is kept.
ResumeKeepsAck(h) ==
    IF h.halted
    THEN [h EXCEPT !.halted = dcsrStep, !.running = ~dcsrStep, !.resume_ack = TRUE]
    ELSE h

\* Resume ack is cleared for the selected hart; only a halted one resumes and
\* sets it again, re-halting at once if dcsr.step is shadowed as set.
ApplyResumereq(h) ==
    IF h.halted
    THEN [h EXCEPT !.halted = dcsrStep, !.running = ~dcsrStep, !.resume_ack = TRUE]
    ELSE [h EXCEPT !.resume_ack = FALSE]

SettleResetState(h, inNdmreset) ==
    IF inNdmreset \/ h.hart_reset
    THEN [h EXCEPT !.halted = FALSE, !.running = TRUE]
    ELSE h

Resumes(f) == f.resumereq /\ ~f.haltreq

\* The selected hart up to the point where resumereq is looked at.
BeforeResume(h, f) ==
    LET hartreset == f.hartreset /\ SupportsHartreset
    IN  ApplyHaltreq(AckHavereset(ApplyResethaltreq(
            ApplyHartreset(ApplyNdmreset(h, f.ndmreset), hartreset), f), f), f)

SelectedAfter(h, f) ==
    LET g == BeforeResume(h, f)
    IN  SettleResetState(IF Resumes(f) THEN ApplyResumereq(g) ELSE g, f.ndmreset)

\* Mutants of UnselectedAfter: only the selected hart is told of its release;
\* ackhavereset reaches every hart.
ReleasedSilently(h, f) ==
    LET g == SettleResetState(ApplyNdmreset(h, f.ndmreset), f.ndmreset)
    IN  [g EXCEPT !.havereset = IF f.ndmreset THEN @ ELSE h.havereset]

AckReachesAll(h, f) ==
    SettleResetState(AckHavereset(ApplyNdmreset(h, f.ndmreset), f), f.ndmreset)

UnselectedAfter(h, f) == SettleResetState(ApplyNdmreset(h, f.ndmreset), f.ndmreset)

-----------------------------------------------------------------------------
Init ==
    /\ dmactive = FALSE
    /\ ndmreset = FALSE
    /\ hartsel = 0
    /\ hasel = FALSE
    /\ hartreset_level = FALSE
    /\ harts = [i \in Harts |-> PowerOnHart]
    /\ dcsrStep = FALSE

\* A dmcontrol write with dmactive=0: the DM reset; every other bit is dropped.
ResetDm(f) ==
    /\ ~f.dmactive
    /\ dmactive' = FALSE
    /\ ndmreset' = FALSE
    /\ hartsel' = 0
    /\ hasel' = FALSE
    /\ hartreset_level' = FALSE
    /\ harts' = [i \in Harts |-> ResetDmHart(harts[i])]
    /\ UNCHANGED dcsrStep

\* A dmcontrol write with dmactive=1: selection first, then every level and
\* request, applied to the new selection.
WriteActive(f) ==
    /\ f.dmactive
    /\ dmactive' = TRUE
    /\ ndmreset' = f.ndmreset
    /\ hartsel' = f.hartsel
    /\ hasel' = (f.hasel /\ SupportsHasel)
    /\ hartreset_level' = (f.hartreset /\ SupportsHartreset)
    /\ harts' = [i \in Harts |-> IF i = f.hartsel THEN SelectedAfter(harts[i], f)
                                                  ELSE UnselectedAfter(harts[i], f)]
    /\ dcsrStep' = (dcsrStep /\ ~(/\ f.hartsel \in Harts
                                  /\ Resumes(f)
                                  /\ BeforeResume(harts[f.hartsel], f).halted))

WriteDmcontrol(f) == ResetDm(f) \/ WriteActive(f)

\* An Access Register command writes dcsr: the shadow takes the staged data0.
WriteDcsr(step) ==
    /\ dcsrStep' = step
    /\ UNCHANGED <<dmactive, ndmreset, hartsel, hasel, hartreset_level, harts>>

\* A command with postexec: the Program Buffer may change any register.
Postexec ==
    /\ dcsrStep' = FALSE
    /\ UNCHANGED <<dmactive, ndmreset, hartsel, hasel, hartreset_level, harts>>

\* A dmstatus read overwrites the selected hart's signals with the observed ones.
SyncObservedHartSignals(o) ==
    /\ hartsel \in Harts
    /\ harts' = [harts EXCEPT ![hartsel].halted = o.halted,
                              ![hartsel].running = o.running,
                              ![hartsel].resume_ack = o.resume_ack]
    /\ UNCHANGED <<dmactive, ndmreset, hartsel, hasel, hartreset_level, dcsrStep>>

Next ==
    \/ \E f \in Writes : WriteDmcontrol(f)
    \/ \E step \in BOOLEAN : WriteDcsr(step)
    \/ Postexec
    \/ \E o \in Observations : SyncObservedHartSignals(o)

Spec == Init /\ [][Next]_vars

-----------------------------------------------------------------------------
\* Every variable has the shape of the Python attribute it stands for.
TypeOK ==
    /\ dmactive \in BOOLEAN
    /\ ndmreset \in BOOLEAN
    /\ hartsel \in Nat
    /\ hasel \in BOOLEAN
    /\ hartreset_level \in BOOLEAN
    /\ harts \in [Harts -> HartState]
    /\ dcsrStep \in BOOLEAN

(***************************************************************************)
(* What a read is predicted to return.  Constant fields are left out, and  *)
(* with one selected hart every all*/any* pair is one bit.                 *)
(***************************************************************************)
ExpectDmstatus ==
    LET Sel(bit(_)) == hartsel \in Harts /\ bit(harts[hartsel])
        Halted(h) == h.halted
        Running(h) == h.running
        Havereset(h) == h.havereset
        ResumeAck(h) == h.resume_ack
    IN  [ndmresetpending |-> ndmreset, nonexistent |-> hartsel >= NumHarts,
         halted |-> Sel(Halted), running |-> Sel(Running),
         havereset |-> Sel(Havereset), resumeack |-> Sel(ResumeAck)]

ExpectDmcontrol ==
    [dmactive |-> dmactive, ndmreset |-> ndmreset, hasel |-> hasel,
     hartreset |-> hartreset_level /\ SupportsHartreset, hartsel |-> hartsel]

ExpectHaltsum0 == {i \in Harts : i < 32 /\ harts[i].halted}

(***************************************************************************)
(* The words of a debugger that keeps the rule of #3.14.2 policed by       *)
(* invariants._inv_mutex_bits: at most one of resumereq, hartreset,        *)
(* ackhavereset, setresethaltreq, clrresethaltreq is 1 in a write.         *)
(***************************************************************************)
MutexBits(f) == <<f.resumereq, f.hartreset, f.ackhavereset,
                  f.setresethaltreq, f.clrresethaltreq>>

OneMutexBit(f) == \A i, j \in 1 .. 5 : MutexBits(f)[i] /\ MutexBits(f)[j] => i = j

-----------------------------------------------------------------------------
Both(h) == h.halted /\ h.running

\* invariants._inv_halted_running_mutex, as far as it is the model's own doing:
\* a hart comes to be held halted and running only by a dmstatus word that shows
\* both (sync_observed_hart_signals copies the bits unjudged), never by a write
\* or a command, however often such words are mixed in.
KeepsMutex ==
    \A i \in Harts : Both(harts'[i]) =>
        \/ Both(harts[i])
        \/ \E o \in Observations : Both(o) /\ i = hartsel /\ SyncObservedHartSignals(o)

MutexKept == [][KeepsMutex]_vars

\* predictor.reset_dm, invariants._inv_dm_reset_state: as long as dmactive is 0
\* everything the DM tracks is at its reset value; no command and no dmstatus
\* read brings a request, a level or a selection back.
DmResetState ==
    ~dmactive =>
        /\ ~ndmreset /\ ~hartreset_level /\ ~hasel /\ hartsel = 0
        /\ \A i \in Harts : /\ ~harts[i].halt_request
                            /\ ~harts[i].reset_haltreq
                            /\ ~harts[i].hart_reset

Releases == ndmreset /\ ~ndmreset' /\ dmactive'

\* predictor._release_from_reset: the write that releases ndmreset leaves
\* havereset set in every hart; only the hart it selects can have been
\* acknowledged by the very same write.
ReportsReset == Releases => \A i \in Harts \ {hartsel'} : harts'[i].havereset

ReleaseReportsReset == [][ReportsReset]_vars

\* predictor._release_from_reset: releasing ndmreset halts every hart whose
\* halt-on-reset or halt request bit stood before the write, selected or not,
\* unless hartreset still holds it; the selected hart may also have been resumed
\* by the same write, and then it has acknowledged that.
HaltsOnReset ==
    Releases => \A i \in Harts :
        /\ harts[i].reset_haltreq \/ harts[i].halt_request
        /\ ~harts'[i].hart_reset
        => harts'[i].halted \/ (i = hartsel' /\ harts'[i].resume_ack)

HaltOnReset == [][HaltsOnReset]_vars

\* predictor._write_dmcontrol: as long as the DM stays active and ndmreset does
\* not move, an unselected hart is left alone, up to the settling of a hart that
\* is held in reset.
LeavesUnselected ==
    dmactive' /\ ndmreset' = ndmreset =>
        \A i \in Harts \ {hartsel'} :
            harts'[i] \in {harts[i], SettleResetState(harts[i], ndmreset)}

UnselectedUndisturbed == [][LeavesUnselected]_vars
=============================================================================
