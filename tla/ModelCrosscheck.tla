---------------------------- MODULE ModelCrosscheck ----------------------------
(***************************************************************************)
(* mk/model_crosscheck.py: the trace of inputs the SystemVerilog model     *)
(* records is replayed through the Python model and their predictions are  *)
(* compared at every read.  Here both models take every input in lockstep, *)
(* for any number of harts; the script itself replays with num_harts=1.    *)
(***************************************************************************)
EXTENDS DMPredictor

CONSTANT HartresetOnMissingHart   \* hartreset may be written to a hartsel that names no hart

VARIABLES sdmactive, sndmreset, shartsel, shasel, shartreset_level, sharts, sshadowStep

Sv == INSTANCE DMRefModel WITH
        num_harts <- NumHarts, hasresethaltreq <- HasResetHaltReq,
        supports_hartreset <- SupportsHartreset, supports_hasel <- SupportsHasel,
        resumeack_reset <- ResumeackReset, havereset_poweron <- HaveresetPoweron,
        dmactive <- sdmactive, ndmreset <- sndmreset, hartsel <- shartsel, hasel <- shasel,
        hartreset_level <- shartreset_level, harts <- sharts, shadowStep <- sshadowStep

xvars == <<dmactive, ndmreset, hartsel, hasel, hartreset_level, harts, dcsrStep,
           sdmactive, sndmreset, shartsel, shasel, shartreset_level, sharts, sshadowStep>>

XInit == Init /\ Sv!Init

\* The debugger keeps the selection while hartreset is 1, as #3.14.2 demands.
XLegal(f) ==
    /\ hartreset_level /\ f.dmactive => f.hartsel = hartsel
    /\ HartresetOnMissingHart \/ (f.hartreset => f.hartsel \in Harts)

\* replay: the records W (a dmcontrol write, a command) and S (a dmstatus sync).
ReplayDmcontrol(f) == XLegal(f) /\ WriteDmcontrol(f) /\ Sv!write_dmcontrol(f)

ReplayDcsr(step) == WriteDcsr(step) /\ Sv!write_dcsr(step)

ReplayPostexec == Postexec /\ Sv!postexec

ReplaySync(o) == SyncObservedHartSignals(o) /\ Sv!sync_observed_hart_signals(o)

XNext ==
    \/ \E f \in Writes : ReplayDmcontrol(f)
    \/ \E step \in BOOLEAN : ReplayDcsr(step)
    \/ ReplayPostexec
    \/ \E o \in Observations : ReplaySync(o)

XSpec == XInit /\ [][XNext]_xvars

-----------------------------------------------------------------------------
SameWords ==
    /\ ExpectDmcontrol = Sv!expect_dmcontrol
    /\ ExpectDmstatus = Sv!expect_dmstatus
    /\ ExpectHaltsum0 = Sv!expect_haltsum0

\* model_crosscheck.replay: whatever read follows an input, both models predict
\* the same word for dmcontrol, dmstatus and haltsum0.
PredictionsAgree == [][SameWords']_xvars

\* The stronger fact the agreement rests on: the two models hold the same state,
\* including the request bits no read shows.
StatesAgree ==
    /\ harts = sharts
    /\ <<dmactive, ndmreset, hartsel, hasel, hartreset_level, dcsrStep>> =
       <<sdmactive, sndmreset, shartsel, shasel, shartreset_level, sshadowStep>>
=============================================================================
