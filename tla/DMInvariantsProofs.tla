-------------------------- MODULE DMInvariantsProofs --------------------------
(***************************************************************************)
(* invariants.py over the golden-reference model, for every number of      *)
(* harts, every set of dmcontrol words and every declared configuration:   *)
(* the rules never fire on a debugger that keeps the spec's rules, does    *)
(* not step and does not resume in the write that ends a reset.            *)
(***************************************************************************)
EXTENDS DMInvariants, DMPredictorProofs

-----------------------------------------------------------------------------
(* The run state: exactly one of halted and running, except in the middle  *)
(* of the write that asserts hartreset.                                    *)

XorHart == {h \in HartState : h.halted # h.running}
SettlesToXor == {h \in HartState : h.halted # h.running \/ (h.hart_reset /\ ~h.halted /\ ~h.running)}

\* predictor._apply_ndmreset leaves exactly one of the two.
LEMMA NdmresetXor ==
  ASSUME ndmreset \in BOOLEAN, NEW h \in XorHart, NEW a \in BOOLEAN
  PROVE  ApplyNdmreset(h, a) \in XorHart
  <1>1. CASE a /\ ~ndmreset
    BY <1>1, ConfigAssumption DEF ApplyNdmreset, XorHart, HartState
  <1>2. CASE ~a /\ ndmreset
    BY <1>2 DEF ApplyNdmreset, ReleaseFromReset, XorHart, HartState
  <1>3. QED
    BY <1>1, <1>2 DEF ApplyNdmreset

\* predictor._apply_hartreset may leave neither, in a hart it holds in reset.
LEMMA HartresetXor ==
  ASSUME hartreset_level \in BOOLEAN, NEW h \in XorHart, NEW a \in BOOLEAN
  PROVE  ApplyHartreset(h, a) \in SettlesToXor
  <1>1. CASE a /\ ~hartreset_level
    BY <1>1, ConfigAssumption DEF ApplyHartreset, XorHart, SettlesToXor, HartState
  <1>2. CASE ~a /\ hartreset_level
    BY <1>2 DEF ApplyHartreset, ReleaseFromReset, XorHart, SettlesToXor, HartState
  <1>3. QED
    BY <1>1, <1>2 DEF ApplyHartreset, XorHart, SettlesToXor

\* The requests and acknowledgements keep it so.
LEMMA RequestsXor ==
  ASSUME dcsrStep \in BOOLEAN, NEW h \in SettlesToXor, NEW f \in Fields
  PROVE  /\ ApplyResethaltreq(h, f) \in SettlesToXor
         /\ AckHavereset(h, f) \in SettlesToXor
         /\ ApplyHaltreq(h, f) \in SettlesToXor
         /\ ApplyResumereq(h) \in SettlesToXor
  <1>1. ApplyResethaltreq(h, f) \in SettlesToXor
    BY DEF ApplyResethaltreq, SettlesToXor, HartState, Fields
  <1>2. AckHavereset(h, f) \in SettlesToXor
    BY DEF AckHavereset, SettlesToXor, HartState, Fields
  <1>3. ApplyHaltreq(h, f) \in SettlesToXor
    <2> DEFINE halts == f.haltreq /\ h.running /\ ~h.halted
               b == h.halted \/ halts
               c == h.running /\ ~halts
               g == ApplyHaltreq(h, f)
    <2>1. h \in HartState /\ f.haltreq \in BOOLEAN /\ b \in BOOLEAN /\ c \in BOOLEAN
      BY DEF SettlesToXor, Fields
    <2>2. b # c \/ (h.hart_reset /\ ~b /\ ~c)
      BY DEF SettlesToXor, HartState
    <2>3. g = [h EXCEPT !.halt_request = f.haltreq, !.halted = b, !.running = c]
      BY DEF ApplyHaltreq
    <2> HIDE DEF b, c, g, halts
    <2>4. g \in HartState
      BY <2>1, <2>3, HaltFieldsTyped
    <2>5. g.halted = b /\ g.running = c /\ g.hart_reset = h.hart_reset
      BY <2>1, <2>3 DEF HartState
    <2>6. g \in SettlesToXor
      BY <2>2, <2>4, <2>5 DEF SettlesToXor
    <2>7. QED
      BY <2>6 DEF g
  <1>4. ApplyResumereq(h) \in SettlesToXor
    BY DEF ApplyResumereq, SettlesToXor, HartState
  <1>5. QED
    BY <1>1, <1>2, <1>3, <1>4

\* predictor._settle_reset_state: the hart in reset reports running.
LEMMA SettleXor ==
  ASSUME NEW h \in SettlesToXor, NEW a \in BOOLEAN
  PROVE  /\ SettleResetState(h, a) \in XorHart
         /\ a \/ h.hart_reset => ~SettleResetState(h, a).halted
         /\ SettleResetState(h, a).hart_reset = h.hart_reset
         /\ SettleResetState(h, a).havereset = h.havereset
         /\ SettleResetState(h, a).reset_haltreq = h.reset_haltreq
         /\ SettleResetState(h, a).resume_ack = h.resume_ack
         /\ ~a /\ ~h.hart_reset => SettleResetState(h, a) = h
  BY DEF SettleResetState, SettlesToXor, XorHart, HartState

-----------------------------------------------------------------------------
(* A whole dmcontrol write, seen from one hart. *)

\* What ndmreset alone can do to a hart's sticky and request bits.
LEMMA NdmresetKeeps ==
  ASSUME ndmreset \in BOOLEAN, NEW h \in XorHart, NEW a \in BOOLEAN
  PROVE  LET g == ApplyNdmreset(h, a)
         IN  /\ g.hart_reset = h.hart_reset /\ g.reset_haltreq = h.reset_haltreq
             /\ h.havereset => g.havereset
  BY DEF ApplyNdmreset, ReleaseFromReset, XorHart, HartState

\* predictor._write_dmcontrol, a hart the write does not select.
LEMMA UnselectedFacts ==
  ASSUME ndmreset \in BOOLEAN, NEW h \in XorHart, NEW f \in Fields
  PROVE  LET g == UnselectedAfter(h, f)
         IN  /\ g \in XorHart
             /\ g.hart_reset = h.hart_reset /\ g.reset_haltreq = h.reset_haltreq
             /\ h.havereset => g.havereset
             /\ f.ndmreset \/ g.hart_reset => ~g.halted
  <1> DEFINE n == ApplyNdmreset(h, f.ndmreset)
  <1>1. f.ndmreset \in BOOLEAN
    BY FieldTypes
  <1>2. n \in XorHart /\ n \in SettlesToXor
    BY <1>1, NdmresetXor DEF XorHart, SettlesToXor
  <1>3. n.hart_reset = h.hart_reset /\ n.reset_haltreq = h.reset_haltreq
        /\ (h.havereset => n.havereset)
    BY <1>1, NdmresetKeeps
  <1> HIDE DEF n
  <1>4. QED
    BY <1>1, <1>2, <1>3, SettleXor DEF UnselectedAfter, n

\* hart_reset follows the level: the two edges act, nothing else does.
LEMMA HartresetKeeps ==
  ASSUME hartreset_level \in BOOLEAN, NEW h \in XorHart, NEW a \in BOOLEAN
  PROVE  LET g == ApplyHartreset(h, a)
         IN  /\ g.hart_reset = (IF a = hartreset_level THEN h.hart_reset ELSE a)
             /\ h.havereset => g.havereset
  BY DEF ApplyHartreset, ReleaseFromReset, XorHart, HartState

\* predictor._write_dmcontrol between hartreset and the settling.
LEMMA RequestsKeep ==
  ASSUME NEW h \in SettlesToXor, NEW f \in Fields
  PROVE  /\ ApplyResethaltreq(h, f).hart_reset = h.hart_reset
         /\ ApplyResethaltreq(h, f).havereset = h.havereset
         /\ AckHavereset(h, f).hart_reset = h.hart_reset
         /\ AckHavereset(h, f).havereset = (h.havereset /\ ~f.ackhavereset)
         /\ ApplyHaltreq(h, f).hart_reset = h.hart_reset
         /\ ApplyHaltreq(h, f).havereset = h.havereset
         /\ ApplyResumereq(h).hart_reset = h.hart_reset
         /\ ApplyResumereq(h).havereset = h.havereset
  BY DEF ApplyResethaltreq, AckHavereset, ApplyHaltreq, ApplyResumereq, SettlesToXor, HartState

\* predictor._write_dmcontrol, the hart the write selects.
LEMMA SelectedFacts ==
  ASSUME ndmreset \in BOOLEAN, hartreset_level \in BOOLEAN, dcsrStep \in BOOLEAN,
         NEW h \in XorHart, NEW f \in Fields
  PROVE  LET g == SelectedAfter(h, f)
             hr == f.hartreset /\ SupportsHartreset
         IN  /\ g \in XorHart
             /\ g.hart_reset = (IF hr = hartreset_level THEN h.hart_reset ELSE hr)
             /\ f.ndmreset \/ g.hart_reset => ~g.halted
             /\ f.ackhavereset => ~g.havereset
             /\ ~f.ackhavereset /\ h.havereset => g.havereset
  <1> DEFINE hr == f.hartreset /\ SupportsHartreset
             h1 == ApplyNdmreset(h, f.ndmreset)
             h2 == ApplyHartreset(h1, hr)
             h3 == ApplyResethaltreq(h2, f)
             h4 == AckHavereset(h3, f)
             h5 == ApplyHaltreq(h4, f)
             h6 == IF Resumes(f) THEN ApplyResumereq(h5) ELSE h5
  <1>0. f.ndmreset \in BOOLEAN /\ hr \in BOOLEAN /\ SelectedAfter(h, f) = SettleResetState(h6, f.ndmreset)
    BY FieldTypes DEF SelectedAfter, BeforeResume
  <1>1. h1 \in XorHart /\ h1.hart_reset = h.hart_reset /\ (h.havereset => h1.havereset)
    BY <1>0, NdmresetXor, NdmresetKeeps
  <1> HIDE DEF h1, hr
  <1>2. /\ h2 \in SettlesToXor
        /\ h2.hart_reset = (IF hr = hartreset_level THEN h.hart_reset ELSE hr)
        /\ h.havereset => h2.havereset
    BY <1>0, <1>1, HartresetXor, HartresetKeeps
  <1> HIDE DEF h2
  <1>3. h3 \in SettlesToXor /\ h3.hart_reset = h2.hart_reset /\ h3.havereset = h2.havereset
    BY <1>2, RequestsXor, RequestsKeep
  <1> HIDE DEF h3
  <1>4. h4 \in SettlesToXor /\ h4.hart_reset = h2.hart_reset
        /\ h4.havereset = (h2.havereset /\ ~f.ackhavereset)
    BY <1>3, RequestsXor, RequestsKeep
  <1> HIDE DEF h4
  <1>5. h5 \in SettlesToXor /\ h5.hart_reset = h2.hart_reset /\ h5.havereset = h4.havereset
    BY <1>4, RequestsXor, RequestsKeep
  <1> HIDE DEF h5
  <1>6. h6 \in SettlesToXor /\ h6.hart_reset = h2.hart_reset /\ h6.havereset = h4.havereset
    BY <1>5, RequestsXor, RequestsKeep
  <1> HIDE DEF h6
  <1>7. /\ SettleResetState(h6, f.ndmreset) \in XorHart
        /\ SettleResetState(h6, f.ndmreset).hart_reset = h2.hart_reset
        /\ SettleResetState(h6, f.ndmreset).havereset = h4.havereset
        /\ f.ndmreset \/ h6.hart_reset => ~SettleResetState(h6, f.ndmreset).halted
    BY <1>0, <1>6, SettleXor
  <1>8. QED
    BY <1>0, <1>2, <1>4, <1>6, <1>7 DEF hr

\* A write that moves no reset: haltreq and resumereq act alone.
LEMMA QuietWrite ==
  ASSUME ndmreset = FALSE, hartreset_level = FALSE, dcsrStep = FALSE,
         NEW h \in XorHart, ~h.hart_reset, NEW f \in Fields, ~f.ndmreset, ~f.hartreset
  PROVE  LET g == SelectedAfter(h, f)
         IN  /\ f.haltreq /\ h.halted => g.halted /\ ~g.running /\ g.resume_ack = h.resume_ack
             /\ Resumes(f) /\ h.halted => ~g.halted /\ g.running /\ g.resume_ack
             /\ Resumes(f) /\ ~h.halted => ~g.halted /\ g.running /\ ~g.resume_ack
  <1> DEFINE h4 == AckHavereset(ApplyResethaltreq(h, f), f)
             h5 == ApplyHaltreq(h4, f)
             h6 == IF Resumes(f) THEN ApplyResumereq(h5) ELSE h5
  <1>1. f.ndmreset = FALSE /\ (f.hartreset /\ SupportsHartreset) = FALSE /\ f.haltreq \in BOOLEAN
    BY FieldTypes DEF Fields
  <1>2. ApplyHartreset(ApplyNdmreset(h, FALSE), FALSE) = h
    BY DEF ApplyHartreset, ApplyNdmreset
  <1>3. SelectedAfter(h, f) = SettleResetState(h6, FALSE)
    BY <1>1, <1>2 DEF SelectedAfter, BeforeResume
  <1>4. h \in HartState /\ h.halted \in BOOLEAN /\ h.running = ~h.halted
    BY DEF XorHart, HartState
  <1>5. h4 \in HartState /\ h4.halted = h.halted /\ h4.running = h.running
        /\ h4.resume_ack = h.resume_ack /\ h4.hart_reset = h.hart_reset
    BY <1>4 DEF ApplyResethaltreq, AckHavereset, HartState, Fields
  <1> HIDE DEF h4
  <1>6. /\ f.haltreq /\ h4.halted => h5.halted /\ ~h5.running
        /\ ~f.haltreq => h5.halted = h4.halted /\ h5.running = h4.running
        /\ h5.resume_ack = h4.resume_ack /\ h5.hart_reset = h4.hart_reset
        /\ h5 = [h4 EXCEPT !.halt_request = h5.halt_request, !.halted = h5.halted, !.running = h5.running]
    BY <1>1, <1>4, <1>5 DEF ApplyHaltreq, HartState
  <1>7. h5.halt_request \in BOOLEAN /\ h5.halted \in BOOLEAN /\ h5.running \in BOOLEAN
    BY <1>1, <1>5 DEF ApplyHaltreq, HartState
  <1> HIDE DEF h5
  <1>8. h5 \in HartState
    BY <1>5, <1>6, <1>7, HaltFieldsTyped
  <1>9. /\ f.haltreq => h6 = h5
        /\ Resumes(f) => /\ ~f.haltreq /\ h6.hart_reset = h5.hart_reset
                         /\ h5.halted => ~h6.halted /\ h6.running /\ h6.resume_ack
                         /\ ~h5.halted => /\ ~h6.resume_ack
                                          /\ h6.halted = h5.halted /\ h6.running = h5.running
    BY <1>8 DEF Resumes, ApplyResumereq, HartState
  <1> HIDE DEF h6
  <1>10. ~h6.hart_reset => SettleResetState(h6, FALSE) = h6
    BY DEF SettleResetState
  <1>11. QED
    BY <1>3, <1>4, <1>5, <1>6, <1>9, <1>10

-----------------------------------------------------------------------------
\* predictor._settle_reset_state, as a state: no hart in reset is halted.
ResetRuns == \A i \in Harts : ndmreset \/ harts[i].hart_reset => ~harts[i].halted

\* The inductive invariant of the observed model.  NoDutViolation speaks of the
\* last operation only; what makes it true of the next one is here.
RInv == IInv /\ HaltXorRun /\ HartresetFollowsLevel /\ ResetRuns

\* What RInv says of the types, in the form the lemmas above need.
LEMMA RTypes ==
  ASSUME RInv
  PROVE  /\ harts \in [Harts -> XorHart]
         /\ ndmreset \in BOOLEAN /\ hartreset_level \in BOOLEAN /\ dcsrStep \in BOOLEAN
         /\ hartsel \in Nat
  <1>1. harts \in [Harts -> HartState] /\ \A i \in Harts : harts[i].halted # harts[i].running
    BY DEF RInv, IInv, TypeOK, HaltXorRun
  <1>2. harts \in [Harts -> XorHart]
    BY <1>1 DEF XorHart
  <1>3. QED
    BY <1>2 DEF RInv, IInv, TypeOK

\* predictor._write_dmcontrol with dmactive=1, from a debugger that keeps the
\* selection while hartreset is 1.
LEMMA WriteRInv ==
  ASSUME RInv, NEW f \in Writes, Legal(f), WriteActive(f)
  PROVE  HaltXorRun' /\ HartresetFollowsLevel' /\ ResetRuns'
  <1>1. f \in Fields
    BY ConfigAssumption
  <1> DEFINE hr == f.hartreset /\ SupportsHartreset
  <1>2. /\ hartreset_level' = hr /\ hr \in BOOLEAN /\ hartsel' = f.hartsel /\ ndmreset' = f.ndmreset
        /\ f.dmactive
    BY <1>1, FieldTypes DEF WriteActive
  <1>3. ASSUME NEW i \in Harts
        PROVE  /\ harts'[i] \in XorHart
               /\ harts'[i].hart_reset <=> (hr /\ i = f.hartsel)
               /\ f.ndmreset \/ harts'[i].hart_reset => ~harts'[i].halted
    <2>1. harts[i] \in XorHart /\ (harts[i].hart_reset <=> (hartreset_level /\ i = hartsel))
          /\ harts[i].hart_reset \in BOOLEAN
      BY RTypes DEF RInv, HartresetFollowsLevel, XorHart, HartState
    <2>2. hartreset_level => f.hartsel = hartsel
      BY <1>2 DEF Legal
    <2>3. CASE i = f.hartsel
      <3>1. harts'[i] = SelectedAfter(harts[i], f)
        BY <2>3 DEF WriteActive
      <3>2. harts'[i].hart_reset = (IF hr = hartreset_level THEN harts[i].hart_reset ELSE hr)
            /\ harts'[i] \in XorHart /\ (f.ndmreset \/ harts'[i].hart_reset => ~harts'[i].halted)
        BY <1>1, <2>1, <3>1, RTypes, SelectedFacts
      <3>3. QED
        BY <1>2, <2>1, <2>2, <2>3, <3>2, RTypes
    <2>4. CASE i # f.hartsel
      <3>1. harts'[i] = UnselectedAfter(harts[i], f)
        BY <2>4 DEF WriteActive
      <3>2. harts'[i].hart_reset = harts[i].hart_reset
            /\ harts'[i] \in XorHart /\ (f.ndmreset \/ harts'[i].hart_reset => ~harts'[i].halted)
        BY <1>1, <2>1, <3>1, RTypes, UnselectedFacts
      <3>3. QED
        BY <2>1, <2>2, <2>4, <3>2
    <2>5. QED
      BY <2>3, <2>4
  <1>4. QED
    BY <1>2, <1>3 DEF HaltXorRun, HartresetFollowsLevel, ResetRuns, XorHart

\* predictor.reset_dm: the run state is the hart's own, every level is gone.
LEMMA ResetRInv ==
  ASSUME RInv, NEW f \in Writes, ResetDm(f)
  PROVE  HaltXorRun' /\ HartresetFollowsLevel' /\ ResetRuns'
  <1>1. ASSUME NEW i \in Harts
        PROVE  /\ harts'[i].halted = harts[i].halted /\ harts'[i].running = harts[i].running
               /\ ~harts'[i].hart_reset
    BY RTypes DEF ResetDm, ResetDmHart, XorHart, HartState
  <1>2. hartreset_level' = FALSE /\ ndmreset' = FALSE
    BY DEF ResetDm
  <1>3. QED
    BY <1>1, <1>2 DEF RInv, HaltXorRun, HartresetFollowsLevel, ResetRuns

\* Every operation the observer sees keeps the invariant.
LEMMA NextRInv == RInv /\ [INext]_ivars => RInv'
  <1> SUFFICES ASSUME RInv, [INext]_ivars PROVE RInv'
    OBVIOUS
  <1>1. [Next]_vars
    BY DEF INext, ivars, vars, Next, ObservedWrite, ObservedDcsr, ObservedPostexec
  <1>2. IInv'
    BY <1>1, NextIInv DEF RInv
  <1>3. ASSUME NEW f \in Writes, ObservedWrite(f)
        PROVE  HaltXorRun' /\ HartresetFollowsLevel' /\ ResetRuns'
    BY <1>3, WriteRInv, ResetRInv DEF ObservedWrite, WriteDmcontrol
  <1>4. ASSUME UNCHANGED <<ndmreset, hartsel, hartreset_level, harts>>
        PROVE  HaltXorRun' /\ HartresetFollowsLevel' /\ ResetRuns'
    BY <1>4 DEF RInv, HaltXorRun, HartresetFollowsLevel, ResetRuns
  <1>5. QED
    BY <1>2, <1>3, <1>4
    DEF INext, ivars, ObservedDcsr, ObservedPostexec, WriteDcsr, Postexec, RInv

\* predictor.__init__ establishes it.
LEMMA InitRInv == IInit => RInv
  <1> SUFFICES ASSUME IInit PROVE RInv
    OBVIOUS
  <1>1. IInv
    BY InitIInv DEF IInit
  <1>2. QED
    BY <1>1 DEF IInit, Init, PowerOnHart, RInv, HaltXorRun, HartresetFollowsLevel, ResetRuns

\* The invariant of the observed model.
THEOREM ObservedInvariance == ISpec => []RInv
  BY InitRInv, NextRInv, PTL DEF ISpec

\* predictor._settle_reset_state: without observations a hart is always exactly
\* one of halted and running, for any number of harts and any configuration, so
\* the edge _inv_reset_release looks for never comes.
THEOREM HaltXorRunHolds == ISpec => []HaltXorRun
  <1>1. RInv => HaltXorRun
    BY DEF RInv
  <1>2. QED
    BY <1>1, ObservedInvariance, PTL

\* predictor._apply_hartreset: no hart is left behind in reset when the level is
\* kept once for all of them and the debugger keeps the selection.
THEOREM HartresetFollowsLevelHolds == ISpec => []HartresetFollowsLevel
  <1>1. RInv => HartresetFollowsLevel
    BY DEF RInv
  <1>2. QED
    BY <1>1, ObservedInvariance, PTL

-----------------------------------------------------------------------------
(* The rules of invariants.py. *)

\* check_all after a write with dmactive=1.
LEMMA RulesOfWrite ==
  ASSUME RInv, dcsrStep = FALSE, ~ResumeOnRelease,
         NEW f \in Writes, Legal(f), WriteActive(f)
  PROVE  CheckAllWrite(f) = {}
  <1>1. f \in Fields /\ f.dmactive = TRUE
    BY ConfigAssumption DEF WriteActive, Fields
  <1>2. HaltXorRun'
    BY WriteRInv
  <1>3. InvHaltedRunningMutex = {}
    BY <1>2 DEF InvHaltedRunningMutex, HaltXorRun
  <1>4. ASSUME NEW i \in Harts
        PROVE  /\ i = f.hartsel /\ f.ackhavereset => ~harts'[i].havereset
               /\ ~(i = f.hartsel /\ f.ackhavereset) /\ harts[i].havereset => harts'[i].havereset
               /\ i # f.hartsel => harts'[i].reset_haltreq = harts[i].reset_haltreq
    <2>1. CASE i = f.hartsel
      <3>1. harts'[i] = SelectedAfter(harts[i], f)
        BY <2>1 DEF WriteActive
      <3>2. QED
        BY <1>1, <2>1, <3>1, RTypes, SelectedFacts
    <2>2. CASE i # f.hartsel
      <3>1. harts'[i] = UnselectedAfter(harts[i], f)
        BY <2>2 DEF WriteActive
      <3>2. QED
        BY <1>1, <2>2, <3>1, RTypes, UnselectedFacts
    <2>3. QED
      BY <2>1, <2>2
  <1>5. Selected = {f.hartsel} \cap Harts
    BY DEF Selected, WriteActive
  <1>6. InvHaveresetSticky(IF f.ackhavereset THEN Selected ELSE {}) = {}
    BY <1>4, <1>5 DEF InvHaveresetSticky
  <1>7. InvResethaltreqPerHart(f) = {}
    BY <1>4, <1>5 DEF InvResethaltreqPerHart
  <1>8. InvDmResetState(f) = {}
    BY <1>1 DEF InvDmResetState
  <1>9. InvResetRelease(f) = {}
    <2>1. \A i \in Harts : ~InReset(harts[i])
      BY RTypes DEF InReset, XorHart, HartState
    <2>2. QED
      BY <2>1 DEF InvResetRelease
  \* Where the rules about requests apply no reset is moved: a selected hart that
  \* is halted is in no reset, and a resume request comes with none in force.
  <1>10. ASSUME ~IsResetWrite(f), NEW i \in Selected,
                harts[i].halted \/ f.resumereq
         PROVE  /\ harts'[i] = SelectedAfter(harts[i], f) /\ harts[i] \in XorHart
                /\ ndmreset = FALSE /\ hartreset_level = FALSE
                /\ ~harts[i].hart_reset /\ ~f.ndmreset /\ ~f.hartreset
    <2>1. i \in Harts /\ i = f.hartsel /\ ~f.ndmreset /\ ~f.hartreset
      BY <1>5, <1>10 DEF IsResetWrite
    <2>2. harts'[i] = SelectedAfter(harts[i], f) /\ harts[i] \in XorHart
      BY <2>1, RTypes DEF WriteActive
    <2>3. ~ndmreset /\ ~hartreset_level
      <3>1. CASE f.resumereq
        BY <3>1 DEF Legal
      <3>2. CASE harts[i].halted
        <4>1. ~ndmreset /\ ~harts[i].hart_reset
          BY <2>1, <3>2 DEF RInv, ResetRuns
        <4>2. hartreset_level => f.hartsel = hartsel
          BY <1>1 DEF Legal
        <4>3. QED
          BY <2>1, <4>1, <4>2 DEF RInv, HartresetFollowsLevel
      <3>3. QED
        BY <1>10, <3>1, <3>2
    <2>4. ~harts[i].hart_reset
      BY <2>1, <2>3 DEF RInv, HartresetFollowsLevel
    <2>5. QED
      BY <2>1, <2>2, <2>3, <2>4, RTypes
  <1>plain. ASSUME ~IsResetWrite(f), NEW i \in Selected, harts[i].halted \/ f.resumereq
        PROVE  /\ f.haltreq /\ harts[i].halted =>
                     /\ harts'[i].halted /\ ~harts'[i].running
                     /\ harts'[i].resume_ack = harts[i].resume_ack
               /\ Resumes(f) /\ harts[i].halted =>
                     ~harts'[i].halted /\ harts'[i].running /\ harts'[i].resume_ack
               /\ Resumes(f) /\ ~harts[i].halted =>
                     ~harts'[i].halted /\ harts'[i].running /\ ~harts'[i].resume_ack
    <2> DEFINE h == harts[i]
    <2>1. /\ harts'[i] = SelectedAfter(h, f) /\ h \in XorHart
          /\ ndmreset = FALSE /\ hartreset_level = FALSE
          /\ ~h.hart_reset /\ ~f.ndmreset /\ ~f.hartreset
      BY <1>10, <1>plain
    <2> HIDE DEF h
    <2>2. LET g == SelectedAfter(h, f)
          IN  /\ f.haltreq /\ h.halted => g.halted /\ ~g.running /\ g.resume_ack = h.resume_ack
              /\ Resumes(f) /\ h.halted => ~g.halted /\ g.running /\ g.resume_ack
              /\ Resumes(f) /\ ~h.halted => ~g.halted /\ g.running /\ ~g.resume_ack
      BY <1>1, <2>1, QuietWrite
    <2>3. QED
      BY <2>1, <2>2 DEF h
  <1>11. InvResumereqIgnoredWhenHaltreq(f) = {}
    BY <1>plain DEF InvResumereqIgnoredWhenHaltreq
  <1>12. InvHaltedIgnoresHaltreq(f) = {}
    BY <1>plain DEF InvHaltedIgnoresHaltreq
  <1>13. InvResumereq(f) = {}
    <2>1. CASE f.resumereq /\ ~f.haltreq /\ ~IsResetWrite(f)
      <3>1. Resumes(f)
        BY <2>1 DEF Resumes
      <3>2. ASSUME NEW i \in Selected
            PROVE  /\ harts[i].halted => ~harts'[i].halted /\ harts'[i].running /\ harts'[i].resume_ack
                   /\ ~harts[i].halted => ~harts'[i].halted /\ harts'[i].running /\ ~harts'[i].resume_ack
        BY <1>plain, <2>1, <3>1
      <3>3. QED
        BY <2>1, <3>2 DEF InvResumereq
    <2>2. CASE ~(f.resumereq /\ ~f.haltreq /\ ~IsResetWrite(f))
      BY <2>2 DEF InvResumereq
    <2>3. QED
      BY <2>1, <2>2
  <1>14. QED
    BY <1>3, <1>6, <1>7, <1>8, <1>9, <1>11, <1>12, <1>13 DEF CheckAllWrite

\* check_all after a write with dmactive=0.
LEMMA RulesOfReset ==
  ASSUME RInv, NEW f \in Writes, ResetDm(f)
  PROVE  CheckAllWrite(f) = {}
  <1>1. ~f.dmactive
    BY DEF ResetDm
  <1>2. InvHaltedRunningMutex = {}
    BY ResetRInv DEF InvHaltedRunningMutex, HaltXorRun
  <1>3. \A i \in Harts : ~harts'[i].halt_request /\ ~harts'[i].reset_haltreq
    BY RTypes DEF ResetDm, ResetDmHart, XorHart, HartState
  <1>4. InvDmResetState(f) = {}
    BY <1>3 DEF InvDmResetState, ResetDm
  <1>5. QED
    BY <1>1, <1>2, <1>4
    DEF CheckAllWrite, InvResumereqIgnoredWhenHaltreq, InvHaltedIgnoresHaltreq, InvResumereq,
        InvResetRelease, InvResethaltreqPerHart

\* check_all after an operation that writes no dmcontrol.
LEMMA RulesOfOther ==
  ASSUME RInv, UNCHANGED harts
  PROVE  CheckAllOther = {}
  BY DEF CheckAllOther, InvHaltedRunningMutex, InvHaveresetSticky, RInv, HaltXorRun

\* invariants.py: "a violation is always a real finding".  The model breaks none
\* of its own rules, for any number of harts and any configuration, under a
\* debugger that keeps the rules of the specification, arms no step and does not
\* resume in the write that releases a reset.
THEOREM NoDutViolationHolds ==
    ~StepArming /\ ~ResumeOnRelease => (ISpec => []NoDutViolation)
  <1> SUFFICES ASSUME ~StepArming, ~ResumeOnRelease PROVE ISpec => []NoDutViolation
    OBVIOUS
  <1> DEFINE NoStep == dcsrStep = FALSE
             VInv == NoStep /\ NoDutViolation
  <1>1. IInit => VInv
    BY DEF IInit, Init, NoDutViolation
  <1>2. RInv /\ VInv /\ [INext]_ivars => VInv'
    <2> SUFFICES ASSUME RInv, VInv, [INext]_ivars PROVE VInv'
      OBVIOUS
    <2>1. ASSUME NEW f \in Writes, ObservedWrite(f) PROVE VInv'
      <3>1. CASE WriteActive(f)
        BY <2>1, <3>1, RulesOfWrite DEF ObservedWrite, NoDutViolation, WriteActive
      <3>2. CASE ResetDm(f)
        BY <2>1, <3>2, RulesOfReset DEF ObservedWrite, NoDutViolation, ResetDm
      <3>3. QED
        BY <2>1, <3>1, <3>2 DEF ObservedWrite, WriteDmcontrol
    <2>2. ASSUME NEW step \in BOOLEAN, ObservedDcsr(step) PROVE VInv'
      BY <2>2, RulesOfOther DEF ObservedDcsr, WriteDcsr, NoDutViolation
    <2>3. CASE ObservedPostexec
      BY <2>3, RulesOfOther DEF ObservedPostexec, Postexec, NoDutViolation
    <2>4. CASE UNCHANGED ivars
      BY <2>4 DEF ivars, NoDutViolation
    <2>5. QED
      BY <2>1, <2>2, <2>3, <2>4 DEF INext
  <1>3. VInv => NoDutViolation
    OBVIOUS
  <1> HIDE DEF VInv
  <1>4. QED
    BY <1>1, <1>2, <1>3, ObservedInvariance, PTL DEF ISpec
=============================================================================
