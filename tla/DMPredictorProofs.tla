-------------------------- MODULE DMPredictorProofs --------------------------
(***************************************************************************)
(* For every number of harts, every set of dmcontrol words and every       *)
(* declared configuration: the run-control model is type correct, never    *)
(* makes a hart both halted and running of its own accord, stays at its    *)
(* reset state while dmactive is 0, and keeps its promises about releasing *)
(* ndmreset.                                                               *)
(*                                                                         *)
(* A dmcontrol write is a pipeline of per-hart operators, one per method   *)
(* of the model, so the proof is one lemma per operator: it maps a hart    *)
(* that is halted and running only if b to such a hart, for b = TRUE (type *)
(* correctness) as for b = FALSE (the exclusion).                          *)
(***************************************************************************)
EXTENDS DMPredictor, TLAPS

\* The hart states that are halted and running only if b.
Tame(b) == {h \in HartState : Both(h) => b}

\* With b = TRUE that is every hart state.
LEMMA TameTrue == Tame(TRUE) = HartState
  BY DEF Tame

\* predictor.reset_dm with power_on: the harts start running, not halted.
LEMMA PowerOnGood == PowerOnHart \in Tame(FALSE)
  BY ConfigAssumption DEF PowerOnHart, Tame, Both, HartState

\* predictor.reset_dm: a DM reset does not touch the hart's run state.
LEMMA ResetDmGood ==
  ASSUME NEW b \in BOOLEAN, NEW h \in Tame(b)
  PROVE  ResetDmHart(h) \in Tame(b)
  BY ConfigAssumption DEF ResetDmHart, Tame, Both, HartState

\* predictor._release_from_reset leaves a hart either halted or running.
LEMMA ReleaseGood ==
  ASSUME NEW b \in BOOLEAN, NEW h \in HartState
  PROVE  ReleaseFromReset(h) \in Tame(b)
  BY DEF ReleaseFromReset, Tame, Both, HartState

\* predictor._apply_ndmreset.
LEMMA NdmresetGood ==
  ASSUME NEW b \in BOOLEAN, ndmreset \in BOOLEAN, NEW h \in Tame(b), NEW a \in BOOLEAN
  PROVE  ApplyNdmreset(h, a) \in Tame(b)
  <1>1. CASE a /\ ~ndmreset
    BY <1>1, ConfigAssumption DEF ApplyNdmreset, Tame, Both, HartState
  <1>2. CASE ~a /\ ndmreset
    BY <1>2, ReleaseGood DEF ApplyNdmreset, Tame, Both
  <1>3. QED
    BY <1>1, <1>2 DEF ApplyNdmreset

\* predictor._apply_hartreset.
LEMMA HartresetGood ==
  ASSUME NEW b \in BOOLEAN, hartreset_level \in BOOLEAN, NEW h \in Tame(b), NEW a \in BOOLEAN
  PROVE  ApplyHartreset(h, a) \in Tame(b)
  <1>1. CASE a /\ ~hartreset_level
    BY <1>1, ConfigAssumption DEF ApplyHartreset, Tame, Both, HartState
  <1>2. CASE ~a /\ hartreset_level
    <2>1. [h EXCEPT !.hart_reset = FALSE] \in HartState
      BY DEF Tame, Both, HartState
    <2>2. QED
      BY <1>2, <2>1, ReleaseGood DEF ApplyHartreset
  <1>3. QED
    BY <1>1, <1>2 DEF ApplyHartreset

\* predictor._write_dmcontrol, the set/clrresethaltreq branch.
LEMMA ResethaltreqGood ==
  ASSUME NEW b \in BOOLEAN, NEW h \in Tame(b), NEW f \in Fields
  PROVE  ApplyResethaltreq(h, f) \in Tame(b)
  BY DEF ApplyResethaltreq, Tame, Both, HartState, Fields

\* predictor._write_dmcontrol, the ackhavereset branch.
LEMMA AckGood ==
  ASSUME NEW b \in BOOLEAN, NEW h \in Tame(b), NEW f \in Fields
  PROVE  AckHavereset(h, f) \in Tame(b)
  BY DEF AckHavereset, Tame, Both, HartState, Fields

\* The three fields the haltreq branch assigns take any truth values.
LEMMA HaltFieldsTyped ==
  ASSUME NEW h \in HartState, NEW a \in BOOLEAN, NEW b \in BOOLEAN, NEW c \in BOOLEAN
  PROVE  [h EXCEPT !.halt_request = a, !.halted = b, !.running = c] \in HartState
  BY DEF HartState

\* predictor._write_dmcontrol, the haltreq branch.
LEMMA HaltreqGood ==
  ASSUME NEW b \in BOOLEAN, NEW h \in Tame(b), NEW f \in Fields
  PROVE  ApplyHaltreq(h, f) \in Tame(b)
  <1> DEFINE halts == f.haltreq /\ h.running /\ ~h.halted
             g == ApplyHaltreq(h, f)
  <1>1. g \in HartState
    <2> DEFINE nowHalted == h.halted \/ halts
               nowRunning == h.running /\ ~halts
    <2>1. h \in HartState
      BY DEF Tame, Both
    <2>2. f.haltreq \in BOOLEAN
      BY DEF Fields
    <2>3. nowHalted \in BOOLEAN /\ nowRunning \in BOOLEAN
      OBVIOUS
    <2>4. g = [h EXCEPT !.halt_request = f.haltreq, !.halted = nowHalted, !.running = nowRunning]
      BY DEF ApplyHaltreq
    <2> HIDE DEF nowHalted, nowRunning, halts, g
    <2> QED BY <2>1, <2>2, <2>3, <2>4, HaltFieldsTyped
  <1>2. g.running = (h.running /\ ~halts) /\ g.halted = (h.halted \/ halts)
    BY DEF ApplyHaltreq, Tame, Both, HartState
  <1>3. h.halted /\ h.running => b
    BY DEF Tame, Both
  <1>4. QED
    BY <1>1, <1>2, <1>3 DEF Tame, Both

\* predictor._apply_resumereq.
LEMMA ResumereqGood ==
  ASSUME NEW b \in BOOLEAN, dcsrStep \in BOOLEAN, NEW h \in Tame(b)
  PROVE  ApplyResumereq(h) \in Tame(b)
  BY DEF ApplyResumereq, Tame, Both, HartState

\* predictor._settle_reset_state.
LEMMA SettleGood ==
  ASSUME NEW b \in BOOLEAN, NEW h \in Tame(b), NEW a \in BOOLEAN
  PROVE  SettleResetState(h, a) \in Tame(b)
  BY DEF SettleResetState, Tame, Both, HartState

\* The fields of a dmcontrol word that are Booleans.
LEMMA FieldTypes ==
  ASSUME NEW f \in Fields
  PROVE  /\ f.dmactive \in BOOLEAN
         /\ f.ndmreset \in BOOLEAN
         /\ (f.hartreset /\ SupportsHartreset) \in BOOLEAN
         /\ (f.hasel /\ SupportsHasel) \in BOOLEAN
         /\ f.hartsel \in Nat
         /\ Resumes(f) \in BOOLEAN
  BY ConfigAssumption DEF Fields, Resumes

\* predictor._write_dmcontrol up to the resume request, for the selected hart.
LEMMA BeforeResumeGood ==
  ASSUME NEW b \in BOOLEAN, ndmreset \in BOOLEAN, hartreset_level \in BOOLEAN,
         NEW h \in Tame(b), NEW f \in Fields
  PROVE  BeforeResume(h, f) \in Tame(b)
  <1> DEFINE h1 == ApplyNdmreset(h, f.ndmreset)
             h2 == ApplyHartreset(h1, f.hartreset /\ SupportsHartreset)
             h3 == ApplyResethaltreq(h2, f)
             h4 == AckHavereset(h3, f)
  <1>1. h1 \in Tame(b)
    BY NdmresetGood, FieldTypes
  <1>2. h2 \in Tame(b)
    BY <1>1, HartresetGood, FieldTypes
  <1>3. h3 \in Tame(b)
    BY <1>2, ResethaltreqGood
  <1>4. h4 \in Tame(b)
    BY <1>3, AckGood
  <1>5. ApplyHaltreq(h4, f) \in Tame(b)
    BY <1>4, HaltreqGood
  <1>6. QED
    BY <1>5 DEF BeforeResume

\* predictor._write_dmcontrol, the selected hart.
LEMMA SelectedGood ==
  ASSUME NEW b \in BOOLEAN, ndmreset \in BOOLEAN, hartreset_level \in BOOLEAN, dcsrStep \in BOOLEAN,
         NEW h \in Tame(b), NEW f \in Fields
  PROVE  SelectedAfter(h, f) \in Tame(b)
  <1> DEFINE g == BeforeResume(h, f)
             r == IF Resumes(f) THEN ApplyResumereq(g) ELSE g
  <1>1. g \in Tame(b)
    BY BeforeResumeGood
  <1> HIDE DEF g
  <1>2. r \in Tame(b)
    BY <1>1, ResumereqGood
  <1>3. SettleResetState(r, f.ndmreset) \in Tame(b)
    BY <1>2, SettleGood, FieldTypes
  <1>4. QED
    BY <1>3 DEF SelectedAfter, g

\* predictor._write_dmcontrol, every other hart.
LEMMA UnselectedGood ==
  ASSUME NEW b \in BOOLEAN, ndmreset \in BOOLEAN, NEW h \in Tame(b), NEW f \in Fields
  PROVE  UnselectedAfter(h, f) \in Tame(b)
  BY NdmresetGood, SettleGood, FieldTypes DEF UnselectedAfter

\* The same stages as type facts: each maps a hart state to a hart state.
LEMMA StagesTyped ==
  ASSUME ndmreset \in BOOLEAN, hartreset_level \in BOOLEAN, dcsrStep \in BOOLEAN,
         NEW h \in HartState, NEW f \in Fields, NEW a \in BOOLEAN
  PROVE  /\ ResetDmHart(h) \in HartState
         /\ ReleaseFromReset(h) \in HartState
         /\ ApplyNdmreset(h, a) \in HartState
         /\ ApplyHartreset(h, a) \in HartState
         /\ ApplyResethaltreq(h, f) \in HartState
         /\ AckHavereset(h, f) \in HartState
         /\ ApplyResumereq(h) \in HartState
         /\ BeforeResume(h, f) \in HartState
         /\ SelectedAfter(h, f) \in HartState
         /\ UnselectedAfter(h, f) \in HartState
  <1>1. TRUE \in BOOLEAN /\ h \in Tame(TRUE)
    BY TameTrue
  <1>2. /\ ResetDmHart(h) \in Tame(TRUE)
        /\ ReleaseFromReset(h) \in Tame(TRUE)
        /\ ApplyNdmreset(h, a) \in Tame(TRUE)
        /\ ApplyHartreset(h, a) \in Tame(TRUE)
    BY <1>1, ResetDmGood, ReleaseGood, NdmresetGood, HartresetGood
  <1>3. /\ ApplyResethaltreq(h, f) \in Tame(TRUE)
        /\ AckHavereset(h, f) \in Tame(TRUE)
        /\ ApplyResumereq(h) \in Tame(TRUE)
    BY <1>1, ResethaltreqGood, AckGood, ResumereqGood
  <1>4. /\ BeforeResume(h, f) \in Tame(TRUE)
        /\ SelectedAfter(h, f) \in Tame(TRUE)
        /\ UnselectedAfter(h, f) \in Tame(TRUE)
    BY <1>1, BeforeResumeGood, SelectedGood, UnselectedGood
  <1>5. QED
    BY <1>2, <1>3, <1>4, TameTrue

-----------------------------------------------------------------------------
\* The inductive invariant: type correctness and the reset state of an
\* inactive DM.
IInv == TypeOK /\ DmResetState

\* predictor.__init__ establishes the invariant.
LEMMA InitIInv == Init => IInv
  <1> SUFFICES ASSUME Init PROVE IInv
    OBVIOUS
  <1>1. harts \in [Harts -> HartState]
    BY PowerOnGood DEF Init, Tame
  <1>2. TypeOK
    BY <1>1 DEF Init, TypeOK
  <1>3. DmResetState
    BY DEF Init, DmResetState, PowerOnHart
  <1>4. QED
    BY <1>2, <1>3 DEF IInv

\* predictor._write_dmcontrol with dmactive=0.
LEMMA ResetDmIInv == ASSUME IInv, NEW f \in Writes, ResetDm(f) PROVE IInv'
  <1>1. harts \in [Harts -> HartState]
    BY DEF IInv, TypeOK
  <1>2. harts' \in [Harts -> HartState]
    BY <1>1, ConfigAssumption DEF ResetDm, ResetDmHart, HartState
  <1>3. TypeOK'
    BY <1>2 DEF ResetDm, IInv, TypeOK
  <1>4. \A i \in Harts : /\ ~harts'[i].halt_request
                         /\ ~harts'[i].reset_haltreq
                         /\ ~harts'[i].hart_reset
    BY <1>1 DEF ResetDm, ResetDmHart, HartState
  <1>5. DmResetState'
    BY <1>4 DEF ResetDm, DmResetState
  <1>6. QED
    BY <1>3, <1>5 DEF IInv

\* predictor._write_dmcontrol with dmactive=1.
LEMMA WriteActiveIInv == ASSUME IInv, NEW f \in Writes, WriteActive(f) PROVE IInv'
  <1>1. f \in Fields
    BY ConfigAssumption
  <1>2. harts \in [Harts -> HartState]
    BY DEF IInv, TypeOK
  <1>3. ASSUME NEW i \in Harts
        PROVE  (IF i = f.hartsel THEN SelectedAfter(harts[i], f)
                                 ELSE UnselectedAfter(harts[i], f)) \in HartState
    BY <1>1, <1>2, StagesTyped DEF IInv, TypeOK
  <1>4. harts' \in [Harts -> HartState]
    BY <1>3 DEF WriteActive
  <1>5. /\ dmactive' = TRUE
        /\ ndmreset' \in BOOLEAN
        /\ hartsel' \in Nat
        /\ hasel' \in BOOLEAN
        /\ hartreset_level' \in BOOLEAN
        /\ dcsrStep' \in BOOLEAN
    BY <1>1, FieldTypes DEF WriteActive
  <1>6. TypeOK'
    BY <1>4, <1>5 DEF TypeOK
  <1>7. QED
    BY <1>5, <1>6 DEF IInv, DmResetState

\* predictor._execute_command touches the shadow only.
LEMMA CommandIInv ==
  ASSUME IInv, Postexec \/ \E step \in BOOLEAN : WriteDcsr(step)
  PROVE  IInv'
  <1>1. UNCHANGED <<dmactive, ndmreset, hartsel, hasel, hartreset_level, harts>>
    BY DEF Postexec, WriteDcsr
  <1>2. dcsrStep' \in BOOLEAN
    BY DEF Postexec, WriteDcsr
  <1>3. QED
    BY <1>1, <1>2 DEF IInv, TypeOK, DmResetState

\* predictor.sync_observed_hart_signals.
LEMMA SyncIInv ==
  ASSUME IInv, NEW o \in Observations, SyncObservedHartSignals(o)
  PROVE  IInv'
  <1> DEFINE new == [harts[hartsel] EXCEPT !.halted = o.halted, !.running = o.running,
                                           !.resume_ack = o.resume_ack]
  <1>1. harts \in [Harts -> HartState] /\ hartsel \in Harts
    BY DEF IInv, TypeOK, SyncObservedHartSignals
  <1>2. new \in HartState
    BY <1>1 DEF HartState, Observations
  <1>3. harts' = [harts EXCEPT ![hartsel] = new]
    BY <1>1 DEF SyncObservedHartSignals
  <1>4. harts' \in [Harts -> HartState]
    BY <1>1, <1>2, <1>3
  <1>5. TypeOK'
    BY <1>4 DEF SyncObservedHartSignals, IInv, TypeOK
  <1>6. /\ new.halt_request = harts[hartsel].halt_request
        /\ new.reset_haltreq = harts[hartsel].reset_haltreq
        /\ new.hart_reset = harts[hartsel].hart_reset
    BY <1>1 DEF HartState
  <1>7. DmResetState'
    BY <1>1, <1>3, <1>6 DEF SyncObservedHartSignals, IInv, DmResetState
  <1>8. QED
    BY <1>5, <1>7 DEF IInv

\* Every step of the model preserves the invariant.
LEMMA NextIInv == IInv /\ [Next]_vars => IInv'
  <1> SUFFICES ASSUME IInv, [Next]_vars PROVE IInv'
    OBVIOUS
  <1>1. ASSUME NEW f \in Writes, WriteDmcontrol(f) PROVE IInv'
    BY <1>1, ResetDmIInv, WriteActiveIInv DEF WriteDmcontrol
  <1>2. CASE Postexec \/ \E step \in BOOLEAN : WriteDcsr(step)
    BY <1>2, CommandIInv
  <1>3. ASSUME NEW o \in Observations, SyncObservedHartSignals(o) PROVE IInv'
    BY <1>3, SyncIInv
  <1>4. CASE UNCHANGED vars
    BY <1>4 DEF vars, IInv, TypeOK, DmResetState
  <1>5. QED
    BY <1>1, <1>2, <1>3, <1>4 DEF Next

\* The inductive invariant holds in every reachable state of the model.
THEOREM Invariance == Spec => []IInv
  BY InitIInv, NextIInv, PTL DEF Spec

\* predictor.py: every attribute keeps its type, whatever is written or observed.
THEOREM TypeCorrect == Spec => []TypeOK
  <1>1. IInv => TypeOK
    BY DEF IInv
  <1>2. QED
    BY <1>1, Invariance, PTL

\* predictor.reset_dm: an inactive DM stays at its reset state.
THEOREM DmResetStateHolds == Spec => []DmResetState
  <1>1. IInv => DmResetState
    BY DEF IInv
  <1>2. QED
    BY <1>1, Invariance, PTL

-----------------------------------------------------------------------------
(* The promises about the release of ndmreset, as properties of steps.     *)

\* Only a dmcontrol write with dmactive=1 moves ndmreset and leaves the DM active.
LEMMA OnlyWriteReleases ==
  ASSUME IInv, [Next]_vars, Releases
  PROVE  \E f \in Writes : WriteActive(f) /\ ~f.ndmreset
  <1>1. \A f \in Writes : ResetDm(f) => ~Releases
    BY DEF ResetDm, Releases
  <1>2. Postexec \/ (\E step \in BOOLEAN : WriteDcsr(step)) => ~Releases
    BY DEF Postexec, WriteDcsr, Releases
  <1>3. \A o \in Observations : SyncObservedHartSignals(o) => ~Releases
    BY DEF SyncObservedHartSignals, Releases
  <1>4. UNCHANGED vars => ~Releases
    BY DEF vars, Releases
  <1>5. \A f \in Writes : WriteActive(f) => ~f.ndmreset
    BY DEF WriteActive, Releases
  <1>6. QED
    BY <1>1, <1>2, <1>3, <1>4, <1>5 DEF Next, WriteDmcontrol

\* predictor._release_from_reset, on a hart no hartreset holds afterwards.
LEMMA ReleaseUnselected ==
  ASSUME ndmreset = TRUE, NEW h \in HartState, NEW f \in Fields, ~f.ndmreset
  PROVE  LET g == UnselectedAfter(h, f)
         IN  /\ g.havereset
             /\ g.hart_reset = h.hart_reset
             /\ ~h.hart_reset /\ (h.reset_haltreq \/ h.halt_request) => g.halted
  <1>1. f.ndmreset = FALSE
    BY DEF Fields
  <1>2. UnselectedAfter(h, f) = SettleResetState(ReleaseFromReset(h), FALSE)
    BY <1>1 DEF UnselectedAfter, ApplyNdmreset
  <1> DEFINE r == ReleaseFromReset(h)
  <1>3. /\ r \in HartState /\ r.havereset /\ r.hart_reset = h.hart_reset
        /\ h.reset_haltreq \/ h.halt_request => r.halted
    BY DEF ReleaseFromReset, HartState
  <1> HIDE DEF r
  <1>4. /\ SettleResetState(r, FALSE).havereset = r.havereset
        /\ SettleResetState(r, FALSE).hart_reset = r.hart_reset
        /\ ~r.hart_reset => SettleResetState(r, FALSE) = r
    BY <1>3 DEF SettleResetState, HartState
  <1>5. QED
    BY <1>2, <1>3, <1>4 DEF r

\* The stages after hartreset leave hart_reset alone and never un-halt a hart.
LEMMA RequestsKeepHalt ==
  ASSUME NEW h \in HartState, NEW f \in Fields
  PROVE  LET g == ApplyHaltreq(AckHavereset(ApplyResethaltreq(h, f), f), f)
         IN  g.hart_reset = h.hart_reset /\ (h.halted => g.halted)
  <1> DEFINE h3 == ApplyResethaltreq(h, f)
             h4 == AckHavereset(h3, f)
  <1>1. h3 \in HartState /\ h4 \in HartState
    BY DEF ApplyResethaltreq, AckHavereset, HartState, Fields
  <1>2. h3.hart_reset = h.hart_reset /\ h3.halted = h.halted
    BY DEF ApplyResethaltreq, HartState
  <1> HIDE DEF h3
  <1>3. h4.hart_reset = h3.hart_reset /\ h4.halted = h3.halted
    BY <1>1 DEF AckHavereset, HartState
  <1> HIDE DEF h4
  <1>4. /\ ApplyHaltreq(h4, f).hart_reset = h4.hart_reset
        /\ h4.halted => ApplyHaltreq(h4, f).halted
    BY <1>1 DEF ApplyHaltreq, HartState
  <1>5. QED
    BY <1>2, <1>3, <1>4 DEF h3, h4

\* predictor._write_dmcontrol releasing ndmreset, up to the resume request: the
\* selected hart is halted if a halt was wanted, or is put into hartreset.
LEMMA ReleaseBeforeResume ==
  ASSUME ndmreset = TRUE, hartreset_level \in BOOLEAN,
         NEW h \in HartState, NEW f \in Fields, ~f.ndmreset,
         h.reset_haltreq \/ h.halt_request
  PROVE  BeforeResume(h, f).halted \/ BeforeResume(h, f).hart_reset
  <1> DEFINE hr == f.hartreset /\ SupportsHartreset
             h1 == ApplyNdmreset(h, f.ndmreset)
             h2 == ApplyHartreset(h1, hr)
  <1>1. f.ndmreset = FALSE /\ hr \in BOOLEAN
    BY FieldTypes DEF Fields
  <1>2. h1 = ReleaseFromReset(h)
    BY <1>1 DEF ApplyNdmreset
  <1>3. h1 \in HartState /\ h1.halted /\ (h1.reset_haltreq \/ h1.halt_request)
    <2>1. h \in HartState
      OBVIOUS
    <2>2. ReleaseFromReset(h) \in HartState
      BY DEF ReleaseFromReset, HartState
    <2>3. /\ ReleaseFromReset(h).halted = (h.reset_haltreq \/ h.halt_request)
          /\ ReleaseFromReset(h).reset_haltreq = h.reset_haltreq
          /\ ReleaseFromReset(h).halt_request = h.halt_request
      BY <2>1 DEF ReleaseFromReset, HartState
    <2>4. QED
      BY <1>2, <2>2, <2>3
  <1> HIDE DEF h1
  <1>4. h2 \in HartState
    BY <1>1, <1>3, TameTrue, HartresetGood
  <1>5. h2.halted \/ h2.hart_reset
    <2>1. CASE hr /\ ~hartreset_level
      BY <2>1, <1>3 DEF ApplyHartreset, HartState
    <2>2. CASE ~hr /\ hartreset_level
      BY <2>2, <1>3 DEF ApplyHartreset, ReleaseFromReset, HartState
    <2>3. QED
      BY <1>3, <2>1, <2>2 DEF ApplyHartreset
  <1>6. BeforeResume(h, f) = ApplyHaltreq(AckHavereset(ApplyResethaltreq(h2, f), f), f)
    BY DEF BeforeResume, h1
  <1> HIDE DEF h2
  <1>7. QED
    BY <1>4, <1>5, <1>6, RequestsKeepHalt

\* The same for the whole write: the resume acknowledges, and a hart left in
\* hartreset stays there.
LEMMA ReleaseSelected ==
  ASSUME ndmreset = TRUE, hartreset_level \in BOOLEAN, dcsrStep \in BOOLEAN,
         NEW h \in HartState, NEW f \in Fields, ~f.ndmreset,
         h.reset_haltreq \/ h.halt_request,
         ~SelectedAfter(h, f).hart_reset
  PROVE  SelectedAfter(h, f).halted \/ SelectedAfter(h, f).resume_ack
  <1> DEFINE g == BeforeResume(h, f)
             r == IF Resumes(f) THEN ApplyResumereq(g) ELSE g
  <1>1. g \in HartState /\ (g.halted \/ g.hart_reset)
    BY TameTrue, BeforeResumeGood, ReleaseBeforeResume
  <1>2. SelectedAfter(h, f) = SettleResetState(r, FALSE)
    BY DEF SelectedAfter, Fields
  <1> HIDE DEF g
  <1>3. r \in HartState
    BY <1>1, TameTrue, ResumereqGood
  <1>4. r.hart_reset = g.hart_reset
    BY <1>1 DEF ApplyResumereq, HartState
  <1>5. g.halted => r.halted \/ r.resume_ack
    BY <1>1 DEF ApplyResumereq, HartState
  <1> HIDE DEF r
  <1>6. SettleResetState(r, FALSE).hart_reset = r.hart_reset
    BY <1>3 DEF SettleResetState, HartState
  <1>7. ~r.hart_reset => SettleResetState(r, FALSE) = r
    BY DEF SettleResetState
  <1>8. QED
    BY <1>1, <1>2, <1>4, <1>5, <1>6, <1>7

\* predictor.py: no method but sync_observed_hart_signals makes a hart both
\* halted and running, and that one only repeats a dmstatus word that shows both.
THEOREM MutexKeptHolds == Spec => MutexKept
  <1>1. IInv /\ [Next]_vars => KeepsMutex
    <2> SUFFICES ASSUME IInv, [Next]_vars, NEW i \in Harts, Both(harts'[i]), ~Both(harts[i])
                 PROVE  \E o \in Observations : Both(o) /\ i = hartsel /\ SyncObservedHartSignals(o)
      BY DEF KeepsMutex
    <2>1. /\ harts \in [Harts -> HartState] /\ harts[i] \in Tame(FALSE)
          /\ ndmreset \in BOOLEAN /\ hartreset_level \in BOOLEAN /\ dcsrStep \in BOOLEAN
      BY DEF IInv, TypeOK, Tame
    <2>2. \A h \in Tame(FALSE) : ~Both(h)
      BY DEF Tame
    <2>3. ASSUME NEW f \in Writes, ResetDm(f) PROVE FALSE
      <3>1. harts'[i] = ResetDmHart(harts[i])
        BY <2>3 DEF ResetDm
      <3>2. QED
        BY <2>1, <2>2, <3>1, ResetDmGood
    <2>4. ASSUME NEW f \in Writes, WriteActive(f) PROVE FALSE
      <3>1. f \in Fields
        BY ConfigAssumption
      <3>2. harts'[i] \in {SelectedAfter(harts[i], f), UnselectedAfter(harts[i], f)}
        BY <2>4 DEF WriteActive
      <3>3. SelectedAfter(harts[i], f) \in Tame(FALSE)
        BY <2>1, <3>1, SelectedGood
      <3>4. UnselectedAfter(harts[i], f) \in Tame(FALSE)
        BY <2>1, <3>1, UnselectedGood
      <3>5. QED
        BY <2>2, <3>2, <3>3, <3>4
    <2>5. CASE Postexec \/ (\E step \in BOOLEAN : WriteDcsr(step)) \/ UNCHANGED vars
      BY <2>5 DEF Postexec, WriteDcsr, vars
    <2>6. ASSUME NEW o \in Observations, SyncObservedHartSignals(o)
          PROVE  Both(o) /\ i = hartsel
      <3>1. hartsel \in Harts
        BY <2>6 DEF SyncObservedHartSignals
      <3>2. i # hartsel => harts'[i] = harts[i]
        BY <2>1, <2>6, <3>1 DEF SyncObservedHartSignals
      <3>3. i = hartsel => harts'[i].halted = o.halted /\ harts'[i].running = o.running
        BY <2>1, <2>6, <3>1 DEF SyncObservedHartSignals, HartState
      <3>4. QED
        BY <3>2, <3>3 DEF Both
    <2>7. QED
      BY <2>3, <2>4, <2>5, <2>6 DEF Next, WriteDmcontrol
  <1>2. QED
    BY <1>1, Invariance, PTL DEF Spec, MutexKept

\* predictor._release_from_reset: a released hart says it has been reset.
THEOREM ReleaseReportsResetHolds == Spec => ReleaseReportsReset
  <1>1. IInv /\ [Next]_vars => ReportsReset
    <2> SUFFICES ASSUME IInv, [Next]_vars, Releases, NEW i \in Harts \ {hartsel'}
                 PROVE  harts'[i].havereset
      BY DEF ReportsReset
    <2>1. PICK f \in Writes : WriteActive(f) /\ ~f.ndmreset
      BY OnlyWriteReleases
    <2>2. f \in Fields /\ harts[i] \in HartState /\ ndmreset = TRUE
      BY ConfigAssumption DEF IInv, Releases, TypeOK
    <2>3. harts'[i] = UnselectedAfter(harts[i], f)
      BY <2>1 DEF WriteActive
    <2>4. QED
      BY <2>1, <2>2, <2>3, ReleaseUnselected
  <1>2. QED
    BY <1>1, Invariance, PTL DEF Spec, ReleaseReportsReset

\* predictor._release_from_reset: halt-on-reset and a standing halt request halt
\* every hart that leaves reset, for any number of harts.
THEOREM HaltOnResetHolds == Spec => HaltOnReset
  <1>1. IInv /\ [Next]_vars => HaltsOnReset
    <2> SUFFICES ASSUME IInv, [Next]_vars, Releases, NEW i \in Harts,
                        harts[i].reset_haltreq \/ harts[i].halt_request,
                        ~harts'[i].hart_reset
                 PROVE  harts'[i].halted \/ (i = hartsel' /\ harts'[i].resume_ack)
      BY DEF HaltsOnReset
    <2>1. PICK f \in Writes : WriteActive(f) /\ ~f.ndmreset
      BY OnlyWriteReleases
    <2>2. f \in Fields /\ harts[i] \in HartState /\ ndmreset = TRUE
      BY ConfigAssumption DEF IInv, Releases, TypeOK
    <2>3. CASE i = f.hartsel
      <3>1. harts'[i] = SelectedAfter(harts[i], f) /\ i = hartsel'
        BY <2>1, <2>3 DEF WriteActive
      <3>2. hartreset_level \in BOOLEAN /\ dcsrStep \in BOOLEAN
        BY DEF IInv, TypeOK
      <3>3. QED
        BY <2>1, <2>2, <3>1, <3>2, ReleaseSelected
    <2>4. CASE i # f.hartsel
      <3>1. harts'[i] = UnselectedAfter(harts[i], f)
        BY <2>1, <2>4 DEF WriteActive
      <3>2. QED
        BY <2>1, <2>2, <3>1, ReleaseUnselected
    <2>5. QED
      BY <2>3, <2>4
  <1>2. QED
    BY <1>1, Invariance, PTL DEF Spec, HaltOnReset

\* predictor._write_dmcontrol: a write reaches the harts it does not select only
\* through ndmreset.
THEOREM UnselectedUndisturbedHolds == Spec => UnselectedUndisturbed
  <1>1. IInv /\ [Next]_vars => LeavesUnselected
    <2> SUFFICES ASSUME IInv, [Next]_vars, dmactive', ndmreset' = ndmreset,
                        NEW i \in Harts \ {hartsel'}
                 PROVE  harts'[i] \in {harts[i], SettleResetState(harts[i], ndmreset)}
      BY DEF LeavesUnselected
    <2>1. ASSUME NEW f \in Writes, WriteActive(f)
          PROVE  harts'[i] = SettleResetState(harts[i], ndmreset)
      <3>1. f.ndmreset = ndmreset /\ ndmreset \in BOOLEAN
        BY <2>1 DEF WriteActive, IInv, TypeOK
      <3>2. harts'[i] = UnselectedAfter(harts[i], f)
        BY <2>1 DEF WriteActive
      <3>3. ApplyNdmreset(harts[i], f.ndmreset) = harts[i]
        BY <3>1 DEF ApplyNdmreset
      <3>4. QED
        BY <3>1, <3>2, <3>3 DEF UnselectedAfter
    <2>2. \A f \in Writes : ~ResetDm(f)
      BY DEF ResetDm
    <2>3. CASE Postexec \/ (\E step \in BOOLEAN : WriteDcsr(step)) \/ UNCHANGED vars
      BY <2>3 DEF Postexec, WriteDcsr, vars
    <2>4. ASSUME NEW o \in Observations, SyncObservedHartSignals(o)
          PROVE  harts'[i] = harts[i]
      BY <2>4 DEF SyncObservedHartSignals, IInv, TypeOK
    <2>5. QED
      BY <2>1, <2>2, <2>3, <2>4 DEF Next, WriteDmcontrol
  <1>2. QED
    BY <1>1, Invariance, PTL DEF Spec, UnselectedUndisturbed
=============================================================================
