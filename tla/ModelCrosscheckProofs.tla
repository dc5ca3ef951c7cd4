------------------------ MODULE ModelCrosscheckProofs ------------------------
(***************************************************************************)
(* The two hand-written models agree: predictor.py and dm_ref_model.sv,    *)
(* given the same writes, commands and observations, hold the same state   *)
(* and predict the same words, for every number of harts, every set of     *)
(* dmcontrol words and every declared configuration.                       *)
(*                                                                         *)
(* The Python model updates one hart at a time, the SystemVerilog model    *)
(* the whole array; so there is one lemma per method, that says what the   *)
(* SystemVerilog function does to each element of the array.               *)
(***************************************************************************)
EXTENDS ModelCrosscheck, DMPredictorProofs

\* The two models apart, the level of hartreset stays with a hart that exists:
\* dm_ref_model.apply_hartreset leaves the level alone when there is none.
LevelHasHart == hartreset_level => hartsel \in Harts

\* The inductive invariant.
XInv == IInv /\ StatesAgree /\ LevelHasHart

-----------------------------------------------------------------------------
(* The functions of dm_ref_model.sv, against the methods of predictor.py.  *)

\* reset_dm.
LEMMA ResetHartAgrees ==
  ASSUME NEW h \in HartState
  PROVE  Sv!reset_hart(h) = ResetDmHart(h)
  <1> DEFINE s == Sv!reset_hart(h)
             p == ResetDmHart(h)
  <1>1. s \in HartState /\ p \in HartState
    BY ConfigAssumption DEF Sv!reset_hart, Sv!power_on_hart, ResetDmHart, HartState
  <1>2. /\ s.halt_request = p.halt_request /\ s.resume_ack = p.resume_ack
        /\ s.reset_haltreq = p.reset_haltreq /\ s.hart_reset = p.hart_reset
        /\ s.halted = p.halted /\ s.running = p.running /\ s.havereset = p.havereset
    BY DEF Sv!reset_hart, Sv!power_on_hart, ResetDmHart, HartState
  <1> HIDE DEF s, p
  <1>3. s = p
    BY <1>1, <1>2 DEF HartState
  <1>4. QED
    BY <1>3 DEF s, p

\* release_from_reset and _release_from_reset.
LEMMA ReleaseAgrees ==
  ASSUME NEW h
  PROVE  Sv!release_from_reset(h) = ReleaseFromReset(h)
  BY DEF Sv!release_from_reset, ReleaseFromReset

\* apply_ndmreset and _apply_ndmreset.
LEMMA NdmresetAgrees ==
  ASSUME StatesAgree, harts \in [Harts -> HartState], NEW a \in BOOLEAN
  PROVE  Sv!apply_ndmreset(sharts, a) = [i \in Harts |-> ApplyNdmreset(harts[i], a)]
  <1>1. sharts = harts /\ sndmreset = ndmreset /\ DOMAIN harts = Harts
    BY DEF StatesAgree
  <1>2. CASE a /\ ~ndmreset
    BY <1>1, <1>2 DEF Sv!apply_ndmreset, ApplyNdmreset
  <1>3. CASE ~a /\ ndmreset
    BY <1>1, <1>3, ReleaseAgrees DEF Sv!apply_ndmreset, ApplyNdmreset
  <1>4. CASE ~(a /\ ~ndmreset) /\ ~(~a /\ ndmreset)
    BY <1>1, <1>4 DEF Sv!apply_ndmreset, ApplyNdmreset
  <1>5. QED
    BY <1>2, <1>3, <1>4

\* apply_hartreset and _apply_hartreset, for a hart that exists.
LEMMA HartresetAgrees ==
  ASSUME StatesAgree, harts \in [Harts -> HartState], NEW a \in BOOLEAN,
         NEW hs \in [Harts -> HartState], NEW sel \in Harts
  PROVE  Sv!apply_hartreset(hs, sel, a) = [hs EXCEPT ![sel] = ApplyHartreset(hs[sel], a)]
  <1>1. Sv!hart_exists(sel) /\ shartreset_level = hartreset_level
    BY DEF StatesAgree, Sv!hart_exists
  <1>2. CASE a /\ ~hartreset_level
    BY <1>1, <1>2 DEF Sv!apply_hartreset, ApplyHartreset
  <1>3. CASE ~a /\ hartreset_level
    BY <1>1, <1>3, ReleaseAgrees DEF Sv!apply_hartreset, ApplyHartreset
  <1>4. CASE ~(a /\ ~hartreset_level) /\ ~(~a /\ hartreset_level)
    BY <1>1, <1>4 DEF Sv!apply_hartreset, ApplyHartreset
  <1>5. QED
    BY <1>2, <1>3, <1>4

\* write_dmcontrol from set/clrresethaltreq to haltreq.
LEMMA RequestsAgree ==
  ASSUME NEW h \in HartState, NEW f \in Fields
  PROVE  Sv!apply_requests(h, f) = ApplyHaltreq(AckHavereset(ApplyResethaltreq(h, f), f), f)
  BY ConfigAssumption DEF Sv!apply_requests, ApplyHaltreq, AckHavereset, ApplyResethaltreq, HartState, Fields

\* The resume request.
LEMMA ResumereqAgrees ==
  ASSUME StatesAgree, NEW h
  PROVE  Sv!apply_resumereq(h) = ApplyResumereq(h)
  BY DEF StatesAgree, Sv!apply_resumereq, ApplyResumereq

\* settle_reset_state and _settle_reset_state.
LEMMA SettleAgrees ==
  ASSUME NEW hs \in [Harts -> HartState], NEW a \in BOOLEAN
  PROVE  Sv!settle_reset_state(hs, a) = [i \in Harts |-> SettleResetState(hs[i], a)]
  BY DEF Sv!settle_reset_state, SettleResetState

-----------------------------------------------------------------------------
(* One dmcontrol write, in both models. *)

\* The selected hart in the array the SystemVerilog model updates as a whole.
LEMMA WriteAgrees ==
  ASSUME XInv, ~HartresetOnMissingHart, NEW f \in Writes, ReplayDmcontrol(f), f.dmactive
  PROVE  StatesAgree' /\ LevelHasHart'
  <1> DEFINE sel == f.hartsel
             hr == f.hartreset /\ SupportsHartreset
             n == [i \in Harts |-> ApplyNdmreset(harts[i], f.ndmreset)]
             s1 == Sv!apply_hartreset(Sv!apply_ndmreset(sharts, f.ndmreset), sel, hr)
             s2 == IF Sv!hart_exists(sel) THEN [s1 EXCEPT ![sel] = Sv!apply_requests(@, f)] ELSE s1
             asked == Sv!hart_exists(sel) /\ f.resumereq /\ ~f.haltreq
             s3 == IF asked THEN [s2 EXCEPT ![sel] = Sv!apply_resumereq(@)] ELSE s2
  <1>1. /\ f \in Fields /\ f.ndmreset \in BOOLEAN /\ hr \in BOOLEAN
        /\ harts \in [Harts -> HartState]
        /\ ndmreset \in BOOLEAN /\ hartreset_level \in BOOLEAN /\ dcsrStep \in BOOLEAN
        /\ StatesAgree /\ LevelHasHart
    BY ConfigAssumption, FieldTypes DEF XInv, IInv, TypeOK
  <1>2. /\ WriteActive(f) /\ XLegal(f)
        /\ sdmactive' = TRUE /\ shartsel' = f.hartsel /\ shasel' = (SupportsHasel /\ f.hasel)
        /\ sndmreset' = f.ndmreset
        /\ shartreset_level' = Sv!level_after_hartreset(sel, hr)
        /\ sharts' = Sv!settle_reset_state(s3, f.ndmreset)
        /\ sshadowStep' = (sshadowStep /\ ~(asked /\ s2[sel].halted))
    BY DEF ReplayDmcontrol, WriteDmcontrol, ResetDm, Sv!write_dmcontrol
  <1>3. Sv!hart_exists(sel) <=> sel \in Harts
    BY <1>1 DEF Sv!hart_exists, StatesAgree
  <1>4. Sv!apply_ndmreset(sharts, f.ndmreset) = n /\ n \in [Harts -> HartState]
    BY <1>1, NdmresetAgrees, StagesTyped
  <1>5. CASE sel \in Harts
    <2> DEFINE h2 == ApplyHartreset(n[sel], hr)
               b == BeforeResume(harts[sel], f)
               r == IF Resumes(f) THEN ApplyResumereq(b) ELSE b
    <2>1. s1 = [n EXCEPT ![sel] = h2] /\ h2 \in HartState
      <3>1. n \in [Harts -> HartState] /\ n[sel] \in HartState
        BY <1>4, <1>5
      <3>2. s1 = Sv!apply_hartreset(n, sel, hr)
        BY <1>4
      <3> HIDE DEF n, hr, s1
      <3>3. h2 \in HartState
        BY <1>1, <3>1, StagesTyped
      <3>4. QED
        BY <1>1, <1>5, <3>1, <3>2, <3>3, HartresetAgrees
    <2>2. b = ApplyHaltreq(AckHavereset(ApplyResethaltreq(h2, f), f), f)
      BY <1>5 DEF BeforeResume
    <2>3. b \in HartState
      BY <1>1, <1>5, StagesTyped
    <2>4. Sv!apply_requests(h2, f) = b
      BY <1>1, <2>1, <2>2, RequestsAgree
    <2> HIDE DEF n, h2, b, s1
    <2>5. s2 = [n EXCEPT ![sel] = b]
      BY <1>3, <1>4, <1>5, <2>1, <2>4
    <2>6. asked <=> Resumes(f)
      BY <1>3, <1>5 DEF Resumes
    <2> HIDE DEF s2, asked
    <2>7. s3 = [n EXCEPT ![sel] = r] /\ r \in HartState
      BY <1>1, <1>4, <1>5, <2>3, <2>5, <2>6, ResumereqAgrees, StagesTyped
    <2>8. s2[sel].halted = b.halted
      BY <1>4, <1>5, <2>5
    <2> HIDE DEF s3
    <2>9. s3 \in [Harts -> HartState]
      BY <1>4, <1>5, <2>7
    <2>10. sharts' = [i \in Harts |-> SettleResetState(s3[i], f.ndmreset)]
      BY <1>1, <1>2, <2>9, SettleAgrees
    <2>11. ASSUME NEW i \in Harts PROVE harts'[i] = SettleResetState(s3[i], f.ndmreset)
      <3>1. CASE i = sel
        BY <1>2, <1>4, <1>5, <2>7, <3>1 DEF WriteActive, SelectedAfter, b
      <3>2. CASE i # sel
        <4>1. s3[i] = ApplyNdmreset(harts[i], f.ndmreset)
          BY <1>4, <2>7, <3>2 DEF n
        <4>2. harts'[i] = UnselectedAfter(harts[i], f)
          BY <1>2, <3>2 DEF WriteActive
        <4>3. QED
          BY <4>1, <4>2 DEF UnselectedAfter
      <3>3. QED
        BY <3>1, <3>2
    <2>12. harts' = sharts'
      BY <1>2, <2>10, <2>11 DEF WriteActive
    <2>13. sshadowStep' = dcsrStep'
      BY <1>1, <1>2, <1>5, <2>6, <2>8 DEF WriteActive, StatesAgree, b
    <2>14. shartreset_level' = hartreset_level' /\ LevelHasHart'
      BY <1>2, <1>3, <1>5 DEF WriteActive, Sv!level_after_hartreset, LevelHasHart
    <2>15. QED
      BY <1>2, <2>12, <2>13, <2>14 DEF WriteActive, StatesAgree
  <1>6. CASE sel \notin Harts
    <2>1. s3 = n
      BY <1>3, <1>4, <1>6 DEF Sv!apply_hartreset
    <2>2. harts' = [i \in Harts |-> SettleResetState(n[i], f.ndmreset)]
      BY <1>2, <1>6 DEF WriteActive, UnselectedAfter
    <2> HIDE DEF n, s3
    <2>3. harts' = sharts'
      BY <1>1, <1>2, <1>4, <2>1, <2>2, SettleAgrees
    \* A level of 1 would be that of the hart selected before, which exists.
    <2>4. hartreset_level = FALSE /\ hr = FALSE
      BY <1>1, <1>2, <1>6 DEF XLegal, LevelHasHart
    <2>5. shartreset_level' = hartreset_level' /\ LevelHasHart'
      BY <1>1, <1>2, <1>3, <1>6, <2>4
      DEF WriteActive, Sv!level_after_hartreset, LevelHasHart, StatesAgree
    <2>6. sshadowStep' = dcsrStep'
      BY <1>1, <1>2, <1>3, <1>6 DEF WriteActive, StatesAgree
    <2>7. QED
      BY <1>2, <2>3, <2>5, <2>6 DEF WriteActive, StatesAgree
  <1>7. QED
    BY <1>5, <1>6

\* reset_dm: a write with dmactive=0 in both models.
LEMMA ResetAgrees ==
  ASSUME XInv, NEW f \in Writes, ReplayDmcontrol(f), ~f.dmactive
  PROVE  StatesAgree' /\ LevelHasHart'
  <1>1. ResetDm(f) /\ Sv!reset_dm
    BY DEF ReplayDmcontrol, WriteDmcontrol, WriteActive, Sv!write_dmcontrol
  <1>2. harts = sharts /\ harts \in [Harts -> HartState] /\ dcsrStep = sshadowStep
    BY DEF XInv, IInv, TypeOK, StatesAgree
  <1>3. \A i \in Harts : Sv!reset_hart(sharts[i]) = ResetDmHart(harts[i])
    BY <1>2, ResetHartAgrees
  <1>4. harts' = sharts'
    BY <1>1, <1>3 DEF ResetDm, Sv!reset_dm, Sv!hart_indices, Harts
  <1>5. QED
    BY <1>1, <1>2, <1>4 DEF ResetDm, Sv!reset_dm, StatesAgree, LevelHasHart

\* execute_command and sync_observed_hart_signals in both models.
LEMMA OthersAgree ==
  ASSUME XInv,
         \/ \E step \in BOOLEAN : ReplayDcsr(step)
         \/ ReplayPostexec
         \/ \E o \in Observations : ReplaySync(o)
         \/ UNCHANGED xvars
  PROVE  StatesAgree' /\ LevelHasHart'
  <1>1. ASSUME NEW step \in BOOLEAN, ReplayDcsr(step) PROVE StatesAgree' /\ LevelHasHart'
    BY <1>1 DEF ReplayDcsr, WriteDcsr, Sv!write_dcsr, XInv, StatesAgree, LevelHasHart
  <1>2. CASE ReplayPostexec
    BY <1>2 DEF ReplayPostexec, Postexec, Sv!postexec, XInv, StatesAgree, LevelHasHart
  <1>3. ASSUME NEW o \in Observations, ReplaySync(o) PROVE StatesAgree' /\ LevelHasHart'
    <2>1. Sv!hart_exists(shartsel) /\ harts = sharts /\ hartsel = shartsel
      BY <1>3 DEF ReplaySync, SyncObservedHartSignals, XInv, IInv, TypeOK, StatesAgree,
                  Sv!hart_exists
    <2>2. harts' = sharts'
      BY <1>3, <2>1 DEF ReplaySync, SyncObservedHartSignals, Sv!sync_observed_hart_signals
    <2>3. QED
      BY <1>3, <2>2 DEF ReplaySync, SyncObservedHartSignals, Sv!sync_observed_hart_signals,
                        XInv, StatesAgree, LevelHasHart
  <1>4. CASE UNCHANGED xvars
    BY <1>4 DEF xvars, XInv, StatesAgree, LevelHasHart
  <1>5. QED
    BY <1>1, <1>2, <1>3, <1>4

\* A replayed record is a step of the Python model, so its invariant is kept.
LEMMA ReplayIsStep == XInv /\ [XNext]_xvars => IInv'
  <1>1. [XNext]_xvars => [Next]_vars
    BY DEF XNext, xvars, vars, Next, ReplayDmcontrol, ReplayDcsr, ReplayPostexec, ReplaySync
  <1>2. QED
    BY <1>1, NextIInv DEF XInv

\* The agreement of the two models is an inductive invariant.
THEOREM CrosscheckInvariance == ~HartresetOnMissingHart => (XSpec => []XInv)
  <1> SUFFICES ASSUME ~HartresetOnMissingHart PROVE XSpec => []XInv
    OBVIOUS
  <1>1. XInit => XInv
    <2> SUFFICES ASSUME XInit PROVE XInv
      OBVIOUS
    <2>1. harts = sharts
      BY DEF XInit, Init, Sv!Init, Harts, Sv!hart_indices, PowerOnHart, Sv!power_on_hart
    <2>2. StatesAgree /\ LevelHasHart
      BY <2>1 DEF XInit, Init, Sv!Init, StatesAgree, LevelHasHart
    <2>3. QED
      BY <2>2, InitIInv DEF XInit, XInv
  <1>2. XInv /\ [XNext]_xvars => XInv'
    <2> SUFFICES ASSUME XInv, [XNext]_xvars PROVE StatesAgree' /\ LevelHasHart'
      BY ReplayIsStep DEF XInv
    <2>1. ASSUME NEW f \in Writes, ReplayDmcontrol(f) PROVE StatesAgree' /\ LevelHasHart'
      BY <2>1, WriteAgrees, ResetAgrees
    <2>2. QED
      BY <2>1, OthersAgree DEF XNext
  <1>3. QED
    BY <1>1, <1>2, PTL DEF XSpec

\* model_crosscheck.replay: the two models hold the same state, the request bits
\* no read shows included, for any number of harts, as long as hartreset is not
\* written to a hartsel that names no hart.
THEOREM StatesAgreeHolds == ~HartresetOnMissingHart => (XSpec => []StatesAgree)
  <1> SUFFICES ASSUME ~HartresetOnMissingHart PROVE XSpec => []StatesAgree
    OBVIOUS
  <1>1. XInv => StatesAgree
    BY DEF XInv
  <1>2. QED
    BY <1>1, CrosscheckInvariance, PTL

\* model_crosscheck.replay: they predict the same dmcontrol, dmstatus and
\* haltsum0 at every read.
THEOREM PredictionsAgreeHolds == ~HartresetOnMissingHart => (XSpec => PredictionsAgree)
  <1> SUFFICES ASSUME ~HartresetOnMissingHart PROVE XSpec => PredictionsAgree
    OBVIOUS
  <1>1. XInv => SameWords
    <2> SUFFICES ASSUME XInv PROVE SameWords
      OBVIOUS
    <2>1. /\ harts = sharts /\ harts \in [Harts -> HartState]
          /\ dmactive = sdmactive /\ ndmreset = sndmreset /\ hartsel = shartsel
          /\ hasel = shasel /\ hartreset_level = shartreset_level /\ hartsel \in Nat
      BY DEF XInv, StatesAgree, IInv, TypeOK
    <2>2. Sv!hart_exists(shartsel) <=> hartsel \in Harts
      BY <2>1 DEF Sv!hart_exists
    <2>3. (hartsel >= NumHarts) = ~(hartsel \in Harts)
      BY <2>1, ConfigAssumption DEF Harts
    <2>4. ExpectDmcontrol = Sv!expect_dmcontrol
      BY <2>1 DEF ExpectDmcontrol, Sv!expect_dmcontrol
    <2>5. ExpectDmstatus = Sv!expect_dmstatus
      BY <2>1, <2>2, <2>3 DEF ExpectDmstatus, Sv!expect_dmstatus
    <2>6. ExpectHaltsum0 = Sv!expect_haltsum0
      BY <2>1 DEF ExpectHaltsum0, Sv!expect_haltsum0, Harts, Sv!hart_indices
    <2>7. QED
      BY <2>4, <2>5, <2>6 DEF SameWords
  <1>2. QED
    BY <1>1, CrosscheckInvariance, PTL DEF PredictionsAgree
=============================================================================
