------------------------------ MODULE JtagTap ------------------------------
(***************************************************************************)
(* The JTAG driver (sv/agents/jtag/jtag_driver.sv): each of its tasks as   *)
(* the TMS values it clocks, over the TAP state machine the driver tracks  *)
(* (tap_next_state in sv/model/types.sv).  t is the state of the TAP:      *)
(*   state   where the TAP is      ir      the instruction selected        *)
(*   shift   the IR shift register arcs    the transitions ever taken      *)
(*   issued  whether an Update-DR was taken with DMI selected, which       *)
(*           issues a DMI request from whatever the register held          *)
(***************************************************************************)
EXTENDS Naturals, Sequences

(* tap_next_state: the state after TMS = 0 and after TMS = 1. *)
tap_next_state ==
    [TestLogicReset |-> <<"RunTestIdle", "TestLogicReset">>, RunTestIdle |-> <<"RunTestIdle", "SelectDR">>,
     SelectDR |-> <<"CaptureDR", "SelectIR">>, CaptureDR |-> <<"ShiftDR", "Exit1DR">>,
     ShiftDR |-> <<"ShiftDR", "Exit1DR">>, Exit1DR |-> <<"PauseDR", "UpdateDR">>,
     PauseDR |-> <<"PauseDR", "Exit2DR">>, Exit2DR |-> <<"ShiftDR", "UpdateDR">>,
     UpdateDR |-> <<"RunTestIdle", "SelectDR">>, SelectIR |-> <<"CaptureIR", "TestLogicReset">>,
     CaptureIR |-> <<"ShiftIR", "Exit1IR">>, ShiftIR |-> <<"ShiftIR", "Exit1IR">>,
     Exit1IR |-> <<"PauseIR", "UpdateIR">>, PauseIR |-> <<"PauseIR", "Exit2IR">>,
     Exit2IR |-> <<"ShiftIR", "UpdateIR">>, UpdateIR |-> <<"RunTestIdle", "SelectDR">>]

TapArcs == (DOMAIN tap_next_state) \X {0, 1}

(* Instructions, least significant bit first. *)
IR_BYPASS0 == <<0, 0, 0, 0, 0>>
IR_BYPASS1 == <<1, 1, 1, 1, 1>>
IR_IDCODE == <<1, 0, 0, 0, 0>>
Instruction(bits) ==
    CASE bits \in {IR_BYPASS0, IR_BYPASS1} -> "bypass" [] bits = IR_IDCODE -> "idcode" [] OTHER -> "other"

TapInit == [state |-> "RunTestIdle", ir |-> "idcode", shift |-> IR_IDCODE, arcs |-> {}, issued |-> FALSE]

(* drive_bit: one clock, with a TMS and a TDI value. *)
drive_bit(t, bit) ==
    LET next == tap_next_state[t.state][bit.tms + 1]
        shift == CASE t.state = "CaptureIR" -> IR_IDCODE
                   [] t.state = "ShiftIR" -> Tail(t.shift) \o <<bit.tdi>>
                   [] OTHER -> t.shift
    IN [state |-> next, shift |-> shift, arcs |-> t.arcs \cup {<<t.state, bit.tms>>},
        ir |-> CASE next = "TestLogicReset" -> "idcode" [] next = "UpdateIR" -> Instruction(shift) [] OTHER -> t.ir,
        issued |-> t.issued \/ (next = "UpdateDR" /\ t.ir = "dmi")]

TmsBits(tms, tdi) == [i \in DOMAIN tms |-> [tms |-> tms[i], tdi |-> tdi]]
ShiftBits(bits) == [i \in DOMAIN bits |-> [tms |-> IF i = Len(bits) THEN 1 ELSE 0, tdi |-> bits[i]]]

(* Pause, one clock held there, Exit2. *)
drive_pause(pause) == IF pause THEN TmsBits(<<0, 0, 1>>, 0) ELSE <<>>
drive_ir(ir, pause) == TmsBits(<<1, 1, 0, 0>>, 0) \o ShiftBits(ir) \o drive_pause(pause) \o TmsBits(<<1, 0>>, 0)
drive_dr(len, pause) ==
    TmsBits(<<1, 0, 0>>, 0) \o ShiftBits([i \in 1 .. len |-> 0]) \o drive_pause(pause) \o TmsBits(<<1, 0>>, 0)
drive_tap_reset == TmsBits(<<1, 1, 1, 1, 1, 0>>, 0)
drive_tms_walk(tms) == TmsBits(tms, 1)
=============================================================================
