------------------------ MODULE RunControlScenarios ------------------------
(***************************************************************************)
(* The run-control, reset and hart-selection scripts                       *)
(* (sequences/run_control, reset_ctrl, halt_on_reset, hart_array,          *)
(* hart_selection, dm_activation, report_halt_status, external_trigger,    *)
(* discovery, read_dmstatus), over a transport without a predictor, as on  *)
(* a simulator.  One definition per test case, named as the source's.      *)
(***************************************************************************)
EXTENDS RiscvDm

Other == NumHarts - 1
AllOnesHartsel == 1023
NonexistentHartsel == 1022

-----------------------------------------------------------------------------
(* run_control_sequence.py *)

tc_rc_001 == halt \o read_dmstatus("s") \o Check("s", [anyhalted |-> T, allhalted |-> T, anyrunning |-> F])

tc_rc_002 ==
    read_dmstatus("before") \o write_dmcontrol([haltreq |-> TRUE]) \o read_dmstatus("after")
    \o Same("before", "after", {"allhalted", "anyhalted", "allresumeack"})
    \o write_dmcontrol([haltreq |-> FALSE]) \o Check("after", [allhalted |-> T])

tc_rc_003 ==
    resume \o read_dmstatus("s")
    \o Check("s", [anyrunning |-> T, allrunning |-> T, anyhalted |-> F, allresumeack |-> T, anyresumeack |-> T])

tc_rc_004 ==
    write_dmcontrol([resumereq |-> TRUE]) \o read_dmstatus("s")
    \o Check("s", [allrunning |-> T, anyhalted |-> F, anyresumeack |-> F])
    \o write_dmcontrol([resumereq |-> FALSE])

(* Mutant: the two requests are made by two writes. *)
RequestsOneByOne ==
    read_dmstatus("before") \o write_dmcontrol([resumereq |-> TRUE]) \o write_dmcontrol([haltreq |-> TRUE]) \o read_dmstatus("after")
    \o Check("after", [anyhalted |-> T, anyrunning |-> F]) \o write_dmcontrol([haltreq |-> FALSE])

tc_rc_005 ==
    read_dmstatus("before") \o write_dmcontrol([haltreq |-> TRUE, resumereq |-> TRUE]) \o read_dmstatus("after")
    \o Check("after", [anyhalted |-> T, anyrunning |-> F]) \o Same("before", "after", {"anyresumeack"})
    \o write_dmcontrol([haltreq |-> FALSE])

(* The latency measurement; the bound itself is wall-clock time. *)
tc_rc_006 == halt \o resume

(* resumereq while in reset: every write repeats ndmreset, so that none of *)
(* them releases the reset.                                                *)
tc_rc_007 ==
    ndmreset(TRUE) \o read_dmstatus("s0")
    \o write_dmcontrol([resumereq |-> TRUE, ndmreset |-> TRUE]) \o read_dmstatus("s")
    \o Check("s", [anyhalted |-> F, anyresumeack |-> F])
    \o write_dmcontrol([resumereq |-> FALSE, ndmreset |-> TRUE]) \o ndmreset(FALSE)

run_control(hart) ==
    Script("main", {},
      <<Step("Read dmstatus before activation", read_dmstatus("s")), Step("Activate", activate)>>
      \o (IF hart = 0 THEN <<>> ELSE <<Step("Select hart", select_hart(hart))>>)
      \o <<Step("TC-RC-001", tc_rc_001), Step("TC-RC-002", tc_rc_002), Step("TC-RC-003", tc_rc_003),
           Step("TC-RC-004", tc_rc_004), Step("TC-RC-005", tc_rc_005), Step("TC-RC-006", tc_rc_006),
           Step("TC-RC-007", tc_rc_007)>>)

-----------------------------------------------------------------------------
(* reset_ctrl_sequence.py *)

tc_rst_001_assert ==
    ndmreset(TRUE) \o read_dmstatus("s")
    \o If("s", [anyhalted |-> T], Check("s", [anyrunning |-> F]), Nothing)

tc_rst_001_deassert == ndmreset(FALSE) \o read_dmstatus("s") \o Check("s", [anyhalted |-> F])

(* Mutant: the write that releases the reset forgets haltreq. *)
ReleaseDropsHaltreq ==
    ndmreset(TRUE) \o write_dmcontrol([haltreq |-> TRUE, ndmreset |-> TRUE])
    \o read_dmstatus("s") \o Check("s", [anyhalted |-> F]) \o ndmreset(FALSE)
    \o Wait("dmstatus", [allhalted |-> T], "halted") \o Check("halted", [v |-> T])

(* The release keeps haltreq asserted, and is polled as dm.halt() polls.   *)
(* haltreq stays asserted when the step ends.                              *)
tc_rst_001_haltreq_during_reset ==
    ndmreset(TRUE) \o write_dmcontrol([haltreq |-> TRUE, ndmreset |-> TRUE])
    \o read_dmstatus("s") \o Check("s", [anyhalted |-> F])
    \o write_dmcontrol([haltreq |-> TRUE, ndmreset |-> FALSE])
    \o Wait("dmstatus", [allhalted |-> T], "halted") \o Check("halted", [v |-> T])

tc_rst_002 ==
    halt \o hartreset(TRUE) \o read_dmcontrol("c")
    \o If("c", [hartreset |-> F],
          hartreset(FALSE) \o resume,
          read_dmstatus("s") \o hartreset(FALSE) \o read_dmstatus("after") \o Check("after", [anyhalted |-> F]))

tc_rst_003 ==
    ndmreset(TRUE) \o ndmreset(FALSE) \o read_dmstatus("s") \o Check("s", [anyhavereset |-> T, allhavereset |-> T])
    \o ackhavereset \o hartreset(TRUE) \o read_dmcontrol("c") \o hartreset(FALSE)
    \o If("c", [hartreset |-> T],
          read_dmstatus("s") \o Check("s", [anyhavereset |-> T, allhavereset |-> T]) \o ackhavereset, Nothing)

tc_rst_004 ==
    ndmreset(TRUE) \o ndmreset(FALSE) \o read_dmstatus("before") \o ackhavereset \o read_dmstatus("after")
    \o Check("before", [anyhavereset |-> T, allhavereset |-> T]) \o Check("after", [anyhavereset |-> F, allhavereset |-> F])

(* A command error is the expected answer in reset; it stays in cmderr. *)
tc_rst_005 ==
    ndmreset(TRUE) \o Try(read_gpr("x0", "v"), Nothing) \o ndmreset(FALSE)
    \o read_dmcontrol("c") \o Check("c", [dmactive |-> T])

tc_rst_006 ==
    ackhavereset \o read_dmstatus("before") \o ackhavereset \o read_dmstatus("after")
    \o Check("before", [anyhavereset |-> F, allhavereset |-> F]) \o Check("after", [anyhavereset |-> F, allhavereset |-> F])

tc_dhs_006_probe == ackunavail \o read_dmcontrol("c") \o Check("c", [dmactive |-> T])

tc_ka_001 ==
    write_dmcontrol([setkeepalive |-> TRUE]) \o read_dmcontrol("set")
    \o write_dmcontrol([clrkeepalive |-> TRUE]) \o read_dmcontrol("clr") \o Check("clr", [dmactive |-> T])

reset_ctrl ==
    Script("main", {},
      <<Step("Activate", activate), Step("TC-RST-001 assert", tc_rst_001_assert),
        Step("TC-RST-001 deassert", tc_rst_001_deassert), Step("TC-RST-001 haltreq", tc_rst_001_haltreq_during_reset),
        Step("TC-RST-002", tc_rst_002), Step("TC-RST-003", tc_rst_003), Step("TC-RST-004", tc_rst_004),
        Step("TC-RST-005", tc_rst_005), Step("TC-RST-006", tc_rst_006), Step("TC-DHS-006", tc_dhs_006_probe),
        Step("TC-KA-001", tc_ka_001)>>)

-----------------------------------------------------------------------------
(* halt_on_reset_sequence.py *)

tc_hor_001 == read_dmstatus("has")

tc_hor_002 ==
    set_reset_haltreq \o ndmreset(TRUE) \o read_dmstatus("s0") \o ndmreset(FALSE) \o read_dmstatus("s")
    \o If("has", [hasresethaltreq |-> F], Return, Nothing) \o Check("s", [anyhalted |-> T, allhalted |-> T])

tc_hor_003 ==
    clr_reset_haltreq \o ndmreset(TRUE) \o ndmreset(FALSE) \o read_dmstatus("s")
    \o If("has", [hasresethaltreq |-> F], Return, Nothing) \o Check("s", [anyhalted |-> F])

tc_hor_004 ==
    If("has", [hasresethaltreq |-> F], Return, Nothing) \o (IF NumHarts < 2 THEN Return ELSE Nothing)
    \o select_hart(0) \o set_reset_haltreq \o select_hart(Other) \o ndmreset(TRUE) \o ndmreset(FALSE)
    \o select_hart(0) \o read_dmstatus("a") \o select_hart(Other) \o read_dmstatus("b")
    \o select_hart(0) \o clr_reset_haltreq \o Check("a", [anyhalted |-> T]) \o Check("b", [anyhalted |-> F])

tc_hor_005 ==
    write_dmcontrol([resumereq |-> TRUE, hartreset |-> TRUE]) \o write_dmcontrol([resumereq |-> FALSE, hartreset |-> FALSE])
    \o read_dmcontrol("c") \o read_dmstatus("s") \o Check("c", [dmactive |-> T]) \o Check("s", [version |-> {3}])

halt_on_reset ==
    Script("main", {"has"},
      <<Step("Activate", activate), Step("TC-HOR-001", tc_hor_001), Step("TC-HOR-002", tc_hor_002),
        Step("TC-HOR-003", tc_hor_003), Step("TC-HOR-004", tc_hor_004), Step("TC-HOR-005", tc_hor_005)>>)

-----------------------------------------------------------------------------
(* hart_array_sequence.py: it selects behind the back of RISCVDebug, which *)
(* goes on tracking hart 0.                                                *)

selected(h, hasel, f) == raw_dmcontrol(f @@ [dmactive |-> TRUE, hartsel |-> h, hasel |-> hasel])
Halted(h, hasel) ==
    selected(h, hasel, [haltreq |-> TRUE]) \o poll_until("dmstatus", [allhalted |-> T]) \o selected(h, hasel, [haltreq |-> FALSE])
Resumed(h, hasel) ==
    selected(h, hasel, [resumereq |-> TRUE]) \o poll_until("dmstatus", [allrunning |-> T]) \o selected(h, hasel, [resumereq |-> FALSE])
Masked == If("mask", [hasel |-> F], Return, Nothing)

tc_hs_007 == selected(Other, FALSE, [haltreq |-> FALSE]) \o read_dmstatus("s") \o Check("s", [anynonexistent |-> F])

tc_halt_010_one == Halted(Other, FALSE) \o read_haltsum0("sum") \o Check("sum", [halted |-> {{Other}}])

tc_hs_003_mask ==
    Write("hawindowsel", "0") \o Write("hawindow", "hart0") \o Read("hawindowsel", "x") \o Read("hawindow", "x")
    \o selected(Other, TRUE, [haltreq |-> FALSE]) \o read_dmcontrol("mask")

tc_hs_008 == Masked \o read_dmstatus("s") \o Check("s", [anyhalted |-> T, allhalted |-> F, anyrunning |-> T])

tc_halt_010_all ==
    Masked \o Halted(Other, TRUE) \o read_dmstatus("s") \o read_haltsum0("sum")
    \o Check("s", [allhalted |-> T, anyhalted |-> T, anyrunning |-> F]) \o Check("sum", [halted |-> {Harts}])

tc_res_010 ==
    Masked \o Resumed(Other, TRUE) \o read_dmstatus("s") \o read_haltsum0("sum")
    \o Check("s", [allrunning |-> T, allresumeack |-> T, anyresumeack |-> T, anyhalted |-> F]) \o Check("sum", [halted |-> {{}}])

tc_halt_010_each ==
    Halted(0, FALSE) \o (IF NumHarts > 1 THEN Halted(1, FALSE) ELSE Nothing)
    \o read_haltsum0("sum") \o Check("sum", [halted |-> {Harts}])

tc_res_010_each ==
    Resumed(0, FALSE) \o read_dmstatus("s") \o Check("s", [allresumeack |-> T])
    \o (IF NumHarts > 1 THEN Resumed(1, FALSE) \o read_dmstatus("s") \o Check("s", [allresumeack |-> T]) ELSE Nothing)
    \o read_haltsum0("sum") \o Check("sum", [halted |-> {{}}])

(* Mutant: the last step leaves the other hart selected. *)
OtherStaysSelected ==
    selected(Other, FALSE, [haltreq |-> FALSE]) \o read_dmstatus("s") \o Check("s", [anyhalted |-> F, allhalted |-> F])

tc_hs_008_neither ==
    selected(0, FALSE, [haltreq |-> FALSE]) \o read_dmstatus("s") \o Check("s", [anyhalted |-> F, allhalted |-> F])

hart_array ==
    Script("main", {"mask"},
      <<Step("Activate", activate), Step("TC-HS-007", tc_hs_007), Step("TC-HALT-010 one", tc_halt_010_one),
        Step("TC-HS-003 mask", tc_hs_003_mask), Step("TC-HS-008", tc_hs_008), Step("TC-HALT-010 all", tc_halt_010_all),
        Step("TC-RES-010", tc_res_010), Step("TC-HALT-010 each", tc_halt_010_each),
        Step("TC-RES-010 each", tc_res_010_each), Step("TC-HS-008 neither", tc_hs_008_neither)>>)

-----------------------------------------------------------------------------
(* hart_selection_sequence.py; without a predictor TC-HS-002 records what  *)
(* it saw.                                                                 *)

tc_hs_001 == write_dmcontrol([hartsel |-> AllOnesHartsel]) \o read_dmcontrol("c") \o write_dmcontrol([hartsel |-> 0])
tc_hs_002 == write_dmcontrol([hartsel |-> NonexistentHartsel]) \o read_dmstatus("s") \o write_dmcontrol([hartsel |-> 0])
tc_hs_003 == write_dmcontrol([hasel |-> TRUE]) \o read_dmcontrol("c") \o write_dmcontrol([hasel |-> FALSE])

hart_selection ==
    Script("main", {},
      <<Step("Activate", activate), Step("TC-HS-001", tc_hs_001), Step("TC-HS-002", tc_hs_002), Step("TC-HS-003", tc_hs_003)>>)

-----------------------------------------------------------------------------
(* dm_activation, report_halt_status, external_trigger, discovery and      *)
(* read_dmstatus                                                           *)

tc_dma_001 ==
    write_dmcontrol([dmactive |-> FALSE]) \o read_dmcontrol("c") \o Check("c", [dmactive |-> F]) \o read_dmstatus("s")

tc_dma_002 ==
    write_dmcontrol([dmactive |-> FALSE]) \o Wait("dmcontrol", [dmactive |-> F], "off")
    \o activate \o Wait("dmcontrol", [dmactive |-> T], "on") \o read_dmstatus("s")
    \o Check("off", [v |-> T]) \o Check("on", [v |-> T]) \o Check("s", [version |-> {3}])

dm_activation == Script("main", {}, <<Step("Activate", activate), Step("TC-DMA-001", tc_dma_001), Step("TC-DMA-002", tc_dma_002)>>)

report_halt_status ==
    Script("main", {},
      <<Step("Activate", activate),
        Step("TC-DHS-001 running", read_haltsum0("sum") \o Check("sum", [halted |-> SUBSET (Harts \ {0})])),
        Step("Halt", halt),
        Step("TC-DHS-001 halted", read_haltsum0("sum") \o Check("sum", [halted |-> {S \in SUBSET Harts : 0 \in S}]))>>)

external_trigger ==
    Script("main", {},
      <<Step("Activate", activate),
        Step("TC-HG-001", Write("dmcs2", "group5") \o Read("dmcs2", "r")),
        Step("TC-HG-001 sweep", Write("dmcs2", "0") \o Read("dmcs2", "a") \o Write("dmcs2", "grouptype")
                                \o Read("dmcs2", "b") \o Write("dmcs2", "group5"))>>)

discovery ==
    Script("main", {},
      <<Step("Activate", activate),
        Step("TC-DIS-003", read_hartinfo("first") \o read_hartinfo("second") \o Same("first", "second", {"v", "nscratch"}))>>)

read_dmstatus_script == Script("main", {}, <<Step("Read dmstatus", read_dmstatus("s"))>>)

RunControlScripts ==
    [run_control |-> run_control(0), run_control_other |-> run_control(Other), reset_ctrl |-> reset_ctrl,
     halt_on_reset |-> halt_on_reset, hart_array |-> hart_array, hart_selection |-> hart_selection,
     dm_activation |-> dm_activation, report_halt_status |-> report_halt_status,
     external_trigger |-> external_trigger, discovery |-> discovery, read_dmstatus |-> read_dmstatus_script]
=============================================================================
