------------------------------- MODULE DmiLink -------------------------------
(***************************************************************************)
(* The JTAG link between the simulator's command loop and the debug        *)
(* module, scan by scan:                                                   *)
(*   - the sequences python_bridge::serve starts (a read with its polls,   *)
(*     dmiresets and re-issues, a write, a dtmcs access, a raw scan, a     *)
(*     scan of another register, a TAP reset);                             *)
(*   - the two passive readers of the monitor's stream: the scoreboard,    *)
(*     which counts statuses, and the checker with its one-deep pending_*  *)
(*     register, which attributes every answer to a request;               *)
(*   - the DTM and the DM behind it, which are not part of the repository. *)
(* An operation carries the call and the attempt that shifted it in, which *)
(* no code sees: answers are told apart by it.                             *)
(***************************************************************************)
EXTENDS Naturals, Sequences

CONSTANTS
    MaxBusyPolls, MaxBusyResets, BusyDrainScans,  \* localparams of the read sequence
    MaxCalls,  \* bound: calls of the Python client
    Kinds      \* the DTMs considered, see DtmKinds

\* What the sources leave open, or say two things about, of a DTM:
\*   sticky  busy latches until it is cleared (#6.1.5), or a busy scan only
\*           says so and the next one may capture an older answer;
\*   keeps   dmireset keeps the operation in flight, or discards it;
\*   hard    dmihardreset is implemented;
\*   tlr     Test-Logic-Reset resets the DTM too;
\*   fails   an operation may fail.
DtmKinds == [sticky : BOOLEAN, keeps : BOOLEAN, hard : BOOLEAN, tlr : BOOLEAN,
             fails : BOOLEAN]

ASSUME BoundsAssumption ==
    /\ MaxBusyPolls \in Nat \ {0} /\ MaxBusyResets \in Nat
    /\ BusyDrainScans \in Nat /\ MaxCalls \in Nat
ASSUME KindsAssumption == Kinds \subseteq DtmKinds

VARIABLES
    kind,                  \* the DTM at hand
    stat, flight, result,  \* DTM: dmistat, the operation in progress, the last answered
    ir,                    \* instruction the TAP has selected
    pc, call, attempt, count,  \* the sequence running, its calls and loop counters
    txn,                   \* what the last request or poll of a read captured
    dmi_busy_expected,
    busy_read, busy_write, errors,  \* total_busy_read, total_busy_write, total_errors # 0
    provoked,              \* the scoreboard has met a provoked busy
    pending,               \* dm_checker's pending_*, NoOp when not valid
    compared,              \* the checker's last comparison
    performed,             \* the operations the DM has answered, in order
    modelled,              \* writes applied to dm_ref_model and reads compared with it
    steered                \* a TAP reset or a dtmcs reset was asked for

dtm == <<kind, stat, flight, result, performed>>
sequence == <<ir, pc, call, attempt, count, txn, dmi_busy_expected, steered>>
scoreboard == <<busy_read, busy_write, errors, provoked>>
checker == <<pending, compared, modelled>>
vars == <<dtm, sequence, scoreboard, checker>>

NoError == 0
Failed == 2
Busy == 3
Statuses == {NoError, Failed, Busy}

Ops == [call : 1 .. MaxCalls, attempt : 0 .. MaxBusyResets, op : {"read", "write"}]
NoOp == [call |-> 0, attempt |-> 0, op |-> "nop"]

Init ==
    /\ kind \in Kinds
    /\ stat = NoError /\ flight = NoOp /\ result = NoOp
    /\ ir = "IDCODE" /\ pc = "idle" /\ call = 0 /\ attempt = 0 /\ count = 0
    /\ txn = [data |-> NoOp, status |-> NoError]
    /\ dmi_busy_expected = FALSE
    /\ busy_read = FALSE /\ busy_write = FALSE /\ errors = FALSE /\ provoked = FALSE
    /\ pending = NoOp /\ compared = [request |-> NoOp, answer |-> NoOp]
    /\ performed = << >> /\ modelled = << >>
    /\ steered = FALSE

-----------------------------------------------------------------------------
(* One DMI scan. Capture-DR reads the status and the answer of the         *)
(* operation before; Update-DR hands the request over unless the status    *)
(* said it would be ignored.                                               *)

\* The dmistat a scan captures now.
Captured == IF stat # NoError THEN stat
            ELSE IF flight # NoOp THEN Busy ELSE NoError

DtmScan(req) ==
    /\ stat' = IF Captured = Busy /\ ~kind.sticky THEN stat ELSE Captured
    /\ flight' = IF Captured = NoError /\ req # NoOp THEN req ELSE flight
    /\ UNCHANGED <<kind, result, performed>>

\* debug_scoreboard::write. The counters only ever say whether they counted.
ScoreboardWrite(req, expected) ==
    /\ busy_write' = (busy_write \/ (Captured = Busy /\ ~expected /\ req.op = "write"))
    /\ busy_read' = (busy_read \/ (Captured = Busy /\ ~expected /\ req.op # "write"))
    /\ errors' = (errors \/ Captured = Failed)
    /\ provoked' = (provoked \/ (Captured = Busy /\ expected))

\* The answer this scan captured is that of the pending request, unless busy.
Answered == pending # NoOp /\ Captured # Busy
\* check_read_response leaves a failed read to the scoreboard.
Checked == Answered /\ pending.op = "read" /\ Captured # Failed

RequestBeforeResponse(req) ==
    LET applied == IF req.op = "write" THEN Append(modelled, req) ELSE modelled
    IN  /\ modelled' = IF Checked THEN Append(applied, pending) ELSE applied
        /\ compared' = IF Checked THEN [request |-> pending, answer |-> result] ELSE compared
        /\ pending' = IF req # NoOp THEN req ELSE IF Answered THEN NoOp ELSE pending

\* dm_checker::handle_txn: the response half of a scan first, then its
\* request half. A write is applied at issue time, accepted or not.
HandleTxn(req) ==
    LET observed == IF Checked THEN Append(modelled, pending) ELSE modelled
    IN  /\ modelled' = IF req.op = "write" THEN Append(observed, req) ELSE observed
        /\ compared' = IF Checked THEN [request |-> pending, answer |-> result] ELSE compared
        /\ pending' = IF req # NoOp THEN req ELSE IF Answered THEN NoOp ELSE pending

\* A scan on the wire: the DTM takes it, the monitor reports it.
DmiScan(req, expected) == DtmScan(req) /\ ScoreboardWrite(req, expected) /\ HandleTxn(req)

(* A dtmcs scan. The monitor reports it, the scoreboard finds no DMI       *)
(* status in it, and the checker drops its pending request on a reset.     *)

\* dtmcs.dmireset and dtmcs.dmihardreset at the DTM.
DtmReset(hard) ==
    /\ stat' = IF hard /\ ~kind.hard THEN stat ELSE NoError
    /\ flight' = IF hard THEN IF kind.hard THEN NoOp ELSE flight
                 ELSE IF kind.keeps THEN flight ELSE NoOp
    /\ UNCHANGED <<kind, result, performed>>

PendingSurvives(resets) == UNCHANGED checker

CheckDtmcs(resets) ==
    /\ pending' = IF resets THEN NoOp ELSE pending
    /\ UNCHANGED <<compared, modelled>>

-----------------------------------------------------------------------------
(* jtag_dmi_read_seq.                                                      *)

Call == pc = "idle" /\ call < MaxCalls /\ call' = call + 1

StartRead ==
    /\ Call
    /\ pc' = "issue" /\ attempt' = 0
    /\ UNCHANGED <<dtm, ir, count, txn, dmi_busy_expected, steered, scoreboard, checker>>

IssueIgnoresStatus ==
    /\ pc = "issue" \/ (pc = "drain" /\ count = BusyDrainScans)
    /\ DmiScan([call |-> call, attempt |-> attempt, op |-> "read"], dmi_busy_expected)
    /\ txn' = [data |-> result, status |-> Captured]
    /\ pc' = "poll"
    /\ ir' = "DMI" /\ count' = 0
    /\ UNCHANGED <<call, attempt, dmi_busy_expected, steered>>

\* A request that came back busy was never queued: it is not polled for.
IssueRead ==
    /\ pc = "issue" \/ (pc = "drain" /\ count = BusyDrainScans)
    /\ DmiScan([call |-> call, attempt |-> attempt, op |-> "read"], dmi_busy_expected)
    /\ txn' = [data |-> result, status |-> Captured]
    /\ pc' = IF Captured = Busy THEN "recover" ELSE "poll"
    /\ ir' = "DMI" /\ count' = 0
    /\ UNCHANGED <<call, attempt, dmi_busy_expected, steered>>

Poll ==
    /\ pc = "poll" /\ count < MaxBusyPolls
    /\ DmiScan(NoOp, dmi_busy_expected)
    /\ txn' = [data |-> result, status |-> Captured]
    /\ pc' = IF Captured # Busy THEN "return" ELSE "poll"
    /\ ir' = "DMI" /\ count' = count + 1
    /\ UNCHANGED <<call, attempt, dmi_busy_expected, steered>>

NotCaptured == pc = "recover" \/ (pc = "poll" /\ count = MaxBusyPolls)

\* "DMI still busy ... after 4 dmireset(s)": an error is reported, and what
\* the last scan captured is returned all the same.
GiveUp ==
    /\ NotCaptured /\ attempt = MaxBusyResets
    /\ pc' = "gave_up"
    /\ UNCHANGED <<dtm, ir, call, attempt, count, txn, dmi_busy_expected, steered,
                   scoreboard, checker>>

DmiresetUncounted ==
    /\ NotCaptured /\ attempt < MaxBusyResets
    /\ DtmReset(FALSE) /\ CheckDtmcs(TRUE)
    /\ pc' = "drain"
    /\ ir' = "DTMCS" /\ count' = 0
    /\ UNCHANGED <<call, attempt, txn, dmi_busy_expected, steered, scoreboard>>

Dmireset ==
    /\ NotCaptured /\ attempt < MaxBusyResets
    /\ DtmReset(FALSE) /\ CheckDtmcs(TRUE)
    /\ pc' = "drain" /\ attempt' = attempt + 1
    /\ ir' = "DTMCS" /\ count' = 0
    /\ UNCHANGED <<call, txn, dmi_busy_expected, steered, scoreboard>>

Drain ==
    /\ pc = "drain" /\ count < BusyDrainScans
    /\ DmiScan(NoOp, dmi_busy_expected)
    /\ ir' = "DMI" /\ count' = count + 1
    /\ UNCHANGED <<pc, call, attempt, txn, dmi_busy_expected, steered>>

PutRspIfCaptured ==
    /\ pc = "return"
    /\ pc' = "idle"
    /\ UNCHANGED <<dtm, ir, call, attempt, count, txn, dmi_busy_expected, steered,
                   scoreboard, checker>>

\* The answer goes back to the Python client.
PutRsp ==
    /\ pc \in {"return", "gave_up"}
    /\ pc' = "idle"
    /\ UNCHANGED <<dtm, ir, call, attempt, count, txn, dmi_busy_expected, steered,
                   scoreboard, checker>>

-----------------------------------------------------------------------------
(* The other sequences: one scan each.                                     *)

\* jtag_dmi_write_seq looks at no status and answers 0.
WriteCall ==
    /\ Call
    /\ DmiScan([call |-> call', attempt |-> 0, op |-> "write"], dmi_busy_expected)
    /\ ir' = "DMI"
    /\ UNCHANGED <<pc, attempt, count, txn, dmi_busy_expected, steered>>

\* dtmcs(): wdata[17:16] as none, dmireset, or dmihardreset with or without it.
DtmcsCall ==
    /\ Call
    /\ \E bits \in {"none", "dmireset", "dmihardreset"} :
        /\ IF bits = "none" THEN UNCHANGED dtm ELSE DtmReset(bits = "dmihardreset")
        /\ CheckDtmcs(bits # "none")
        /\ dmi_busy_expected' = (dmi_busy_expected /\ bits = "none")
        /\ steered' = (steered \/ bits # "none")
    /\ ir' = "DTMCS"
    /\ UNCHANGED <<pc, attempt, count, txn, scoreboard>>

\* dmi_scan(): no IR scan, so the DMI must still be selected. The client
\* reads the status, and busy is expected from here on.
RawScan ==
    /\ Call /\ ir = "DMI"
    /\ \E req \in {NoOp} \cup [call : {call'}, attempt : {0}, op : {"read", "write"}] :
        DmiScan(req, TRUE)
    /\ dmi_busy_expected' = TRUE
    /\ UNCHANGED <<pc, attempt, count, txn, ir, steered>>

\* jtag_scan() of IDCODE or BYPASS: the DTM has no part in it, and the
\* monitor reports only the DMI and dtmcs.
JtagScan ==
    /\ Call
    /\ ir' = "IDCODE"
    /\ UNCHANGED <<pc, attempt, count, txn, dmi_busy_expected, steered,
                   dtm, scoreboard, checker>>

\* reset(): five TMS ones. The monitor reports nothing.
TapReset ==
    /\ Call
    /\ stat' = IF kind.tlr THEN NoError ELSE stat
    /\ flight' = IF kind.tlr THEN NoOp ELSE flight
    /\ ir' = "IDCODE" /\ steered' = TRUE
    /\ UNCHANGED <<kind, result, performed, pc, attempt, count, txn, dmi_busy_expected,
                   scoreboard, checker>>

\* The DM answers the operation in flight.
Complete ==
    /\ flight # NoOp
    /\ result' = flight /\ flight' = NoOp
    /\ performed' = Append(performed, flight)
    /\ stat' \in IF stat = NoError /\ kind.fails THEN {NoError, Failed} ELSE {stat}
    /\ UNCHANGED <<kind, sequence, scoreboard, checker>>

Driver == IssueRead \/ Poll \/ GiveUp \/ Dmireset \/ Drain \/ PutRsp
Client == StartRead \/ WriteCall \/ DtmcsCall \/ RawScan \/ JtagScan \/ TapReset
Next == Client \/ Driver \/ Complete

Spec == Init /\ [][Next]_vars
\* A started sequence runs on; the DM may never answer.
FairSpec == Spec /\ WF_vars(Driver)

-----------------------------------------------------------------------------
TypeOK ==
    /\ kind \in Kinds
    /\ stat \in Statuses /\ {flight, result, pending} \subseteq Ops \cup {NoOp}
    /\ ir \in {"IDCODE", "DTMCS", "DMI"}
    /\ pc \in {"idle", "issue", "poll", "recover", "drain", "return", "gave_up"}
    /\ call \in 0 .. MaxCalls /\ (pc # "idle" => call > 0)
    /\ attempt \in 0 .. MaxBusyResets
    /\ count \in Nat /\ (pc = "poll" => count <= MaxBusyPolls)
    /\ (pc = "drain" => count <= BusyDrainScans)
    /\ txn \in [data : Ops \cup {NoOp}, status : Statuses]
    /\ compared \in [request : Ops \cup {NoOp}, answer : Ops \cup {NoOp}]
    /\ {dmi_busy_expected, busy_read, busy_write, errors, provoked, steered} \subseteq BOOLEAN
    /\ performed \in Seq(Ops) /\ modelled \in Seq(Ops)

\* A read that returns without an error reported (it did not give up, and the
\* captured status is 0) returns the answer to a read of its own call, never
\* that of an older operation: not after a busy request, a dmireset that
\* kept or discarded the operation in flight, or a DTM whose busy is not
\* sticky (dmi_read_seq.sv:48-55, :80-82, :134-140).
ReadReturnsItsOwn ==
    pc = "return" /\ txn.status = NoError =>
        txn.data.call = call /\ txn.data.op = "read"

\* The checker compares a register with the answer to that very request,
\* whatever was ignored, retried, reset or scanned raw in between, on a DTM
\* whose busy is sticky and that the TAP reset leaves alone
\* (dm_checker.sv:239-258, :383-421).
ComparesItsOwn ==
    kind.sticky /\ ~kind.tlr => compared.answer = compared.request

\* What the DM has been asked to do, in order.
Asked == IF flight = NoOp THEN performed ELSE Append(performed, flight)

\* While the scoreboard has met no busy and no failed scan, and the client has
\* not reset the link, the reference model has been given exactly what the DM
\* was asked, in that order, raw scans included; only a read whose answer has
\* not been captured is missing (scoreboard.sv:27-59, dm_checker.sv:382-431).
SilentMeansInStep ==
    ~busy_read /\ ~busy_write /\ ~errors /\ ~provoked /\ ~steered =>
        Asked = IF pending.op = "read" THEN Append(modelled, pending) ELSE modelled

\* A read sequence ends though the DM may never answer: the polls, resets and
\* drains are bounded (dmi_read_seq.sv:64-112).
SequenceEnds == pc # "idle" ~> pc = "idle"

\* A measure of the work a read sequence may still do.
Round == MaxBusyPolls + BusyDrainScans + 4
Phase ==
    CASE pc = "idle" -> 0
      [] pc \in {"return", "gave_up"} -> 1
      [] pc = "recover" -> 2
      [] pc = "poll" -> 3 + (MaxBusyPolls - count)
      [] pc = "issue" -> 4 + MaxBusyPolls
      [] pc = "drain" -> 5 + MaxBusyPolls + (BusyDrainScans - count)
Work == (MaxBusyResets - attempt) * Round + Phase

\* Every step of a read sequence takes it nearer to its end, whatever the DTM
\* and the DM do meanwhile, and they never push it back: it is Work that
\* bounds the recovery loops (dmi_read_seq.sv:64-154).
WorkShrinks ==
    [][/\ Work \in Nat
       /\ Driver => Work' < Work
       /\ Complete => Work' = Work]_vars

\* dmi_read_seq.sv:26-27: "the busy-recovery path has to re-issue it after a
\* dmireset, because the reset discards the queued read" - so no read of the
\* client is performed twice.
ReadOnce ==
    \A i, j \in DOMAIN performed :
        performed[i].call = performed[j].call => i = j
=============================================================================
