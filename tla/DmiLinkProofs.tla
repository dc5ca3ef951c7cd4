---------------------------- MODULE DmiLinkProofs ----------------------------
(***************************************************************************)
(* Proofs about the JTAG link, for every number of polls, resets, drains   *)
(* and calls, and for every set of DTM kinds: its state is typed, a read   *)
(* returns its own answer, the checker compares a request with its own     *)
(* answer, and a silent scoreboard means a model in step with the DM.      *)
(***************************************************************************)
EXTENDS DmiLink, TLAPS

USE BoundsAssumption

\* The part of the state a scan may change, after it.
ScanOK ==
    /\ kind' \in Kinds /\ stat' \in Statuses
    /\ {flight, result, pending}' \subseteq Ops \cup {NoOp}
    /\ Captured \in Statuses
    /\ compared' \in [request : Ops \cup {NoOp}, answer : Ops \cup {NoOp}]
    /\ busy_read' \in BOOLEAN /\ busy_write' \in BOOLEAN
    /\ errors' \in BOOLEAN /\ provoked' \in BOOLEAN
    /\ performed' \in Seq(Ops) /\ modelled' \in Seq(Ops)

\* What a scan leaves behind is of the declared types.
LEMMA ScanTyped ==
    ASSUME TypeOK, NEW req \in Ops \cup {NoOp}, NEW expected \in BOOLEAN, DmiScan(req, expected)
    PROVE  ScanOK
<1> USE DEF TypeOK
<1>1. Captured \in Statuses
    BY DEF Captured, Statuses, NoError, Failed, Busy
<1>2. /\ kind' \in Kinds /\ stat' \in Statuses /\ flight' \in Ops \cup {NoOp}
      /\ result' \in Ops \cup {NoOp} /\ performed' \in Seq(Ops)
    BY <1>1 DEF DmiScan, DtmScan
<1>3. /\ busy_read' \in BOOLEAN /\ busy_write' \in BOOLEAN
      /\ errors' \in BOOLEAN /\ provoked' \in BOOLEAN
    BY DEF DmiScan, ScoreboardWrite
<1>4. pending' \in Ops \cup {NoOp}
    BY DEF DmiScan, HandleTxn
<1>5. compared' \in [request : Ops \cup {NoOp}, answer : Ops \cup {NoOp}]
    BY DEF DmiScan, HandleTxn
<1>6. modelled' \in Seq(Ops)
  <2> DEFINE observed == IF Checked THEN Append(modelled, pending) ELSE modelled
  <2>1. Checked => pending \in Ops
    BY DEF Checked, Answered
  <2>2. observed \in Seq(Ops)
    BY <2>1
  <2>3. req.op = "write" => req \in Ops
    BY DEF NoOp
  <2>4. modelled' = IF req.op = "write" THEN Append(observed, req) ELSE observed
    BY DEF DmiScan, HandleTxn
  <2> QED
    BY <2>2, <2>3, <2>4
<1> QED
    BY <1>1, <1>2, <1>3, <1>4, <1>5, <1>6 DEF ScanOK

\* Every step keeps the state typed.
LEMMA TypeStep == TypeOK /\ [Next]_vars => TypeOK'
<1> SUFFICES ASSUME TypeOK, [Next]_vars PROVE TypeOK'
    OBVIOUS
<1> USE DEF TypeOK
<1> DEFINE Mine == [call |-> call, attempt |-> attempt, op |-> "read"]
<1>2. CASE StartRead
    BY <1>2 DEF StartRead, Call, dtm, scoreboard, checker
<1>3. CASE IssueRead
  <2>1. Mine \in Ops \cup {NoOp} /\ DmiScan(Mine, dmi_busy_expected)
    BY <1>3 DEF IssueRead, Ops
  <2>2. ScanOK
    BY <2>1, ScanTyped
  <2>3. {dmi_busy_expected, busy_read, busy_write, errors, provoked, steered}' \subseteq BOOLEAN
    BY <1>3, <2>2 DEF IssueRead, ScanOK
  <2>4. txn' \in [data : Ops \cup {NoOp}, status : Statuses]
    BY <1>3, <2>2 DEF IssueRead, ScanOK
  <2> QED
    BY <1>3, <2>2, <2>3, <2>4 DEF IssueRead, ScanOK
<1>4. CASE Poll
  <2>1. NoOp \in Ops \cup {NoOp} /\ DmiScan(NoOp, dmi_busy_expected)
    BY <1>4 DEF Poll
  <2>2. ScanOK
    BY <2>1, ScanTyped
  <2>3. {dmi_busy_expected, busy_read, busy_write, errors, provoked, steered}' \subseteq BOOLEAN
    BY <1>4, <2>2 DEF Poll, ScanOK
  <2>4. txn' \in [data : Ops \cup {NoOp}, status : Statuses]
    BY <1>4, <2>2 DEF Poll, ScanOK
  <2> QED
    BY <1>4, <2>2, <2>3, <2>4 DEF Poll, ScanOK
<1>5. CASE GiveUp
    BY <1>5 DEF GiveUp, NotCaptured, dtm, scoreboard, checker
<1>6. CASE Dmireset
    BY <1>6 DEF Dmireset, DtmReset, CheckDtmcs, NotCaptured, Statuses, scoreboard
<1>7. CASE Drain
  <2>1. NoOp \in Ops \cup {NoOp} /\ DmiScan(NoOp, dmi_busy_expected)
    BY <1>7 DEF Drain
  <2>2. ScanOK
    BY <2>1, ScanTyped
  <2>3. {dmi_busy_expected, busy_read, busy_write, errors, provoked, steered}' \subseteq BOOLEAN
    BY <1>7, <2>2 DEF Drain, ScanOK
  <2> QED
    BY <1>7, <2>2, <2>3 DEF Drain, ScanOK
<1>8. CASE PutRsp
    BY <1>8 DEF PutRsp, dtm, scoreboard, checker
<1>9. CASE WriteCall
  <2> DEFINE Write == [call |-> call', attempt |-> 0, op |-> "write"]
  <2>1. Write \in Ops \cup {NoOp} /\ DmiScan(Write, dmi_busy_expected)
    BY <1>9 DEF WriteCall, Call, Ops
  <2>2. ScanOK
    BY <2>1, ScanTyped
  <2>3. {dmi_busy_expected, busy_read, busy_write, errors, provoked, steered}' \subseteq BOOLEAN
    BY <1>9, <2>2 DEF WriteCall, ScanOK
  <2> QED
    BY <1>9, <2>2, <2>3 DEF WriteCall, Call, ScanOK
<1>10. CASE DtmcsCall
  <2>1. PICK bits \in {"none", "dmireset", "dmihardreset"} :
            /\ IF bits = "none" THEN UNCHANGED dtm ELSE DtmReset(bits = "dmihardreset")
            /\ CheckDtmcs(bits # "none")
            /\ dmi_busy_expected' = (dmi_busy_expected /\ bits = "none")
            /\ steered' = (steered \/ bits # "none")
    BY <1>10 DEF DtmcsCall
  <2>2. /\ kind' \in Kinds /\ stat' \in Statuses /\ flight' \in Ops \cup {NoOp}
        /\ result' \in Ops \cup {NoOp} /\ performed' \in Seq(Ops)
    BY <2>1 DEF DtmReset, Statuses, dtm
  <2>3. /\ pending' \in Ops \cup {NoOp} /\ modelled' \in Seq(Ops)
        /\ compared' \in [request : Ops \cup {NoOp}, answer : Ops \cup {NoOp}]
    BY <2>1 DEF CheckDtmcs
  <2>4. dmi_busy_expected' \in BOOLEAN /\ steered' \in BOOLEAN
    BY <2>1
  <2> QED
    BY <1>10, <2>2, <2>3, <2>4 DEF DtmcsCall, Call, scoreboard
<1>11. CASE RawScan
  <2>1. call' \in 1 .. MaxCalls
    BY <1>11 DEF RawScan, Call
  <2>2. PICK req \in {NoOp} \cup [call : {call'}, attempt : {0}, op : {"read", "write"}] :
            DmiScan(req, TRUE)
    BY <1>11 DEF RawScan
  <2>3. req \in Ops \cup {NoOp}
    BY <2>1 DEF Ops
  <2>4. ScanOK
    BY <2>2, <2>3, ScanTyped
  <2>5. {dmi_busy_expected, busy_read, busy_write, errors, provoked, steered}' \subseteq BOOLEAN
    BY <1>11, <2>4 DEF RawScan, ScanOK
  <2> QED
    BY <1>11, <2>1, <2>4, <2>5 DEF RawScan, Call, ScanOK
<1>12. CASE JtagScan
    BY <1>12 DEF JtagScan, Call, dtm, scoreboard, checker
<1>13. CASE TapReset
    BY <1>13 DEF TapReset, Call, Statuses, scoreboard, checker
<1>14. CASE Complete
    BY <1>14 DEF Complete, Statuses, sequence, scoreboard, checker
<1>15. CASE UNCHANGED vars
    BY <1>15 DEF vars, dtm, sequence, scoreboard, checker
<1> QED
    BY <1>2, <1>3, <1>4, <1>5, <1>6, <1>7, <1>8, <1>9, <1>10, <1>11, <1>12, <1>13, <1>14, <1>15
    DEF Next, Client, Driver

\* The link's state stays typed: in particular the read sequence never makes
\* more than MaxBusyResets recoveries or MaxBusyPolls polls (dmi_read_seq.sv:78-112).
THEOREM TypeCorrect == Spec => []TypeOK
<1>1. Init => TypeOK
  <2> SUFFICES ASSUME Init PROVE TypeOK
    OBVIOUS
  <2>1. {dmi_busy_expected, busy_read, busy_write, errors, provoked, steered} \subseteq BOOLEAN
    BY DEF Init
  <2>2. performed \in Seq(Ops) /\ modelled \in Seq(Ops)
    BY DEF Init
  <2> QED
    BY <2>1, <2>2 DEF Init, TypeOK, Statuses
<1> QED
    BY <1>1, TypeStep, PTL DEF Spec

-----------------------------------------------------------------------------
(* A read returns its own answer. While a read polls and dmistat is clear, *)
(* its own request is in flight or is the last one answered.               *)

Mine == [call |-> call, attempt |-> attempt, op |-> "read"]

PollsItsOwn ==
    pc = "poll" /\ stat = NoError => flight = Mine \/ (flight = NoOp /\ result = Mine)

ReadInv == PollsItsOwn /\ ReadReturnsItsOwn

LEMMA ReadStep == TypeOK /\ ReadInv /\ [Next]_vars => ReadInv'
<1> SUFFICES ASSUME TypeOK, ReadInv, [Next]_vars PROVE ReadInv'
    OBVIOUS
<1> USE DEF ReadInv, PollsItsOwn, ReadReturnsItsOwn, Mine
<1>1. CASE IssueRead
  <2>1. Mine # NoOp
    BY DEF NoOp
  <2>2. pc' = "poll" /\ stat' = NoError => flight' = Mine
    BY <1>1, <2>1 DEF IssueRead, DmiScan, DtmScan, NoError, Busy
  <2> QED
    BY <1>1, <2>2 DEF IssueRead
<1>2. CASE Poll
  <2>1. DtmScan(NoOp) /\ flight' = flight /\ result' = result
    BY <1>2 DEF Poll, DmiScan, DtmScan
  <2>2. ASSUME Captured = Busy PROVE ReadInv'
    BY <1>2, <2>1, <2>2 DEF Poll, DtmScan, NoError, Busy
  <2>3. ASSUME Captured # Busy PROVE ReadInv'
    <3>1. Captured = NoError => stat = NoError /\ flight = NoOp
      BY <2>3 DEF Captured, NoError, Busy
    <3> QED
      BY <1>2, <2>3, <3>1 DEF Poll, NoOp
  <2> QED
    BY <2>2, <2>3
<1>3. CASE Complete
    BY <1>3 DEF Complete, sequence, NoError, Failed, TypeOK
<1>4. CASE Client
    BY <1>4 DEF Client, StartRead, WriteCall, DtmcsCall, RawScan, JtagScan, TapReset, Call
<1>5. CASE GiveUp \/ Dmireset \/ PutRsp
    BY <1>5 DEF GiveUp, Dmireset, PutRsp
<1>6. CASE Drain
    BY <1>6 DEF Drain
<1>7. CASE UNCHANGED vars
    BY <1>7 DEF vars, dtm, sequence
<1> QED
    BY <1>1, <1>2, <1>3, <1>4, <1>5, <1>6, <1>7 DEF Next, Driver

\* A read that ends without a reported error returns the answer to a read of
\* its own call, on every DTM: the guard on a busy request
\* (dmi_read_seq.sv:55, :82) and the re-issue after a dmireset (:114-153) leave no
\* way for the answer of an older operation.
THEOREM ReadReturnsItsOwnHolds == Spec => []ReadReturnsItsOwn
<1>1. Init => ReadInv
    BY DEF Init, ReadInv, PollsItsOwn, ReadReturnsItsOwn
<1>2. ReadInv => ReadReturnsItsOwn
    BY DEF ReadInv
<1> QED
    BY <1>1, <1>2, ReadStep, TypeCorrect, PTL DEF Spec

-----------------------------------------------------------------------------
(* The checker compares a request with its own answer. A pending read is   *)
(* in flight or the last one answered, unless dmistat is set; and then     *)
(* only a reset, which drops it, clears dmistat.                           *)

PendingIsNext ==
    pending.op = "read" /\ stat = NoError =>
        flight = pending \/ (flight = NoOp /\ result = pending)

CompareInv ==
    kind.sticky /\ ~kind.tlr => compared.answer = compared.request /\ PendingIsNext

LEMMA ScanCompares ==
    ASSUME TypeOK, CompareInv, NEW req \in Ops \cup {NoOp}, NEW expected \in BOOLEAN,
           DmiScan(req, expected)
    PROVE  CompareInv'
<1> SUFFICES ASSUME kind.sticky, ~kind.tlr PROVE (compared.answer = compared.request /\ PendingIsNext)'
    BY DEF CompareInv, DmiScan, DtmScan
<1>1. compared.answer = compared.request /\ PendingIsNext
    BY DEF CompareInv
<1>2. stat' = Captured /\ result' = result
    BY DEF DmiScan, DtmScan
<1>3. Captured = NoError => stat = NoError /\ flight = NoOp
    BY DEF Captured, NoError, Busy
<1>4. compared'.answer = compared'.request
  <2>1. CASE Checked
    <3>1. Captured = NoError /\ pending.op = "read" /\ pending # NoOp
      BY <2>1 DEF Checked, Answered, Captured, TypeOK, Statuses
    <3>2. result = pending
      BY <3>1, <1>1, <1>3 DEF PendingIsNext
    <3> QED
      BY <2>1, <3>2 DEF DmiScan, HandleTxn
  <2>2. CASE ~Checked
    BY <2>2, <1>1 DEF DmiScan, HandleTxn
  <2> QED
    BY <2>1, <2>2
<1>5. PendingIsNext'
  <2> SUFFICES ASSUME pending'.op = "read", stat' = NoError
               PROVE  flight' = pending' \/ (flight' = NoOp /\ result' = pending')
    BY DEF PendingIsNext
  <2>1. Captured = NoError /\ flight = NoOp /\ stat = NoError
    BY <1>2, <1>3
  <2>2. req # NoOp
    BY <2>1 DEF DmiScan, HandleTxn, Answered, NoError, Busy, NoOp
  <2> QED
    BY <2>1, <2>2 DEF DmiScan, DtmScan, HandleTxn
<1> QED
    BY <1>4, <1>5

LEMMA CompareStep == TypeOK /\ CompareInv /\ [Next]_vars => CompareInv'
<1> SUFFICES ASSUME TypeOK, CompareInv, [Next]_vars PROVE CompareInv'
    OBVIOUS
<1>1. dmi_busy_expected \in BOOLEAN
    BY DEF TypeOK
<1>2. CASE IssueRead
  <2>1. Mine \in Ops \cup {NoOp} /\ DmiScan(Mine, dmi_busy_expected)
    BY <1>2 DEF IssueRead, Ops, Mine, TypeOK
  <2> QED
    BY <2>1, <1>1, ScanCompares
<1>3. CASE Poll \/ Drain
  <2>1. NoOp \in Ops \cup {NoOp} /\ DmiScan(NoOp, dmi_busy_expected)
    BY <1>3 DEF Poll, Drain
  <2> QED
    BY <2>1, <1>1, ScanCompares
<1>4. CASE WriteCall
  <2> DEFINE Write == [call |-> call', attempt |-> 0, op |-> "write"]
  <2>1. Write \in Ops \cup {NoOp} /\ DmiScan(Write, dmi_busy_expected)
    BY <1>4 DEF WriteCall, Call, Ops, TypeOK
  <2> QED
    BY <2>1, <1>1, ScanCompares
<1>5. CASE RawScan
  <2>1. call' \in 1 .. MaxCalls
    BY <1>5 DEF RawScan, Call, TypeOK
  <2>2. PICK req \in {NoOp} \cup [call : {call'}, attempt : {0}, op : {"read", "write"}] :
            DmiScan(req, TRUE)
    BY <1>5 DEF RawScan
  <2>3. req \in Ops \cup {NoOp}
    BY <2>1 DEF Ops
  <2> QED
    BY <2>2, <2>3, ScanCompares
<1> USE DEF CompareInv, PendingIsNext
<1>6. CASE Dmireset
    BY <1>6 DEF Dmireset, DtmReset, CheckDtmcs, NoOp
<1>7. CASE DtmcsCall
  <2>1. PICK bits \in {"none", "dmireset", "dmihardreset"} :
            /\ IF bits = "none" THEN UNCHANGED dtm ELSE DtmReset(bits = "dmihardreset")
            /\ CheckDtmcs(bits # "none")
    BY <1>7 DEF DtmcsCall
  <2>2. CASE bits = "none"
    BY <2>1, <2>2 DEF CheckDtmcs, dtm
  <2>3. CASE bits # "none"
    BY <2>1, <2>3 DEF CheckDtmcs, DtmReset, NoOp
  <2> QED
    BY <2>2, <2>3
<1>8. CASE TapReset
    BY <1>8 DEF TapReset, checker
<1>9. CASE Complete
    BY <1>9 DEF Complete, checker, NoError, Failed, TypeOK
<1>10. CASE StartRead \/ JtagScan \/ GiveUp \/ PutRsp
    BY <1>10 DEF StartRead, JtagScan, GiveUp, PutRsp, dtm, checker
<1>11. CASE UNCHANGED vars
    BY <1>11 DEF vars, dtm, checker
<1> QED
    BY <1>2, <1>3, <1>4, <1>5, <1>6, <1>7, <1>8, <1>9, <1>10, <1>11 DEF Next, Client, Driver

\* Every comparison of the checker is of a request with its own answer, on
\* every DTM whose busy is sticky and that a TAP reset leaves alone, whatever
\* the client scans, resets or retries: pending_* is one deep and that is
\* enough (dm_checker.sv:250-258, :383-421).
THEOREM ComparesItsOwnHolds == Spec => []ComparesItsOwn
<1>1. Init => CompareInv
    BY DEF Init, CompareInv, PendingIsNext, NoOp
<1>2. CompareInv => ComparesItsOwn
    BY DEF CompareInv, ComparesItsOwn
<1> QED
    BY <1>1, <1>2, CompareStep, TypeCorrect, PTL DEF Spec

-----------------------------------------------------------------------------
(* A silent scoreboard means a model in step with the DM. A read recovers  *)
(* only after a scan the scoreboard met as busy.                           *)

Silent == ~busy_read /\ ~busy_write /\ ~errors /\ ~provoked /\ ~steered

RecoveryIsHeard ==
    pc = "recover" \/ (pc = "poll" /\ count > 0) => busy_read \/ provoked

SilentInv == SilentMeansInStep /\ RecoveryIsHeard

\* A scan after which the scoreboard is still silent captured status 0, and
\* the model is given the answer before, then the request it carries.
LEMMA ScanInStep ==
    ASSUME TypeOK, SilentMeansInStep, NEW req \in Ops \cup {NoOp}, NEW expected \in BOOLEAN,
           DmiScan(req, expected), steered' = steered
    PROVE  SilentMeansInStep'
<1> SUFFICES ASSUME Silent'
             PROVE  Asked' = IF pending'.op = "read" THEN Append(modelled', pending') ELSE modelled'
    BY DEF SilentMeansInStep, Silent
<1>1. Captured = NoError
  <2>1. Captured \in Statuses
    BY ScanTyped DEF ScanOK
  <2>2. Captured # Failed
    BY DEF Silent, DmiScan, ScoreboardWrite
  <2>3. Captured # Busy
    BY DEF Silent, DmiScan, ScoreboardWrite
  <2> QED
    BY <2>1, <2>2, <2>3 DEF Statuses
<1>2. Silent
    BY DEF Silent, DmiScan, ScoreboardWrite
<1>3. stat = NoError /\ flight = NoOp
    BY <1>1 DEF Captured, NoError, Busy
<1> DEFINE observed == IF pending.op = "read" THEN Append(modelled, pending) ELSE modelled
<1>4. performed = observed
    BY <1>2, <1>3 DEF Silent, SilentMeansInStep, Asked
<1>5. pending.op = "read" <=> Checked
    BY <1>1 DEF Checked, Answered, NoError, Failed, Busy, NoOp
<1>6. modelled' = IF req.op = "write" THEN Append(observed, req) ELSE observed
    BY <1>5 DEF DmiScan, HandleTxn
<1>7. performed' = performed /\ flight' = IF req # NoOp THEN req ELSE NoOp
    BY <1>1, <1>3 DEF DmiScan, DtmScan
<1>8. pending' = IF req # NoOp THEN req ELSE IF Answered THEN NoOp ELSE pending
    BY DEF DmiScan, HandleTxn
<1>9. CASE req = NoOp
  <2>1. pending'.op # "read" /\ modelled' = observed
    BY <1>1, <1>6, <1>8, <1>9 DEF Answered, NoOp, NoError, Busy
  <2> QED
    BY <1>4, <1>7, <1>9, <2>1 DEF Asked
<1>10. CASE req # NoOp /\ req.op = "read"
    BY <1>4, <1>6, <1>7, <1>8, <1>10 DEF Asked
<1>11. CASE req # NoOp /\ req.op = "write"
    BY <1>4, <1>6, <1>7, <1>8, <1>11 DEF Asked
<1> QED
    BY <1>9, <1>10, <1>11 DEF Ops

LEMMA SilentStep == TypeOK /\ SilentInv /\ [Next]_vars => SilentInv'
<1> SUFFICES ASSUME TypeOK, SilentInv, [Next]_vars PROVE SilentInv'
    OBVIOUS
<1>1. /\ dmi_busy_expected \in BOOLEAN
      /\ SilentMeansInStep /\ RecoveryIsHeard
    BY DEF TypeOK, SilentInv
<1>2. CASE IssueRead
  <2>1. /\ Mine \in Ops \cup {NoOp} /\ DmiScan(Mine, dmi_busy_expected)
        /\ steered' = steered
    BY <1>2 DEF IssueRead, Ops, Mine, TypeOK
  <2>2. SilentMeansInStep'
    BY <2>1, <1>1, ScanInStep
  <2>3. RecoveryIsHeard'
    <3>1. count' = 0 /\ (pc' = "recover" => Captured = Busy)
      BY <1>2 DEF IssueRead
    <3>2. Mine.op # "write"
      BY DEF Mine
    <3>3. Captured = Busy => busy_read' \/ provoked'
      BY <2>1, <3>2 DEF DmiScan, ScoreboardWrite
    <3> QED
      BY <3>1, <3>3 DEF RecoveryIsHeard
  <2> QED
    BY <2>2, <2>3 DEF SilentInv
<1>3. CASE Poll \/ Drain
  <2>1. NoOp \in Ops \cup {NoOp} /\ DmiScan(NoOp, dmi_busy_expected) /\ steered' = steered
    BY <1>3 DEF Poll, Drain
  <2>2. SilentMeansInStep'
    BY <2>1, <1>1, ScanInStep
  <2>3. RecoveryIsHeard'
    BY <1>3, <2>1 DEF Poll, Drain, RecoveryIsHeard, DmiScan, ScoreboardWrite, NoOp
  <2> QED
    BY <2>2, <2>3 DEF SilentInv
<1>4. CASE WriteCall
  <2> DEFINE Write == [call |-> call', attempt |-> 0, op |-> "write"]
  <2>1. Write \in Ops \cup {NoOp} /\ DmiScan(Write, dmi_busy_expected) /\ steered' = steered
    BY <1>4 DEF WriteCall, Call, Ops, TypeOK
  <2>2. SilentMeansInStep'
    BY <2>1, <1>1, ScanInStep
  <2> QED
    BY <1>4, <2>2 DEF SilentInv, RecoveryIsHeard, WriteCall, Call
<1>5. CASE RawScan
  <2>1. call' \in 1 .. MaxCalls /\ steered' = steered
    BY <1>5 DEF RawScan, Call, TypeOK
  <2>2. PICK req \in {NoOp} \cup [call : {call'}, attempt : {0}, op : {"read", "write"}] :
            DmiScan(req, TRUE)
    BY <1>5 DEF RawScan
  <2>3. req \in Ops \cup {NoOp}
    BY <2>1 DEF Ops
  <2>4. SilentMeansInStep'
    BY <1>1, <2>1, <2>2, <2>3, ScanInStep
  <2> QED
    BY <1>5, <2>4 DEF SilentInv, RecoveryIsHeard, RawScan, Call
<1>6. CASE Dmireset
  <2>1. busy_read' \/ provoked'
    BY <1>1, <1>6 DEF Dmireset, NotCaptured, RecoveryIsHeard, scoreboard
  <2> QED
    BY <1>6, <2>1 DEF Dmireset, SilentInv, SilentMeansInStep, RecoveryIsHeard
<1>7. CASE DtmcsCall
  <2>1. PICK bits \in {"none", "dmireset", "dmihardreset"} :
            /\ IF bits = "none" THEN UNCHANGED dtm ELSE DtmReset(bits = "dmihardreset")
            /\ CheckDtmcs(bits # "none")
            /\ steered' = (steered \/ bits # "none")
    BY <1>7 DEF DtmcsCall
  <2>2. SilentMeansInStep'
    <3>1. CASE bits = "none"
      BY <1>1, <1>7, <2>1, <3>1 DEF CheckDtmcs, dtm, SilentMeansInStep, Asked, DtmcsCall, scoreboard
    <3>2. CASE bits # "none"
      BY <2>1, <3>2 DEF SilentMeansInStep
    <3> QED
      BY <3>1, <3>2
  <2> QED
    BY <1>7, <2>2 DEF SilentInv, RecoveryIsHeard, DtmcsCall, Call
<1>8. CASE TapReset
    BY <1>8 DEF TapReset, Call, SilentInv, SilentMeansInStep, RecoveryIsHeard
<1>9. CASE Complete
    BY <1>1, <1>9 DEF Complete, checker, scoreboard, sequence, SilentInv, SilentMeansInStep,
        RecoveryIsHeard, Asked
<1>10. CASE StartRead \/ JtagScan \/ GiveUp \/ PutRsp
    BY <1>1, <1>10 DEF StartRead, JtagScan, GiveUp, PutRsp, Call, dtm, checker, scoreboard,
        SilentInv, SilentMeansInStep, RecoveryIsHeard, Asked
<1>11. CASE UNCHANGED vars
    BY <1>1, <1>11 DEF vars, dtm, checker, scoreboard, sequence, SilentInv, SilentMeansInStep,
        RecoveryIsHeard, Asked
<1> QED
    BY <1>2, <1>3, <1>4, <1>5, <1>6, <1>7, <1>8, <1>9, <1>10, <1>11 DEF Next, Client, Driver

\* While the scoreboard has met neither busy nor failure and the client has
\* not reset the link, the reference model has been given what the DM was
\* asked, in that order: what the checker reports in such a run is about the
\* DM and not about a write the DTM ignored (scoreboard.sv:27-59,
\* dm_checker.sv:382-431).
THEOREM SilentMeansInStepHolds == Spec => []SilentMeansInStep
<1>1. Init => SilentInv
    BY DEF Init, SilentInv, SilentMeansInStep, RecoveryIsHeard, Asked, NoOp
<1>2. SilentInv => SilentMeansInStep
    BY DEF SilentInv
<1> QED
    BY <1>1, <1>2, SilentStep, TypeCorrect, PTL DEF Spec

-----------------------------------------------------------------------------
(* A read sequence comes to its end: its measure shrinks with every step.  *)

LEMMA WorkIsNat == TypeOK => Work \in Nat /\ Phase \in Nat
<1> SUFFICES ASSUME TypeOK PROVE Work \in Nat /\ Phase \in Nat
    OBVIOUS
<1>1. MaxBusyResets - attempt \in Nat /\ Round \in Nat
    BY DEF TypeOK, Round
<1>2. (MaxBusyResets - attempt) * Round \in Nat
    BY <1>1
<1>3. Phase \in Nat
  <2>1. pc = "poll" => MaxBusyPolls - count \in Nat
    BY DEF TypeOK
  <2>2. pc = "drain" => BusyDrainScans - count \in Nat
    BY DEF TypeOK
  <2>3. pc \in {"idle", "issue", "recover", "return", "gave_up"} => Phase \in Nat
    BY DEF Phase
  <2>4. pc = "poll" => Phase \in Nat
    BY <2>1 DEF Phase
  <2>5. pc = "drain" => Phase \in Nat
    BY <2>2 DEF Phase
  <2> QED
    BY <2>3, <2>4, <2>5 DEF TypeOK
<1> QED
    BY <1>2, <1>3 DEF Work

\* Within a round a step takes the phase down; a dmireset starts a round.
LEMMA DriverWorks == TypeOK /\ Driver => Work' < Work
<1> SUFFICES ASSUME TypeOK, Driver PROVE Work' < Work
    OBVIOUS
<1> DEFINE left == MaxBusyResets - attempt
<1>1. left \in Nat /\ Round \in Nat /\ left * Round \in Nat
    BY DEF TypeOK, Round
<1>2. ASSUME attempt' = attempt, Phase' \in Nat, Phase \in Nat, Phase' < Phase PROVE Work' < Work
    BY <1>1, <1>2 DEF Work, Round
<1> USE DEF TypeOK
<1>3. CASE IssueRead
  <2>1. attempt' = attempt /\ Phase \in Nat /\ Phase >= 4 + MaxBusyPolls
    BY <1>3 DEF IssueRead, Phase
  <2>2. Phase' \in Nat /\ Phase' <= 3 + MaxBusyPolls
    BY <1>3 DEF IssueRead, Phase
  <2> QED
    BY <1>2, <2>1, <2>2
<1>4. CASE Poll
  <2>1. attempt' = attempt /\ Phase \in Nat /\ Phase = 3 + (MaxBusyPolls - count) /\ count < MaxBusyPolls
    BY <1>4 DEF Poll, Phase
  <2>2. Phase' \in Nat /\ (Phase' = 1 \/ Phase' = 3 + (MaxBusyPolls - (count + 1)))
    BY <1>4 DEF Poll, Phase
  <2> QED
    BY <1>2, <2>1, <2>2
<1>5. CASE GiveUp \/ PutRsp
  <2>1. attempt' = attempt
    BY <1>5 DEF GiveUp, PutRsp
  <2>2. Phase' \in Nat /\ Phase \in Nat /\ Phase' < Phase
    BY <1>5 DEF GiveUp, PutRsp, NotCaptured, Phase
  <2> QED
    BY <1>2, <2>1, <2>2
<1>6. CASE Drain
  <2>1. /\ pc = "drain" /\ pc' = "drain" /\ attempt' = attempt
        /\ count < BusyDrainScans /\ count' = count + 1
    BY <1>6 DEF Drain
  <2>2. Phase = 5 + MaxBusyPolls + (BusyDrainScans - count)
    BY <2>1 DEF Phase
  <2>3. Phase' = 5 + MaxBusyPolls + (BusyDrainScans - (count + 1))
    BY <2>1 DEF Phase
  <2>4. Phase \in Nat /\ Phase' \in Nat /\ Phase' < Phase
    BY <2>1, <2>2, <2>3
  <2> QED
    BY <1>2, <2>1, <2>4
<1>7. CASE Dmireset
  <2>1. attempt' = attempt + 1 /\ left \in Nat \ {0}
    BY <1>7 DEF Dmireset
  <2>2. Phase \in Nat /\ Phase >= 2
    BY <1>7 DEF Dmireset, NotCaptured, Phase
  <2>3. Phase' = 5 + MaxBusyPolls + BusyDrainScans
    BY <1>7 DEF Dmireset, Phase
  <2>4. (left - 1) * Round = left * Round - Round
    BY <1>1, <2>1
  <2>5. MaxBusyResets - (attempt + 1) = left - 1
    BY <2>1
  <2>6. Work' = (left * Round - Round) + Phase'
    BY <2>1, <2>4, <2>5 DEF Work, Round
  <2> QED
    BY <1>1, <2>2, <2>3, <2>6 DEF Work, Round
<1> QED
    BY <1>3, <1>4, <1>5, <1>6, <1>7 DEF Driver

\* A read sequence that is given steps ends after at most Work of them, for
\* every number of polls, resets and drains, though the DM may never answer
\* and the DTM may be of any kind (dmi_read_seq.sv:64-154).
THEOREM WorkShrinksHolds == Spec => WorkShrinks
<1>1. TypeOK /\ [Next]_vars =>
          [/\ Work \in Nat /\ (Driver => Work' < Work) /\ (Complete => Work' = Work)]_vars
  <2>1. Complete => Work' = Work
    BY DEF Complete, sequence, Work, Phase, Round
  <2> QED
    BY <2>1, WorkIsNat, DriverWorks
<1> QED
    BY <1>1, TypeCorrect, PTL DEF Spec, WorkShrinks
=============================================================================
