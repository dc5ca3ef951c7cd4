------------------------------- MODULE SbaShadow -------------------------------
(***************************************************************************)
(* The System Bus Access shadow of predictor.py (dm_ref_model.sv holds the *)
(* same one), next to a Debug Module that keeps the specification.  Every  *)
(* DMI access reaches both; at a read the checker compares what the model  *)
(* claims, and mismatch says whether it has ever blamed the DM.            *)
(*                                                                         *)
(* The Debug Module and the memory are external.  sbaccess is hardwired    *)
(* (sbaccess_writable is False, as in cva6.json), so every access has the  *)
(* same size, the unit of the addresses here.  A bus access is over before *)
(* the next DMI access: the debugger polls sbcs.sbbusy (_wait_sbus), and   *)
(* TC-SBA-009, which races it on purpose, is outside.  No hart and no      *)
(* Program Buffer stores to the words the debugger works on.               *)
(*                                                                         *)
(* The model keeps no sberror: it shadows and increments for an access     *)
(* that faults, or that the DM ignores because of an earlier fault.  The   *)
(* scripts that provoke sberror (TC-SBA-007, TC-DMC-006) do so by a read   *)
(* without sbautoincrement, and the discipline of the debugger here is the *)
(* same: an access that may fault is such a read, sbdata0 is not read      *)
(* before the next read that succeeds, and sberror is cleared before       *)
(* anything else.  What breaks it is a liberty.                            *)
(***************************************************************************)
EXTENDS Naturals

CONSTANTS
    Values,     \* what a 32-bit word can hold; 0 is one of them
    Unknown,    \* no value: the shadow has no entry
    Span,       \* sbaddress0 and sbaddress1 count modulo Span (2^32, in accesses)
    Wide,       \* cfg.sbasize > 32: sbaddress1 exists
    Liberties   \* what the debugger does that the shadow ignores

\* "stale_arm": sbaddress0 is written after a DM reset, before sbcs.
\* "upper": memory above sbaddress0 is accessed.
\* "readback": sbdata0 is read back after it was written or after a faulty read.
\* "fault": writes and autoincremented reads may fault, or find sberror set.
ASSUME SbaAssumption ==
    /\ 0 \in Values /\ Unknown \notin Values
    /\ Span \in Nat \ {0}
    /\ Wide \in BOOLEAN
    /\ Liberties \subseteq {"stale_arm", "upper", "readback", "fault"}

VARIABLES
    dmactive,                  \* of the DM and of the model: both see every write
    sbcs_read_on_addr_armed,
    sbcs,                      \* sbreadonaddr, sbautoincrement, sbreadondata
    sbaddress0, sbaddress1,
    sbdata0_pending,           \* sbdata0_pending_value, Unknown when not valid
    sbdata1,                   \* sbdata1, Unknown when not sbdata1_known
    shadow_mem,
    mismatch,                  \* total_mismatches > 0
    dm                         \* external: the Debug Module and the memory

model == <<sbcs_read_on_addr_armed, sbcs, sbaddress0, sbaddress1,
           sbdata0_pending, sbdata1, shadow_mem>>
vars == <<dmactive, model, mismatch, dm>>

Half == 0 .. Span - 1
Sbcs == [sbreadonaddr : BOOLEAN, sbautoincrement : BOOLEAN, sbreadondata : BOOLEAN]
SbcsReset == [sbreadonaddr |-> FALSE, sbautoincrement |-> FALSE, sbreadondata |-> FALSE]

-----------------------------------------------------------------------------
(* The Debug Module.  configured: sbcs was written since the last reset;   *)
(* fresh: sbdata0 was not written since the last bus read, which was good; *)
(* error: sberror # 0, which holds until it is cleared in sbcs.            *)

DmState == [sbcs : Sbcs, address0 : Half, address1 : Half, data0 : Values, data1 : Values,
            mem : [Half \X Half -> Values], configured : BOOLEAN, fresh : BOOLEAN, error : BOOLEAN]

DmReset(mem) == [sbcs |-> SbcsReset, address0 |-> 0, address1 |-> 0, data0 |-> 0, data1 |-> 0,
                 mem |-> mem, configured |-> FALSE, fresh |-> TRUE, error |-> FALSE]

BusAddress(d) == <<IF Wide THEN d.address1 ELSE 0, d.address0>>

\* The reads that may fault, and the accesses the debugger may make.
MayFault(d) == "fault" \in Liberties \/ ~d.sbcs.sbautoincrement
MayAccess(d) == /\ "upper" \in Liberties \/ BusAddress(d)[1] = 0
                /\ d.error => MayFault(d)

DmIncrement(d) ==
    IF ~d.sbcs.sbautoincrement THEN d
    ELSE [d EXCEPT !.address0 = (@ + 1) % Span,
                   !.address1 = IF d.address0 = Span - 1 /\ Wide THEN (@ + 1) % Span ELSE @]

\* A read that fills sbdata, or one that faults or is ignored.  The upper word of
\* a bus read is not followed.
BusRead(d) ==
    (IF ~MayFault(d) THEN {}
     ELSE {[d EXCEPT !.error = TRUE, !.data1 = u, !.fresh = FALSE] : u \in Values})
    \cup
    (IF d.error THEN {}
     ELSE {DmIncrement([d EXCEPT !.data0 = d.mem[BusAddress(d)], !.data1 = u, !.fresh = TRUE])
              : u \in Values})

\* A write of v to sbdata0 that reaches memory, or one that faults or is ignored.
BusWrite(d, v) ==
    (IF "fault" \notin Liberties THEN {} ELSE {[d EXCEPT !.error = TRUE, !.fresh = FALSE]})
    \cup
    (IF d.error THEN {}
     ELSE {DmIncrement([d EXCEPT !.data0 = v, !.mem[BusAddress(d)] = v, !.fresh = FALSE])})

-----------------------------------------------------------------------------
(* The model.                                                              *)

\* Mutant of SbaAutoincrement: no carry.
IncrementNoCarry(a0) ==
    /\ sbaddress0' = IF sbcs.sbautoincrement THEN (a0 + 1) % Span ELSE a0
    /\ UNCHANGED sbaddress1

\* _sba_autoincrement, with a0 in sbaddress0.
SbaAutoincrement(a0) ==
    LET a == sbaddress1 * Span + a0 + (IF sbcs.sbautoincrement THEN 1 ELSE 0)
    IN  /\ sbaddress0' = a % Span
        /\ sbaddress1' = IF Wide THEN (a \div Span) % Span ELSE sbaddress1

SbaArmRead(a) ==
    /\ sbdata1' = Unknown
    /\ sbdata0_pending' = shadow_mem[a]

\* Mutant of ArmThenIncrement: the increment comes first.
IncrementThenArm(a) == SbaAutoincrement(a) /\ SbaArmRead(sbaddress0')

\* The read is made at the address in sbaddress0, which only then moves.
ArmThenIncrement(a) == SbaArmRead(a) /\ SbaAutoincrement(a)

-----------------------------------------------------------------------------
Init ==
    /\ dmactive = FALSE
    /\ sbcs_read_on_addr_armed = FALSE
    /\ sbcs = SbcsReset
    /\ sbaddress0 = 0 /\ sbaddress1 = 0
    /\ sbdata0_pending = 0 /\ sbdata1 = 0
    /\ shadow_mem = [a \in Half |-> Unknown]
    /\ mismatch = FALSE
    /\ \E mem \in [Half \X Half -> Values] : dm = DmReset(mem)

Activate ==
    /\ ~dmactive
    /\ dmactive' = TRUE
    /\ UNCHANGED <<model, mismatch, dm>>

\* dmcontrol.dmactive = 0: _reset_declared_regs.  The shadow of the memory
\* survives, and so does sbcs_read_on_addr_armed.
ResetDm ==
    /\ dmactive
    /\ dmactive' = FALSE
    /\ sbcs' = SbcsReset
    /\ sbaddress0' = 0 /\ sbaddress1' = 0
    /\ sbdata0_pending' = 0 /\ sbdata1' = 0
    /\ dm' = DmReset(dm.mem)
    /\ UNCHANGED <<sbcs_read_on_addr_armed, shadow_mem, mismatch>>

\* clear: 1s are written to sberror.
WriteSbcs(s, clear) ==
    /\ dmactive
    /\ sbcs_read_on_addr_armed' = s.sbreadonaddr
    /\ sbcs' = s
    /\ dm' = [dm EXCEPT !.sbcs = s, !.configured = TRUE, !.error = @ /\ ~clear]
    /\ UNCHANGED <<dmactive, sbaddress0, sbaddress1, sbdata0_pending, sbdata1, shadow_mem, mismatch>>

WriteSbaddress0(a) ==
    /\ dmactive
    /\ "stale_arm" \in Liberties \/ dm.configured
    /\ LET d == [dm EXCEPT !.address0 = a]
       IN  IF dm.sbcs.sbreadonaddr THEN MayAccess(d) /\ dm' \in BusRead(d) ELSE dm' = d
    /\ IF sbcs_read_on_addr_armed THEN ArmThenIncrement(a)
       ELSE sbaddress0' = a /\ UNCHANGED <<sbaddress1, sbdata0_pending, sbdata1>>
    /\ UNCHANGED <<dmactive, sbcs_read_on_addr_armed, sbcs, shadow_mem, mismatch>>

WriteSbaddress1(a) ==
    /\ dmactive
    /\ sbaddress1' = a
    /\ dm' = IF Wide THEN [dm EXCEPT !.address1 = a] ELSE dm
    /\ UNCHANGED <<dmactive, sbcs_read_on_addr_armed, sbcs, sbaddress0, sbdata0_pending,
                   sbdata1, shadow_mem, mismatch>>

\* Mutant of WriteSbdata0: the shadow is written behind the increment.
WriteAfterIncrement(v) ==
    /\ dmactive /\ MayAccess(dm)
    /\ SbaAutoincrement(sbaddress0)
    /\ shadow_mem' = [shadow_mem EXCEPT ![sbaddress0'] = v]
    /\ dm' \in BusWrite(dm, v)
    /\ UNCHANGED <<dmactive, sbcs_read_on_addr_armed, sbcs, sbdata0_pending, sbdata1, mismatch>>

WriteSbdata0(v) ==
    /\ dmactive /\ MayAccess(dm)
    /\ shadow_mem' = [shadow_mem EXCEPT ![sbaddress0] = v]
    /\ SbaAutoincrement(sbaddress0)
    /\ dm' \in BusWrite(dm, v)
    /\ UNCHANGED <<dmactive, sbcs_read_on_addr_armed, sbcs, sbdata0_pending, sbdata1, mismatch>>

\* The DM ignores it while sberror is set.
WriteSbdata1(v) ==
    /\ dmactive
    /\ dm.error => "fault" \in Liberties
    /\ sbdata1' = v
    /\ dm' = IF dm.error THEN dm ELSE [dm EXCEPT !.data1 = v]
    /\ UNCHANGED <<dmactive, sbcs_read_on_addr_armed, sbcs, sbaddress0, sbaddress1,
                   sbdata0_pending, shadow_mem, mismatch>>

\* The comparison, then the effects of the read on both.
ReadSbdata0 ==
    /\ dmactive
    /\ "readback" \in Liberties \/ dm.fresh
    /\ mismatch' = (mismatch \/ sbdata0_pending \notin {Unknown, dm.data0})
    /\ IF dm.sbcs.sbreadondata THEN MayAccess(dm) /\ dm' \in BusRead(dm) ELSE dm' = dm
    /\ IF sbcs.sbreadondata THEN ArmThenIncrement(sbaddress0)
       ELSE UNCHANGED <<sbaddress0, sbaddress1, sbdata0_pending, sbdata1>>
    /\ UNCHANGED <<dmactive, sbcs_read_on_addr_armed, sbcs, shadow_mem>>

\* What predict returns for sbcs, sbaddress0, sbaddress1 and sbdata1.
Predicts == /\ sbcs = dm.sbcs
            /\ sbaddress0 = dm.address0
            /\ Wide => sbaddress1 = dm.address1
            /\ sbdata1 \in {Unknown, dm.data1}

\* A read of any of the other registers, which has no effect.
ReadOther ==
    /\ dmactive
    /\ mismatch' = (mismatch \/ ~Predicts)
    /\ UNCHANGED <<dmactive, model, dm>>

Next ==
    \/ Activate \/ ResetDm \/ ReadSbdata0 \/ ReadOther
    \/ \E s \in Sbcs, clear \in BOOLEAN : WriteSbcs(s, clear)
    \/ \E a \in Half : WriteSbaddress0(a) \/ WriteSbaddress1(a)
    \/ \E v \in Values : WriteSbdata0(v) \/ WriteSbdata1(v)

Spec == Init /\ [][Next]_vars

-----------------------------------------------------------------------------
TypeOK ==
    /\ dmactive \in BOOLEAN /\ sbcs_read_on_addr_armed \in BOOLEAN /\ mismatch \in BOOLEAN
    /\ sbcs \in Sbcs /\ sbaddress0 \in Half /\ sbaddress1 \in Half
    /\ sbdata0_pending \in Values \cup {Unknown} /\ sbdata1 \in Values \cup {Unknown}
    /\ shadow_mem \in [Half -> Values \cup {Unknown}]
    /\ dm \in DmState

\* dm_checker.check_read_response: the checker never reports MODEL_MISMATCH
\* against a Debug Module that keeps the specification, one whose reads fault
\* included, while the debugger takes no liberty: accesses that may fault are reads
\* without autoincrement, as in TC-SBA-007 and TC-DMC-006.
NoFalseMismatch == ~mismatch

\* _write_sbdata0: a word the shadow holds is the word in memory, after any
\* sequence of autoincremented bursts, resets, re-armed and faulting reads; the
\* writes all succeed, of a failed one the model learns nothing.
MemoryShadowTrue == \A a \in Half : shadow_mem[a] \in {Unknown, dm.mem[<<0, a>>]}

\* _sba_autoincrement: the model never runs ahead of the DM or falls behind it;
\* the carry reaches sbaddress1 in the same access, and a read that faults, which
\* must not be autoincremented, moves neither.
BurstInStep == sbaddress0 = dm.address0 /\ (Wide => sbaddress1 = dm.address1)
=============================================================================
