---------------------------- MODULE AbstractShadow ----------------------------
(***************************************************************************)
(* The abstract-command shadow of dm_ref_model.sv, driven by dm_checker.sv *)
(* next to a Debug Module that keeps the specification.  Every DMI access  *)
(* of the debugger reaches both; at a read of data0 or data1 the checker   *)
(* compares, and mismatch says whether it has ever blamed the DM.          *)
(*                                                                         *)
(* The Debug Module, its harts and the programs they run are external.     *)
(* datacount is 2, as every file of dut_configs declares.  The text of the *)
(* Program Buffer is left out: it may do anything a program can.           *)
(*                                                                         *)
(* The model keeps no cmderr: it applies the transfer of a command the DM  *)
(* refuses, ignores or fails.  cmd_outcome_sequence.py:32-35 draws the     *)
(* consequence for the scripts, and the debugger here keeps the same       *)
(* discipline: commands that may fail transfer by read, and a data word is *)
(* written again before it is read.  What it must not do is a liberty.     *)
(***************************************************************************)
EXTENDS Naturals

CONSTANTS
    Values,     \* what a 32-bit word can hold; 0 is one of them
    Unknown,    \* no value: the shadow has no entry
    RegNos,     \* register numbers
    X0,         \* regno of x0
    Triggers,   \* the regnos 0x7A0-0x7AF, whose writes are legalised
    Commands,   \* the words a debugger may write to command, decoded
    AutoWords,  \* the values a debugger may write to abstractauto, as sets of words
    Liberties   \* what the debugger and its programs do that the shadow ignores

\* "copy": a register is written from data0 as a command left it there.
\* "unguarded": another register (dmcontrol, sbcs) is written while busy.
\* "reset": a hart is reset and its registers are read again.
\* "select": another hart is selected and its registers are read.
\* "dataaccess": the Program Buffer stores to data0 (hartinfo.dataaccess).
\* "refusedwrite": a register is written by a command the DM does not perform.
\* "staleread": a data word is read as a failed command left it.
\* "reservedsize": a program that changes registers is run with transfer = 0
\* and a reserved aarsize, which the DM may ignore and the model does not.
AllLiberties == {"copy", "unguarded", "reset", "select", "dataaccess",
                 "refusedwrite", "staleread", "reservedsize"}

\* A decoded Access Register command; ~accepted stands for another cmdtype or
\* for aarsize above 3, wide for aarsize = 3.
Command == [accepted : BOOLEAN, transfer : BOOLEAN, write : BOOLEAN,
            postexec : BOOLEAN, wide : BOOLEAN, regno : RegNos]

ASSUME ShadowAssumption ==
    /\ 0 \in Values /\ Unknown \notin Values
    /\ X0 \in RegNos
    /\ Triggers \subseteq RegNos \ {X0}
    /\ Commands \subseteq Command
    /\ AutoWords \subseteq SUBSET (0 .. 1)
    /\ Liberties \subseteq AllLiberties

VARIABLES
    dmactive,          \* of the DM and of the model: both see every write
    staged,            \* staged_data0, staged_data1
    data, known,       \* data0_pending_*, data_q[1], data_known[1]
    shadow_regs, shadow_hi,
    abstractauto,      \* the data words whose autoexecdata bit is set
    last_command,
    observed_cmdbusy,  \* abstractcs.busy as sampled at the last DMI write
    mismatch,          \* total_mismatches > 0
    dm                 \* external: the Debug Module and the selected hart

model == <<staged, data, known, shadow_regs, shadow_hi, abstractauto, last_command>>
vars == <<dmactive, model, observed_cmdbusy, mismatch, dm>>

Shadow == [RegNos -> Values \cup {Unknown}]
Nothing == [r \in RegNos |-> Unknown]
NoCommand == [accepted |-> TRUE, transfer |-> FALSE, write |-> FALSE,
              postexec |-> FALSE, wide |-> FALSE, regno |-> X0]
Pair == [0 .. 1 -> Values]

-----------------------------------------------------------------------------
(* The Debug Module.  staged holds of a data word that the debugger knows  *)
(* for its own: no command has replaced it since it was written.  stale    *)
(* holds of one that a failed command may have left with any content: its  *)
(* place in data is 0 then, and a read of it returns any value.            *)

DmState == [data : Pair, regs : [RegNos -> Pair], auto : SUBSET (0 .. 1),
            command : Commands \cup {NoCommand}, busy : BOOLEAN, cmderr : BOOLEAN,
            staged : [0 .. 1 -> BOOLEAN], stale : [0 .. 1 -> BOOLEAN]]

DmReset(f) == [data |-> [i \in 0 .. 1 |-> 0], regs |-> f, auto |-> {}, command |-> NoCommand,
               busy |-> FALSE, cmderr |-> FALSE, staged |-> [i \in 0 .. 1 |-> TRUE],
               stale |-> [i \in 0 .. 1 |-> FALSE]]

\* Every register file a program can leave behind; x0 stays 0.
Files == {f \in [RegNos -> Pair] : \A i \in 0 .. 1 : f[X0][i] = 0}

\* The register files after the transfer of c: a narrow write leaves the upper
\* half to the implementation, a trigger CSR takes what it likes.
Written(d, c) ==
    {f \in Files : \A r \in RegNos :
        \/ r # c.regno /\ f[r] = d.regs[r]
        \/ r = c.regno /\ (r \in Triggers \cup {X0} \/ (/\ f[r][0] = d.data[0]
                                                        /\ c.wide => f[r][1] = d.data[1]))}

DataRead(d, c) == [i \in 0 .. 1 |-> IF i = 0 \/ c.wide THEN d.regs[c.regno][i] ELSE d.data[i]]

Reads(c) == c.transfer /\ ~c.write
\* Command c leaves data word i alone.
Keeps(c, i) == Reads(c) => i = 1 /\ ~c.wide
Moved(d, c) == IF Reads(c) THEN DataRead(d, c) ELSE d.data

\* What command c may leave in the registers and in the data words.
RegsAfter(d, c) ==
    IF c.postexec /\ (c.accepted \/ "reservedsize" \in Liberties) THEN Files
    ELSE IF c.transfer /\ c.write THEN Written(d, c) ELSE {d.regs}
DataAfter(d, c) ==
    IF c.postexec /\ "dataaccess" \in Liberties
    THEN {[Moved(d, c) EXCEPT ![0] = v] : v \in Values} ELSE {Moved(d, c)}

Started(d, c, f, w) ==
    [d EXCEPT !.busy = TRUE, !.regs = f, !.data = w,
              !.staged = [i \in 0 .. 1 |-> d.staged[i] /\ w[i] = Moved(d, c)[i] /\ Keeps(c, i)],
              !.stale = [i \in 0 .. 1 |-> d.stale[i] /\ Keeps(c, i)]]

\* A command that is refused, that is ignored because of cmderr, or that fails.
Failed(d) ==
    [d EXCEPT !.busy = FALSE, !.cmderr = TRUE, !.data = [i \in 0 .. 1 |-> 0],
              !.staged = [i \in 0 .. 1 |-> FALSE], !.stale = [i \in 0 .. 1 |-> TRUE]]

\* The commands that may fail: any but a register write without postexec, of
\* which the debugger has to know that the DM performs it.
MayFail(c) ==
    c.transfer /\ c.write /\ c.accepted /\ ~c.postexec => "refusedwrite" \in Liberties

\* The commands that may succeed; with transfer = 0 aarsize does not matter.
MaySucceed(d, c) == ~d.cmderr /\ (c.accepted \/ ~c.transfer)

\* The states the DM may be in after it has taken up command c.
Executions(d, c) ==
    (IF MayFail(c) THEN {Failed(d)} ELSE {})
    \cup (IF MaySucceed(d, c)
          THEN {Started(d, c, p[1], p[2]) : p \in RegsAfter(d, c) \X DataAfter(d, c)} ELSE {})

\* What data word i of d returns to a read, and whether a register may be written from it.
Contents(d, i) == IF d.stale[i] THEN Values ELSE {d.data[i]}
Usable(d, i) == d.staged[i] \/ ("copy" \in Liberties /\ ~d.stale[i])

\* The debugger's discipline: it clears cmderr before it writes a register, and
\* writes it only from the data words it has staged itself.
MayRun(d, c) ==
    /\ d.cmderr => MayFail(c)
    /\ c.transfer /\ c.write => Usable(d, 0) /\ (c.wide => Usable(d, 1))

-----------------------------------------------------------------------------
(* The model.  An operator per function; each takes the model as a record. *)

M == [staged |-> staged, data |-> data, known |-> known, shadow_regs |-> shadow_regs,
      shadow_hi |-> shadow_hi, abstractauto |-> abstractauto, last_command |-> last_command]

Becomes(m) ==
    /\ staged' = m.staged /\ data' = m.data /\ known' = m.known
    /\ shadow_regs' = m.shadow_regs /\ shadow_hi' = m.shadow_hi
    /\ abstractauto' = m.abstractauto /\ last_command' = m.last_command

reads_back_as_written(r) == r \notin Triggers

\* A read transfer into data word i from the shadow s of register r.
arm(m, i, s, r) ==
    IF r = X0 THEN [m EXCEPT !.data[i] = 0, !.known[i] = TRUE]
    ELSE IF s[r] # Unknown /\ reads_back_as_written(r)
    THEN [m EXCEPT !.data[i] = s[r], !.known[i] = TRUE]
    ELSE [m EXCEPT !.known[i] = FALSE]

forget(m) == [m EXCEPT !.shadow_regs = Nothing, !.shadow_hi = Nothing]

\* The transfer of a command: the staged words into the shadow, or the shadow
\* into the data words.
transfer(m, c) ==
    IF ~c.transfer THEN m
    ELSE IF c.write
    THEN [m EXCEPT !.shadow_regs[c.regno] = m.staged[0],
                   !.shadow_hi[c.regno] = IF c.wide THEN m.staged[1] ELSE Unknown]
    ELSE arm(IF c.wide THEN arm(m, 1, m.shadow_hi, c.regno) ELSE m, 0, m.shadow_regs, c.regno)

\* Mutant of execute_command: the Program Buffer is taken to change nothing.
ExecuteKeepsShadow(m, c) == IF ~c.accepted THEN m ELSE transfer(m, c)

\* The transfer first, then postexec.
execute_command(m, c) ==
    IF ~c.accepted THEN m
    ELSE IF c.postexec THEN forget(transfer(m, c)) ELSE transfer(m, c)

autoexec_armed(m, busy, i) == ~busy /\ i \in m.abstractauto

write_buffer(m, i, v) ==
    [m EXCEPT !.staged[i] = v, !.data[i] = v, !.known[i] = TRUE]

\* Mutant of after_access: an access to an armed word does not re-run command.
NoAutoexec(m, busy, i) == m

\* observe_read, and the last statement of write_buffer.
after_access(m, busy, i) ==
    IF autoexec_armed(m, busy, i) THEN execute_command(m, m.last_command) ELSE m

-----------------------------------------------------------------------------
Init ==
    /\ dmactive = FALSE
    /\ staged = [i \in 0 .. 1 |-> 0]
    /\ data = [i \in 0 .. 1 |-> 0] /\ known = [i \in 0 .. 1 |-> TRUE]
    /\ shadow_regs = Nothing /\ shadow_hi = Nothing
    /\ abstractauto = {} /\ last_command = NoCommand
    /\ observed_cmdbusy = FALSE /\ mismatch = FALSE
    /\ \E f \in Files : dm = DmReset(f)

Activate ==
    /\ ~dmactive
    /\ dmactive' = TRUE
    /\ observed_cmdbusy' = dm.busy
    /\ UNCHANGED <<model, mismatch, dm>>

\* dmcontrol.dmactive = 0: reset_declared_regs; the shadows of the hart survive.
ResetDm ==
    /\ dmactive
    /\ dmactive' = FALSE
    /\ staged' = [i \in 0 .. 1 |-> 0]
    /\ data' = [i \in 0 .. 1 |-> 0] /\ known' = [i \in 0 .. 1 |-> TRUE]
    /\ abstractauto' = {} /\ last_command' = NoCommand
    /\ observed_cmdbusy' = dm.busy
    /\ dm' = DmReset(dm.regs)
    /\ UNCHANGED <<shadow_regs, shadow_hi, mismatch>>

\* on_write with a guarded address while busy: refused by both.
RefusedWrite ==
    /\ dmactive /\ dm.busy
    /\ observed_cmdbusy' = TRUE
    /\ dm' = [dm EXCEPT !.cmderr = TRUE]
    /\ UNCHANGED <<dmactive, model, mismatch>>

WriteData(i, v) ==
    /\ dmactive /\ ~dm.busy
    /\ observed_cmdbusy' = FALSE
    /\ Becomes(after_access(write_buffer(M, i, v), FALSE, i))
    /\ LET d == [dm EXCEPT !.data[i] = v, !.staged[i] = TRUE, !.stale[i] = FALSE]
       IN  IF i \in dm.auto THEN MayRun(d, d.command) /\ dm' \in Executions(d, d.command)
                            ELSE dm' = d
    /\ UNCHANGED <<dmactive, mismatch>>

WriteCommand(c) ==
    /\ dmactive /\ ~dm.busy /\ MayRun(dm, c)
    /\ observed_cmdbusy' = FALSE
    /\ Becomes(execute_command([M EXCEPT !.last_command = c], c))
    /\ dm' \in Executions([dm EXCEPT !.command = c], c)
    /\ UNCHANGED <<dmactive, mismatch>>

WriteAbstractauto(words) ==
    /\ dmactive /\ ~dm.busy
    /\ observed_cmdbusy' = FALSE
    /\ Becomes([M EXCEPT !.abstractauto = words])
    /\ dm' = [dm EXCEPT !.auto = words]
    /\ UNCHANGED <<dmactive, mismatch>>

\* A write of 1s to abstractcs.cmderr.  The model keeps no cmderr.
ClearCmderr ==
    /\ dmactive /\ ~dm.busy /\ dm.cmderr
    /\ observed_cmdbusy' = FALSE
    /\ dm' = [dm EXCEPT !.cmderr = FALSE]
    /\ UNCHANGED <<dmactive, model, mismatch>>

\* A write to a register outside this module; while busy only as a liberty.
OtherWrite ==
    /\ dmactive
    /\ dm.busy => "unguarded" \in Liberties
    /\ observed_cmdbusy' = dm.busy
    /\ UNCHANGED <<dmactive, model, mismatch, dm>>

\* check_read_response: compare what has_model claims, then observe_read.
ReadData(i) ==
    /\ dmactive /\ ~dm.busy
    /\ dm.stale[i] => "staleread" \in Liberties
    /\ i \in dm.auto => MayRun(dm, dm.command)
    /\ \E v \in Contents(dm, i) : mismatch' = (mismatch \/ (known[i] /\ data[i] # v))
    /\ Becomes(after_access(M, observed_cmdbusy, i))
    /\ dm' \in IF i \in dm.auto THEN Executions(dm, dm.command) ELSE {dm}
    /\ UNCHANGED <<dmactive, observed_cmdbusy>>

\* Mutant of Resume: the shadow of a hart that has run is kept.
ResumeKeepsShadow ==
    /\ dmactive /\ ~dm.busy
    /\ \E f \in Files : dm' = [dm EXCEPT !.regs = f]
    /\ observed_cmdbusy' = FALSE
    /\ UNCHANGED <<dmactive, mismatch, model>>

\* resumereq to the halted hart, which runs and is halted again.  To a hart that
\* is not halted it changes neither the shadow nor the hart: that is OtherWrite.
Resume ==
    /\ dmactive /\ ~dm.busy
    /\ \E f \in Files : dm' = [dm EXCEPT !.regs = f]
    /\ Becomes(forget(M))
    /\ observed_cmdbusy' = FALSE
    /\ UNCHANGED <<dmactive, mismatch>>

\* ndmreset with halt-on-reset: the hart is halted again, its registers reset.
\* Without the liberty the debugger does so only before it writes a register.
ResetHart ==
    /\ "reset" \in Liberties \/ (shadow_regs = Nothing /\ shadow_hi = Nothing)
    /\ dmactive /\ ~dm.busy
    /\ \E f \in Files : dm' = [dm EXCEPT !.regs = f]
    /\ observed_cmdbusy' = FALSE
    /\ UNCHANGED <<dmactive, mismatch, model>>

\* A dmcontrol write selects another halted hart: there is one shadow for all
\* harts.  Without the liberty it is empty then, and what the debugger left
\* in the registers of a hart it returns to is nothing the shadow holds.
SelectHart ==
    /\ "select" \in Liberties \/ (shadow_regs = Nothing /\ shadow_hi = Nothing)
    /\ dmactive /\ ~dm.busy
    /\ \E f \in Files : dm' = [dm EXCEPT !.regs = f]
    /\ observed_cmdbusy' = FALSE
    /\ UNCHANGED <<dmactive, mismatch, model>>

\* External: the command in flight ends, well or with an error (its program may
\* raise an exception).
Complete ==
    /\ dm.busy
    /\ dm' \in {[dm EXCEPT !.busy = FALSE]}
               \cup (IF MayFail(dm.command) THEN {Failed(dm)} ELSE {})
    /\ UNCHANGED <<dmactive, model, observed_cmdbusy, mismatch>>

Next ==
    \/ Activate \/ ResetDm \/ RefusedWrite \/ ClearCmderr \/ OtherWrite
    \/ \E i \in 0 .. 1 : ReadData(i) \/ \E v \in Values : WriteData(i, v)
    \/ \E c \in Commands : WriteCommand(c)
    \/ \E words \in AutoWords : WriteAbstractauto(words)
    \/ Resume \/ ResetHart \/ SelectHart \/ Complete

Spec == Init /\ [][Next]_vars

-----------------------------------------------------------------------------
TypeOK ==
    /\ dmactive \in BOOLEAN /\ observed_cmdbusy \in BOOLEAN /\ mismatch \in BOOLEAN
    /\ staged \in Pair /\ data \in Pair /\ known \in [0 .. 1 -> BOOLEAN]
    /\ shadow_regs \in Shadow /\ shadow_hi \in Shadow
    /\ abstractauto \in SUBSET (0 .. 1) /\ last_command \in Commands \cup {NoCommand}
    /\ dm \in DmState

\* dm_checker.check_read_response: the checker never reports MODEL_MISMATCH
\* against a Debug Module that keeps the specification, one that refuses, ignores
\* and fails commands included, while the debugger keeps the discipline that
\* cmd_outcome_sequence.py:32-35 states and takes no other liberty.
NoFalseMismatch == ~mismatch

\* execute_command: what the shadow holds of a register that reads back as
\* written is what the register holds, although the model learns nothing of a
\* command that failed.
ShadowTrue ==
    \A r \in RegNos \ (Triggers \cup {X0}) :
        /\ shadow_regs[r] \in {Unknown, dm.regs[r][0]}
        /\ shadow_hi[r] \in {Unknown, dm.regs[r][1]}

\* Whenever has_model claims a data word that no failed command has left behind,
\* predict returns what a read would.
ClaimTrue == \A i \in 0 .. 1 : known[i] /\ ~dm.stale[i] => data[i] = dm.data[i]
=============================================================================
