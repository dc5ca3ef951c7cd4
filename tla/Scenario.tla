------------------------------ MODULE Scenario ------------------------------
(***************************************************************************)
(* A debug session (api/session.py, DebugSession) running one script over  *)
(* a target.  The script's thread takes one DMI access or one decision at  *)
(* a time; between any two of them a target that is not prompt may move: a *)
(* hart halts, resumes or executes, a command or a bus access completes.   *)
(***************************************************************************)
EXTENDS RiscvDm
LOCAL INSTANCE Functions
LOCAL INSTANCE SequencesExt

CONSTANTS Scripts,      \* script name -> script
          Configs,      \* script name -> the targets it may meet
          Defects,      \* seeded defect -> the steps that must report it
          TimingSteps,  \* the steps whose verdict depends on how far the target got
          FalseAlarms(_) \* the steps that fail a target which only uses a latitude

VARIABLES script,       \* the script this session runs
          cfg,          \* the target's configuration
          dut,          \* the target's state
          hartsel,      \* RISCVDebug._hartsel
          at,           \* the number of the current step; 0 once the session is over
          code,         \* the instructions the current step has left
          env,          \* the values its variables hold
          ok,           \* its verdict so far
          failed,       \* the steps that did not pass
          expired       \* the conditions polls gave up on
vars == <<script, cfg, dut, hartsel, at, code, env, ok, failed, expired>>

Steps == Scripts[script].steps

Holds(r, want) == \A f \in DOMAIN want : r[f] \in want[f]

Init ==
    /\ script \in DOMAIN Scripts
    /\ cfg \in Configs[script]
    /\ dut = TargetInit(Scripts[script].boot, cfg)
    /\ code = Scripts[script].steps[1].body
    /\ hartsel = 0 /\ at = 1 /\ env = [x \in {} |-> 0] /\ ok = TRUE /\ failed = {} /\ expired = {}

-----------------------------------------------------------------------------
(* The instructions. *)

Now == Head(code)

(* The variables an instruction reads: one that an earlier step was to set *)
(* and did not is a KeyError.                                              *)
Uses ==
    CASE Now.op \in {"check", "if", "until"} -> {Now.on}
      [] Now.op = "differ" -> Now.on
      [] Now.op \in {"same", "ifsame"} -> {Now.on, Now.with}
      [] Now.op = "copy" -> {Now.from}
      [] Now.op = "mix" -> {Now.from, Now.to}
      [] Now.op = "modify" -> {Now.to}
      [] Now.op = "control" -> {Now.base} \ {"tracked", "zero"}
      [] OTHER -> {}
Bound == Uses \subseteq DOMAIN env
Doing(op) == at > 0 /\ code # <<>> /\ Now.op = op /\ Bound

(* A target that answers at once has done so before the next instruction;  *)
(* a late one at any time, although its hart may leave Debug Mode at once. *)
Ready == IF cfg.late THEN cfg.leaves => ~Leaving(dut) ELSE Quiet(dut, cfg)
Assign(x, r) == env' = (x :> r) @@ env

(* An exception ends the step as failed, unless a try block is open: then  *)
(* its handler runs.                                                       *)
RaiseFrom(c) ==
    LET tries == {i \in DOMAIN c : c[i].op = "endtry"}
        first == CHOOSE i \in tries : \A j \in tries : i <= j
    IN IF tries = {} THEN code' = <<>> /\ ok' = FALSE
       ELSE code' = c[first].handler \o SubSeq(c, first + 1, Len(c)) /\ ok' = ok

WriteValue ==
    CASE Now.op = "write" -> Now.val
      [] Now.op = "copy" -> env[Now.from]
      [] OTHER -> Now.rec @@ (CASE Now.base = "tracked" -> [dmactive |-> TRUE, hartsel |-> hartsel]
                                [] Now.base = "zero" -> [hartsel |-> 0]
                                [] OTHER -> env[Now.base]) @@ ZeroControl

DoWrite ==
    /\ Doing("write") \/ Doing("copy") \/ Doing("control")
    /\ LET reg == IF Now.op = "control" THEN "dmcontrol" ELSE Now.reg
       IN dut' = WriteReg(Scanned(dut, reg), reg, WriteValue, cfg)
    /\ code' = Tail(code)
    /\ UNCHANGED <<script, cfg, hartsel, at, env, ok, failed, expired>>

DoRead ==
    /\ Doing("read")
    /\ Assign(Now.to, ReadValue(dut, Now.reg, cfg))
    /\ dut' = ReadEffect(Scanned(dut, Now.reg), Now.reg, cfg)
    /\ code' = Tail(code)
    /\ UNCHANGED <<script, cfg, hartsel, at, ok, failed, expired>>

(* One turn of _poll_until: done, an error the predicate raises, or again. *)
DoPoll ==
    /\ Doing("poll")
    /\ LET r == ReadValue(dut, Now.reg, cfg) IN
          IF Now.error # "none" /\ r[Now.error] # 0 THEN RaiseFrom(Tail(code))
          ELSE ok' = ok /\ code' = IF Holds(r, Now.want) THEN Tail(code) ELSE code
    /\ dut' = ReadEffect(Scanned(dut, Now.reg), Now.reg, cfg)
    /\ UNCHANGED <<script, cfg, hartsel, at, env, failed, expired>>

DoWait ==
    /\ Doing("wait")
    /\ IF Holds(ReadValue(dut, Now.reg, cfg), Now.want)
       THEN Assign(Now.to, [v |-> TRUE]) /\ code' = Tail(code) ELSE UNCHANGED <<env, code>>
    /\ dut' = ReadEffect(Scanned(dut, Now.reg), Now.reg, cfg)
    /\ UNCHANGED <<script, cfg, hartsel, at, ok, failed, expired>>

(* A poll raises when its deadline has passed, a wait gives False. *)
Expired ==
    /\ Doing("poll") \/ Doing("wait")
    /\ ~Holds(ReadValue(dut, Now.reg, cfg), Now.want)
    /\ expired' = expired \cup {DOMAIN Now.want}
    /\ IF Now.op = "poll" THEN RaiseFrom(Tail(code)) /\ UNCHANGED env
       ELSE Assign(Now.to, [v |-> FALSE]) /\ code' = Tail(code) /\ ok' = ok
    /\ UNCHANGED <<script, cfg, dut, hartsel, at, failed>>

(* Mutant: the deadline is computed again on every turn of the poll. *)
DeadlineRestarts == Expired /\ cfg.slow

(* The deadline passes: always, when the condition can no longer come      *)
(* true; at any time, over a target that is slower than the timeout.       *)
Expires == Expired /\ (cfg.slow \/ (Quiet(dut, cfg) /\ ~dut.abs.long))

Agree == \A f \in Now.fields : env[Now.on][f] = env[Now.with][f]
Verdict ==
    CASE Now.op = "check" -> Holds(env[Now.on], Now.want)
      [] Now.op = "differ" -> Cardinality({env[x][Now.field] : x \in Now.on}) > 1
      [] OTHER -> Agree

DoCheck ==
    /\ Doing("check") \/ Doing("same") \/ Doing("differ")
    /\ ok' = (ok /\ Verdict)
    /\ code' = Tail(code)
    /\ UNCHANGED <<script, cfg, dut, hartsel, at, env, failed, expired>>

DoIf ==
    /\ \/ Doing("if") /\ code' = (IF Holds(env[Now.on], Now.want) THEN Now.then ELSE Now.else) \o Tail(code)
       \/ Doing("ifsame") /\ code' = (IF Agree THEN Now.then ELSE Now.else) \o Tail(code)
    /\ UNCHANGED <<script, cfg, dut, hartsel, at, env, ok, failed, expired>>

(* A loop that reads again until it sees one of the values it waits for,   *)
(* or until its time budget is spent on a program that has hung.           *)
DoUntil ==
    /\ Doing("until")
    /\ code' = IF Holds(env[Now.on], Now.want) \/ dut.hart[hartsel].pc = "elf_hang" THEN Tail(code) ELSE Now.body \o code
    /\ UNCHANGED <<script, cfg, dut, hartsel, at, env, ok, failed, expired>>

DoAssign ==
    /\ \/ Doing("set") /\ Assign(Now.to, Now.rec)
       \/ Doing("modify") /\ Assign(Now.to, Now.rec @@ env[Now.to])
       \/ Doing("mix") /\ Assign(Now.to, [f \in Now.fields |-> env[Now.from][f]] @@ env[Now.to])
    /\ code' = Tail(code)
    /\ UNCHANGED <<script, cfg, dut, hartsel, at, ok, failed, expired>>

DoTrack ==
    /\ Doing("track")
    /\ hartsel' = Now.hart
    /\ code' = Tail(code)
    /\ UNCHANGED <<script, cfg, dut, at, env, ok, failed, expired>>

DoRaise ==
    /\ Doing("raise") \/ (at > 0 /\ code # <<>> /\ ~Bound)
    /\ RaiseFrom(Tail(code))
    /\ UNCHANGED <<script, cfg, dut, hartsel, at, env, failed, expired>>

(* return, and the end of a try block nothing was raised in. *)
DoReturn ==
    /\ \/ Doing("return") /\ code' = <<>>
       \/ Doing("endtry") /\ code' = Tail(code)
    /\ UNCHANGED <<script, cfg, dut, hartsel, at, env, ok, failed, expired>>

(* The step is over: its verdict is recorded and the next one begins,      *)
(* unless there is none or the session stops on an error.                  *)
NextStep ==
    /\ at > 0 /\ code = <<>>
    /\ failed' = IF ok THEN failed ELSE failed \cup {Steps[at].name}
    /\ LET over == at = Len(Steps) \/ (~ok /\ Scripts[script].stop) IN
          /\ at' = IF over THEN 0 ELSE at + 1
          /\ code' = IF over THEN <<>> ELSE Steps[at + 1].body
          /\ env' = Restrict(env, DOMAIN env \cap Scripts[script].keep)
    /\ ok' = TRUE
    /\ UNCHANGED <<script, cfg, dut, hartsel, expired>>

-----------------------------------------------------------------------------
(* The target, on its own. *)

HartActs(h) ==
    /\ dut' = [dut EXCEPT !.hart[h] = HartStep(@, cfg)]
    /\ dut' # dut
    /\ UNCHANGED <<script, cfg, hartsel, at, code, env, ok, failed, expired>>

ModuleActs ==
    /\ dut.want # dut.dmactive
    /\ dut' = Activated(dut, cfg)
    /\ UNCHANGED <<script, cfg, hartsel, at, code, env, ok, failed, expired>>

CommandCompletes ==
    /\ CommandAnswers(dut)
    /\ dut' = CompleteCommand(dut, cfg)
    /\ UNCHANGED <<script, cfg, hartsel, at, code, env, ok, failed, expired>>

BusCompletes ==
    /\ BusAnswers(dut)
    /\ dut' = CompleteBus(dut, cfg)
    /\ UNCHANGED <<script, cfg, hartsel, at, code, env, ok, failed, expired>>

Over == at = 0
SessionOver == Over /\ UNCHANGED vars

ScriptStep ==
    /\ Ready
    /\ \/ DoWrite \/ DoRead \/ DoPoll \/ DoWait \/ Expires \/ DoCheck \/ DoIf \/ DoUntil \/ DoAssign \/ DoTrack
       \/ DoRaise \/ DoReturn \/ NextStep
TargetStep == (\E h \in Harts : HartActs(h)) \/ ModuleActs \/ CommandCompletes \/ BusCompletes
Next == ScriptStep \/ TargetStep \/ SessionOver

(* The script's thread runs, and the target answers: the harts execute and *)
(* the module's engines finish.                                            *)
Fairness ==
    /\ WF_vars(ScriptStep)
    /\ \A h \in Harts : WF_vars(HartActs(h))
    /\ WF_vars(ModuleActs) /\ WF_vars(CommandCompletes) /\ WF_vars(BusCompletes)
Spec == Init /\ [][Next]_vars
FairSpec == Spec /\ Fairness

-----------------------------------------------------------------------------
(* Properties. *)

(* What a session reports of a target that behaves as specified            *)
(* (DebugSession.run).  The only steps that fail are the ones listed for a *)
(* latitude of the specification the target uses, and the failure of one   *)
(* costs no step beyond that list; over a target that answers at once they *)
(* do fail.  One that answers late may also fail the steps that trust a    *)
(* single read, and nothing is said of a session over a module so slow to  *)
(* become active that activate, which does not poll for it, has failed.    *)
NoFalseFailure ==
    cfg.defect = "none" /\ ~cfg.slow /\ ~(cfg.lazydm /\ "Activate" \in failed) =>
        /\ failed \subseteq FalseAlarms(cfg) \cup (IF cfg.late THEN TimingSteps ELSE {})
        /\ Over /\ ~cfg.late => failed = {Steps[i].name : i \in DOMAIN Steps} \cap FalseAlarms(cfg)

(* Every seeded defect is reported by the steps whose source says they are *)
(* there to catch it, and by no other: the defect does not cascade through *)
(* a sticky error or a hart left behind ("A known defect should cost its   *)
(* own steps, not the whole scenario", dm_corners_sequence.py).            *)
DefectsCaught == Over /\ cfg.defect # "none" => failed = Defects[cfg.defect]

(* When a session is over the target is left with nothing asserted: no     *)
(* reset, no halt-on-reset request, no automatic command, and no halt      *)
(* request, unless a halt timed out: RISCVDebug.halt and the scripts that  *)
(* poll for themselves raise before the write that withdraws it.           *)
NothingLeftAsserted ==
    Over /\ cfg.defect = "none" =>
        /\ ~dut.ndmreset /\ ~dut.hartreset /\ dut.abs.auto = "0"
        /\ \A h \in Harts : ~dut.hart[h].resethaltreq
        /\ \A h \in Harts : dut.hart[h].haltreq => {"allhalted"} \in expired

(* The hart RISCVDebug tracks in _hartsel is the hart the module has       *)
(* selected when a session is over, whoever wrote dmcontrol last: the next *)
(* command of the next script reaches the hart it means.                   *)
SelectionInStep == Over /\ dut.dmactive => dut.hartsel = hartsel

(* A session comes to its end: no script waits for what cannot come.       *)
SessionEnds == <>Over
=============================================================================
