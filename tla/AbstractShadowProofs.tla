------------------------- MODULE AbstractShadowProofs -------------------------
(***************************************************************************)
(* The abstract-command shadow, for any registers, words and commands.     *)
(* Types hold whatever the debugger does; a debugger that takes none of    *)
(* the liberties never sees a false MODEL_MISMATCH over the data words;    *)
(* and the register shadow stays true under three of the eight liberties.  *)
(* The Debug Module may refuse, ignore or fail every command but a plain   *)
(* register write.                                                         *)
(***************************************************************************)
EXTENDS AbstractShadow, TLAPS

ModelState == [staged : Pair, data : Pair, known : [0 .. 1 -> BOOLEAN],
               shadow_regs : Shadow, shadow_hi : Shadow, abstractauto : SUBSET (0 .. 1),
               last_command : Commands \cup {NoCommand}]

\* The model m knows nothing of the Debug Module d that is not so.
RegsAgree(m, f) ==
    \A r \in RegNos \ (Triggers \cup {X0}) :
        /\ m.shadow_regs[r] \in {Unknown, f[r][0]}
        /\ m.shadow_hi[r] \in {Unknown, f[r][1]}
WordsAgree(m, g, w) == \A i \in 0 .. 1 : m.known[i] /\ ~g[i] => m.data[i] = w[i]
StagedAgree(m, g, w) == \A i \in 0 .. 1 : g[i] => m.staged[i] = w[i]
ZeroReadsZero(f) == \A i \in 0 .. 1 : f[X0][i] = 0

Agree(m, d) ==
    /\ RegsAgree(m, d.regs) /\ WordsAgree(m, d.stale, d.data) /\ StagedAgree(m, d.staged, d.data)
    /\ ZeroReadsZero(d.regs)
    /\ m.abstractauto = d.auto /\ m.last_command = d.command

\* What the last sample of busy tells: the access it was taken at was refused
\* and left an error, so that the debugger writes before it runs a command again.
BusySampled == IF dmactive THEN observed_cmdbusy => dm.cmderr ELSE ~dm.busy

\* The inductive invariant.
AInv ==
    /\ TypeOK /\ NoFalseMismatch
    /\ Agree(M, dm)
    /\ BusySampled

-----------------------------------------------------------------------------
\* A decoded command has the fields of Command, NoCommand included.
LEMMA CommandTypes ==
    /\ NoCommand \in Command
    /\ \A c \in Commands \cup {NoCommand} : c \in Command
<1>1. NoCommand \in Command
  BY ShadowAssumption DEF NoCommand, Command
<1> QED BY <1>1, ShadowAssumption

\* arm changes one data word, and claims it only for what the shadow holds.
LEMMA ArmFacts ==
    ASSUME NEW m \in ModelState, NEW i \in 0 .. 1, NEW s \in Shadow, NEW r \in RegNos
    PROVE  LET n == arm(m, i, s, r)
           IN  /\ n \in ModelState
               /\ n.staged = m.staged /\ n.shadow_regs = m.shadow_regs /\ n.shadow_hi = m.shadow_hi
               /\ n.abstractauto = m.abstractauto /\ n.last_command = m.last_command
               /\ \A j \in 0 .. 1 : j # i => n.known[j] = m.known[j] /\ n.data[j] = m.data[j]
               /\ n.known[i] => \/ r = X0 /\ n.data[i] = 0
                                \/ r \notin Triggers \cup {X0} /\ s[r] # Unknown /\ n.data[i] = s[r]
<1>1. CASE r = X0
  BY <1>1, ShadowAssumption DEF arm, ModelState, Pair
<1>2. CASE r # X0 /\ s[r] # Unknown /\ r \notin Triggers
  <2>1. s[r] \in Values
    BY <1>2 DEF Shadow
  <2> QED BY <1>2, <2>1 DEF arm, ModelState, Pair, reads_back_as_written
<1>3. CASE r # X0 /\ (s[r] = Unknown \/ r \in Triggers)
  BY <1>3 DEF arm, ModelState, reads_back_as_written
<1> QED BY <1>1, <1>2, <1>3

\* A write transfer from staged words leaves a true shadow, whatever the
\* register keeps of a trigger's value or of a narrow write's upper half.
LEMMA WriteTransfer ==
    ASSUME NEW m \in ModelState, NEW d \in DmState, NEW c \in Command, Agree(m, d),
           c.transfer, c.write, d.staged[0], c.wide => d.staged[1],
           NEW f \in Written(d, c)
    PROVE  LET n == transfer(m, c)
           IN  /\ n \in ModelState
               /\ n.staged = m.staged /\ n.data = m.data /\ n.known = m.known
               /\ n.abstractauto = m.abstractauto /\ n.last_command = m.last_command
               /\ RegsAgree(n, f)
<1> DEFINE n == transfer(m, c)
           hi == IF c.wide THEN m.staged[1] ELSE Unknown
<1>1. c.regno \in RegNos /\ m.staged[0] \in Values /\ hi \in Values \cup {Unknown}
  BY DEF Command, ModelState, Pair
<1>2. n = [m EXCEPT !.shadow_regs[c.regno] = m.staged[0], !.shadow_hi[c.regno] = hi]
  BY DEF transfer
<1>3. /\ n.shadow_regs = [m.shadow_regs EXCEPT ![c.regno] = m.staged[0]]
      /\ n.shadow_hi = [m.shadow_hi EXCEPT ![c.regno] = hi]
      /\ n.staged = m.staged /\ n.data = m.data /\ n.known = m.known
      /\ n.abstractauto = m.abstractauto /\ n.last_command = m.last_command
  BY <1>2 DEF ModelState
<1>4. n \in ModelState
  <2> DEFINE ss == [m.shadow_regs EXCEPT ![c.regno] = m.staged[0]]
             hh == [m.shadow_hi EXCEPT ![c.regno] = hi]
  <2>1. ss \in Shadow /\ hh \in Shadow
    BY <1>1 DEF ModelState, Shadow
  <2>2. n = [m EXCEPT !.shadow_regs = ss, !.shadow_hi = hh]
    BY <1>2
  <2> HIDE DEF ss, hh, n
  <2> QED BY <2>1, <2>2 DEF ModelState
<1>5. m.staged[0] = d.data[0] /\ (c.wide => m.staged[1] = d.data[1])
  BY DEF Agree, StagedAgree
<1>6. ASSUME NEW r \in RegNos \ (Triggers \cup {X0})
      PROVE  n.shadow_regs[r] \in {Unknown, f[r][0]} /\ n.shadow_hi[r] \in {Unknown, f[r][1]}
  <2>1. CASE r # c.regno
    <3>1. f[r] = d.regs[r]
      BY <2>1 DEF Written
    <3>2. n.shadow_regs[r] = m.shadow_regs[r] /\ n.shadow_hi[r] = m.shadow_hi[r]
      BY <1>3, <2>1 DEF ModelState, Shadow
    <3> QED BY <3>1, <3>2 DEF Agree, RegsAgree
  <2>2. CASE r = c.regno
    <3>1. f[r][0] = d.data[0] /\ (c.wide => f[r][1] = d.data[1])
      BY <2>2 DEF Written
    <3>2. n.shadow_regs[r] = m.staged[0] /\ n.shadow_hi[r] = hi
      BY <1>3, <2>2 DEF ModelState, Shadow
    <3> QED BY <1>5, <3>1, <3>2
  <2> QED BY <2>1, <2>2
<1> QED BY <1>3, <1>4, <1>6 DEF RegsAgree

\* A read transfer claims nothing but what the DM puts in the data words.
LEMMA ReadTransfer ==
    ASSUME NEW m \in ModelState, NEW d \in DmState, NEW c \in Command, Agree(m, d),
           c.transfer, ~c.write
    PROVE  LET n == transfer(m, c)
           IN  /\ n \in ModelState
               /\ n.staged = m.staged /\ n.shadow_regs = m.shadow_regs /\ n.shadow_hi = m.shadow_hi
               /\ n.abstractauto = m.abstractauto /\ n.last_command = m.last_command
               /\ \A i \in 0 .. 1 : n.known[i] /\ ~(d.stale[i] /\ Keeps(c, i)) =>
                                      n.data[i] = DataRead(d, c)[i]
<1> DEFINE w == DataRead(d, c)
           r == c.regno
           k == IF c.wide THEN arm(m, 1, m.shadow_hi, r) ELSE m
           n == arm(k, 0, m.shadow_regs, r)
<1>1. r \in RegNos /\ c.wide \in BOOLEAN /\ m.shadow_regs \in Shadow /\ m.shadow_hi \in Shadow
  BY DEF Command, ModelState
<1>2. /\ w[0] = d.regs[r][0]
      /\ c.wide => w[1] = d.regs[r][1]
      /\ ~c.wide => w[1] = d.data[1]
  BY DEF DataRead
<1>3. /\ r = X0 => d.regs[r][0] = 0 /\ d.regs[r][1] = 0
      /\ r \notin Triggers \cup {X0} => /\ m.shadow_regs[r] \in {Unknown, d.regs[r][0]}
                                        /\ m.shadow_hi[r] \in {Unknown, d.regs[r][1]}
  BY <1>1 DEF Agree, RegsAgree, ZeroReadsZero
<1>4. /\ k \in ModelState
      /\ k.staged = m.staged /\ k.shadow_regs = m.shadow_regs /\ k.shadow_hi = m.shadow_hi
      /\ k.abstractauto = m.abstractauto /\ k.last_command = m.last_command
      /\ k.known[1] /\ ~(d.stale[1] /\ Keeps(c, 1)) => k.data[1] = w[1]
  <2>1. CASE c.wide
    <3> DEFINE a == arm(m, 1, m.shadow_hi, r)
    <3>1. /\ a \in ModelState
          /\ a.staged = m.staged /\ a.shadow_regs = m.shadow_regs /\ a.shadow_hi = m.shadow_hi
          /\ a.abstractauto = m.abstractauto /\ a.last_command = m.last_command
          /\ a.known[1] => \/ r = X0 /\ a.data[1] = 0
                           \/ /\ r \notin Triggers \cup {X0} /\ m.shadow_hi[r] # Unknown
                              /\ a.data[1] = m.shadow_hi[r]
      <4>1. 1 \in 0 .. 1
        OBVIOUS
      <4>2. m \in ModelState /\ m.shadow_hi \in Shadow /\ r \in RegNos
        BY <1>1
      <4> HIDE DEF k, n, w, r
      <4> QED BY <4>1, <4>2, ArmFacts
    <3>2. k = a
      BY <2>1
    <3> HIDE DEF a, k
    <3> QED BY <2>1, <3>1, <3>2, <1>2, <1>3
  <2>2. CASE ~c.wide
    BY <2>2, <1>2 DEF Agree, WordsAgree, Keeps
  <2> QED BY <2>1, <2>2
<1> HIDE DEF k
<1>5. /\ n \in ModelState
      /\ n.staged = k.staged /\ n.shadow_regs = k.shadow_regs /\ n.shadow_hi = k.shadow_hi
      /\ n.abstractauto = k.abstractauto /\ n.last_command = k.last_command
      /\ n.known[1] = k.known[1] /\ n.data[1] = k.data[1]
      /\ n.known[0] => \/ r = X0 /\ n.data[0] = 0
                       \/ /\ r \notin Triggers \cup {X0} /\ m.shadow_regs[r] # Unknown
                          /\ n.data[0] = m.shadow_regs[r]
  <2>1. k \in ModelState /\ m.shadow_regs \in Shadow /\ r \in RegNos /\ 0 \in 0 .. 1
    BY <1>1, <1>4
  <2>2. \A j \in 0 .. 1 : j # 0 => n.known[j] = k.known[j] /\ n.data[j] = k.data[j]
    BY <2>1, ArmFacts
  <2>3. n.known[1] = k.known[1] /\ n.data[1] = k.data[1]
    <3> HIDE DEF n
    <3> QED BY <2>2, SMT
  <2>4. /\ n \in ModelState
        /\ n.staged = k.staged /\ n.shadow_regs = k.shadow_regs /\ n.shadow_hi = k.shadow_hi
        /\ n.abstractauto = k.abstractauto /\ n.last_command = k.last_command
        /\ n.known[0] => \/ r = X0 /\ n.data[0] = 0
                         \/ /\ r \notin Triggers \cup {X0} /\ m.shadow_regs[r] # Unknown
                            /\ n.data[0] = m.shadow_regs[r]
    BY <2>1, ArmFacts
  <2> QED BY <2>3, <2>4
<1>6. transfer(m, c) = n
  BY DEF transfer, k
<1> HIDE DEF n, w
<1>7. n.known[0] => n.data[0] = w[0]
  BY <1>2, <1>3, <1>5
<1>8. \A i \in 0 .. 1 : n.known[i] /\ ~(d.stale[i] /\ Keeps(c, i)) => n.data[i] = w[i]
  <2>1. \A i \in 0 .. 1 : i = 0 \/ i = 1
    OBVIOUS
  <2> QED BY <2>1, <1>4, <1>5, <1>7
<1> QED BY <1>4, <1>5, <1>6, <1>8 DEF w

\* What a command that succeeds leaves of registers, words and staging.
LEMMA StartedFacts ==
    ASSUME NEW d \in DmState, NEW c \in Command, NEW f \in RegsAfter(d, c),
           NEW w \in DataAfter(d, c)
    PROVE  LET e == Started(d, c, f, w)
           IN  /\ e \in DmState /\ e.busy /\ e.auto = d.auto /\ e.command = d.command
               /\ e.regs = f /\ e.data = w
               /\ \A i \in 0 .. 1 : e.staged[i] => d.staged[i] /\ e.data[i] = d.data[i]
               /\ \A i \in 0 .. 1 : e.stale[i] = (d.stale[i] /\ Keeps(c, i))
<1> DEFINE kept == [i \in 0 .. 1 |-> d.staged[i] /\ w[i] = Moved(d, c)[i] /\ Keeps(c, i)]
           old == [i \in 0 .. 1 |-> d.stale[i] /\ Keeps(c, i)]
           e == Started(d, c, f, w)
<1>1. Moved(d, c) \in Pair
  BY DEF Moved, Reads, DataRead, DmState, Pair, Command
<1>2. w \in Pair
  <2>1. \A v \in Values : [Moved(d, c) EXCEPT ![0] = v] \in Pair
    BY <1>1 DEF Pair
  <2> QED BY <1>1, <2>1 DEF DataAfter
<1>3. f \in [RegNos -> Pair]
  BY DEF RegsAfter, Files, Written, DmState
<1>4. \A i \in 0 .. 1 : kept[i] => d.staged[i] /\ w[i] = d.data[i]
  <2>1. \A i \in 0 .. 1 : Keeps(c, i) => Moved(d, c)[i] = d.data[i]
    BY DEF Moved, Reads, DataRead, Keeps
  <2> QED BY <2>1
<1>5. kept \in [0 .. 1 -> BOOLEAN] /\ old \in [0 .. 1 -> BOOLEAN]
  BY DEF DmState
<1>6. e = [d EXCEPT !.busy = TRUE, !.regs = f, !.data = w, !.staged = kept, !.stale = old]
  BY DEF Started
<1>7. \A i \in 0 .. 1 : old[i] = (d.stale[i] /\ Keeps(c, i))
  OBVIOUS
<1> HIDE DEF kept, old, e
<1>8. /\ e \in DmState /\ e.busy /\ e.auto = d.auto /\ e.command = d.command
      /\ e.regs = f /\ e.data = w /\ e.staged = kept /\ e.stale = old
  BY <1>2, <1>3, <1>5, <1>6 DEF DmState
<1> QED BY <1>4, <1>7, <1>8 DEF e

\* A command that fails leaves the registers alone and the data words to chance.
LEMMA FailedFacts ==
    ASSUME NEW d \in DmState
    PROVE  /\ Failed(d) \in DmState /\ Failed(d).cmderr /\ ~Failed(d).busy
           /\ Failed(d).regs = d.regs /\ Failed(d).auto = d.auto /\ Failed(d).command = d.command
           /\ \A i \in 0 .. 1 : Failed(d).stale[i] /\ ~Failed(d).staged[i]
BY ShadowAssumption DEF Failed, DmState, Pair

\* A command fails or succeeds.
LEMMA ExecutionCases ==
    ASSUME NEW d \in DmState, NEW c \in Command, NEW e \in Executions(d, c)
    PROVE  \/ MayFail(c) /\ e = Failed(d)
           \/ /\ MaySucceed(d, c)
              /\ \E f \in RegsAfter(d, c), w \in DataAfter(d, c) : e = Started(d, c, f, w)
<1>1. CASE MayFail(c) /\ e = Failed(d)
  BY <1>1
<1>2. CASE ~(MayFail(c) /\ e = Failed(d))
  <2>1. MaySucceed(d, c)
    BY <1>2 DEF Executions
  <2>2. PICK p \in RegsAfter(d, c) \X DataAfter(d, c) : e = Started(d, c, p[1], p[2])
    BY <1>2 DEF Executions
  <2>3. p[1] \in RegsAfter(d, c) /\ p[2] \in DataAfter(d, c)
    OBVIOUS
  <2> QED BY <2>1, <2>2, <2>3
<1> QED BY <1>1, <1>2

\* A failed command leaves model and DM in agreement if the model ignored it.
LEMMA FailedAgrees ==
    ASSUME NEW m \in ModelState, NEW d \in DmState, Agree(m, d)
    PROVE  Failed(d) \in DmState /\ Agree(m, Failed(d))
BY FailedFacts DEF Agree, WordsAgree, StagedAgree

\* x0 reads 0 in every register file a command or a program leaves.
LEMMA ZeroStays ==
    ASSUME NEW d \in DmState, NEW c \in Command, ZeroReadsZero(d.regs), NEW f \in RegsAfter(d, c)
    PROVE  ZeroReadsZero(f)
BY DEF RegsAfter, Files, Written, ZeroReadsZero

\* dm_ref_model.execute_command keeps the model a model.
LEMMA ExecuteTyped ==
    ASSUME NEW m \in ModelState, NEW c \in Command
    PROVE  execute_command(m, c) \in ModelState
<1> DEFINE t == transfer(m, c)
<1>1. t \in ModelState
  <2>1. CASE ~c.transfer
    BY <2>1 DEF transfer
  <2>2. CASE c.transfer /\ c.write
    <3> DEFINE ss == [m.shadow_regs EXCEPT ![c.regno] = m.staged[0]]
               hh == [m.shadow_hi EXCEPT ![c.regno] = IF c.wide THEN m.staged[1] ELSE Unknown]
    <3>1. t = [m EXCEPT !.shadow_regs = ss, !.shadow_hi = hh]
      BY <2>2 DEF transfer
    <3>2. ss \in Shadow /\ hh \in Shadow
      BY DEF ModelState, Shadow, Command, Pair
    <3> HIDE DEF ss, hh, t
    <3> QED BY <3>1, <3>2 DEF ModelState
  <2>3. CASE c.transfer /\ ~c.write
    <3> DEFINE k == IF c.wide THEN arm(m, 1, m.shadow_hi, c.regno) ELSE m
    <3>1. c.regno \in RegNos /\ m.shadow_regs \in Shadow /\ m.shadow_hi \in Shadow
      BY DEF Command, ModelState
    <3>2. arm(m, 1, m.shadow_hi, c.regno) \in ModelState
      <4>1. 1 \in 0 .. 1
        OBVIOUS
      <4> QED BY <3>1, <4>1, ArmFacts
    <3>3. k \in ModelState
      BY <3>2
    <3>4. t = arm(k, 0, m.shadow_regs, c.regno)
      BY <2>3 DEF transfer
    <3> HIDE DEF k, t
    <3>5. 0 \in 0 .. 1
      OBVIOUS
    <3> QED BY <3>1, <3>3, <3>4, <3>5, ArmFacts
  <2> QED BY <2>1, <2>2, <2>3 DEF Command
<1>2. execute_command(m, c) \in {m, t, [t EXCEPT !.shadow_regs = Nothing, !.shadow_hi = Nothing]}
  BY DEF execute_command, forget
<1>3. Nothing \in Shadow
  BY DEF Nothing, Shadow
<1> HIDE DEF t
<1>4. [t EXCEPT !.shadow_regs = Nothing, !.shadow_hi = Nothing] \in ModelState
  BY <1>1, <1>3 DEF ModelState
<1> QED BY <1>1, <1>2, <1>4

\* What execute_command does to the shadow.
LEMMA ShadowAfter ==
    ASSUME NEW m \in ModelState, NEW c \in Command
    PROVE  LET n == execute_command(m, c)
           IN  /\ n \in ModelState
               /\ n.staged = m.staged /\ n.abstractauto = m.abstractauto
               /\ n.last_command = m.last_command
               /\ c.accepted /\ c.postexec => n.shadow_regs = Nothing /\ n.shadow_hi = Nothing
               /\ c.accepted /\ ~c.postexec /\ c.transfer /\ c.write =>
                    /\ n.shadow_regs = [m.shadow_regs EXCEPT ![c.regno] = m.staged[0]]
                    /\ n.shadow_hi = [m.shadow_hi EXCEPT ![c.regno] =
                                          IF c.wide THEN m.staged[1] ELSE Unknown]
               /\ ~c.accepted \/ (~c.postexec /\ ~(c.transfer /\ c.write)) =>
                    n.shadow_regs = m.shadow_regs /\ n.shadow_hi = m.shadow_hi
<1> DEFINE t == transfer(m, c)
           n == execute_command(m, c)
           ss == [m.shadow_regs EXCEPT ![c.regno] = m.staged[0]]
           hh == [m.shadow_hi EXCEPT ![c.regno] = IF c.wide THEN m.staged[1] ELSE Unknown]
<1>1. n \in ModelState
  BY ExecuteTyped
<1>2. /\ t \in ModelState /\ t.staged = m.staged /\ t.abstractauto = m.abstractauto
      /\ t.last_command = m.last_command
      /\ c.transfer /\ c.write => t.shadow_regs = ss /\ t.shadow_hi = hh
      /\ ~(c.transfer /\ c.write) => t.shadow_regs = m.shadow_regs /\ t.shadow_hi = m.shadow_hi
  <2>1. CASE ~c.transfer
    BY <2>1 DEF transfer
  <2>2. CASE c.transfer /\ c.write
    <3>1. t = [m EXCEPT !.shadow_regs = ss, !.shadow_hi = hh]
      BY <2>2 DEF transfer
    <3>2. ss \in Shadow /\ hh \in Shadow
      BY DEF ModelState, Shadow, Command, Pair
    <3> HIDE DEF ss, hh, t
    <3> QED BY <2>2, <3>1, <3>2 DEF ModelState
  <2>3. CASE c.transfer /\ ~c.write
    <3> DEFINE k == IF c.wide THEN arm(m, 1, m.shadow_hi, c.regno) ELSE m
    <3>1. c.regno \in RegNos /\ m.shadow_regs \in Shadow /\ m.shadow_hi \in Shadow
          /\ 0 \in 0 .. 1 /\ 1 \in 0 .. 1
      BY DEF Command, ModelState
    <3> DEFINE a == arm(m, 1, m.shadow_hi, c.regno)
    <3>2. /\ a \in ModelState /\ a.staged = m.staged /\ a.abstractauto = m.abstractauto
          /\ a.last_command = m.last_command
          /\ a.shadow_regs = m.shadow_regs /\ a.shadow_hi = m.shadow_hi
      BY <3>1, ArmFacts
    <3> HIDE DEF a
    <3>3. /\ k \in ModelState /\ k.staged = m.staged /\ k.abstractauto = m.abstractauto
          /\ k.last_command = m.last_command
          /\ k.shadow_regs = m.shadow_regs /\ k.shadow_hi = m.shadow_hi
      BY <3>2 DEF a
    <3>4. t = arm(k, 0, m.shadow_regs, c.regno)
      BY <2>3 DEF transfer
    <3> HIDE DEF k, t
    <3>5. PICK q \in ModelState : q = k
      BY <3>3
    <3>6. PICK s \in Shadow, r \in RegNos : s = m.shadow_regs /\ r = c.regno
      BY <3>1
    <3>7. 0 \in 0 .. 1
      OBVIOUS
    <3> DEFINE b == arm(q, 0, s, r)
    <3>8. /\ b \in ModelState /\ b.staged = q.staged /\ b.abstractauto = q.abstractauto
          /\ b.last_command = q.last_command
          /\ b.shadow_regs = q.shadow_regs /\ b.shadow_hi = q.shadow_hi
      BY <3>7, ArmFacts
    <3> HIDE DEF b, t
    <3>9. t = b
      BY <3>5, <3>4, <3>6 DEF b
    <3> QED BY <2>3, <3>5, <3>3, <3>8, <3>9
  <2> QED BY <2>1, <2>2, <2>3 DEF Command
<1>3. n = IF ~c.accepted THEN m
          ELSE IF c.postexec THEN [t EXCEPT !.shadow_regs = Nothing, !.shadow_hi = Nothing] ELSE t
  BY DEF execute_command, forget
<1>4. Nothing \in Shadow
  BY DEF Nothing, Shadow
<1> HIDE DEF t, n, ss, hh
<1>5. CASE ~c.accepted
  BY <1>1, <1>3, <1>5 DEF n
<1>6. CASE c.accepted /\ c.postexec
  <2>1. /\ n.staged = t.staged /\ n.abstractauto = t.abstractauto
        /\ n.last_command = t.last_command /\ n.shadow_regs = Nothing /\ n.shadow_hi = Nothing
    BY <1>2, <1>3, <1>4, <1>6 DEF ModelState
  <2> QED BY <1>1, <1>2, <1>6, <2>1 DEF n
<1>7. CASE c.accepted /\ ~c.postexec
  <2>1. n = t
    BY <1>3, <1>7
  <2> QED BY <1>1, <1>2, <1>7, <2>1 DEF n, ss, hh
<1> QED BY <1>5, <1>6, <1>7 DEF Command

\* A command that the model takes up and that succeeds keeps both in agreement.
LEMMA AcceptedAgrees ==
    ASSUME Liberties = {}, NEW m \in ModelState, NEW d \in DmState, NEW c \in Command,
           Agree(m, d), c.accepted, c.transfer /\ c.write => d.staged[0] /\ (c.wide => d.staged[1]),
           NEW e \in DmState, e.auto = d.auto, e.command = d.command,
           e.regs \in RegsAfter(d, c), e.data = Moved(d, c),
           \A i \in 0 .. 1 : e.staged[i] => d.staged[i] /\ e.data[i] = d.data[i],
           \A i \in 0 .. 1 : e.stale[i] = (d.stale[i] /\ Keeps(c, i))
    PROVE  /\ execute_command(m, c) \in ModelState
           /\ Agree(execute_command(m, c), e)
           /\ e \in DmState
<1> DEFINE t == transfer(m, c)
           n == execute_command(m, c)
<1>2. ZeroReadsZero(e.regs)
  BY ZeroStays DEF Agree
<1>3. /\ t \in ModelState /\ t.staged = m.staged
      /\ t.abstractauto = m.abstractauto /\ t.last_command = m.last_command
      /\ WordsAgree(t, e.stale, e.data)
      /\ ~c.postexec => RegsAgree(t, e.regs)
  <2>1. CASE ~c.transfer
    BY <2>1 DEF transfer, Moved, Reads, RegsAfter, Agree, Keeps, WordsAgree
  <2>2. CASE c.transfer /\ ~c.write
    <3>1. /\ t \in ModelState /\ t.staged = m.staged
          /\ t.shadow_regs = m.shadow_regs /\ t.shadow_hi = m.shadow_hi
          /\ t.abstractauto = m.abstractauto /\ t.last_command = m.last_command
          /\ \A i \in 0 .. 1 : t.known[i] /\ ~(d.stale[i] /\ Keeps(c, i)) =>
                                 t.data[i] = DataRead(d, c)[i]
      BY <2>2, ReadTransfer
    <3>2. e.data = DataRead(d, c) /\ (~c.postexec => e.regs = d.regs)
      BY <2>2 DEF Moved, Reads, RegsAfter
    <3> HIDE DEF t
    <3> QED BY <3>1, <3>2 DEF Agree, RegsAgree, WordsAgree
  <2>3. CASE c.transfer /\ c.write
    <3>1. e.data = d.data /\ \A i \in 0 .. 1 : e.stale[i] = d.stale[i]
      BY <2>3 DEF Moved, Reads, Keeps, DmState
    <3>2. CASE ~c.postexec
      <4>1. e.regs \in Written(d, c)
        BY <2>3, <3>2 DEF RegsAfter
      <4>2. /\ t \in ModelState /\ t.staged = m.staged /\ t.data = m.data /\ t.known = m.known
            /\ t.abstractauto = m.abstractauto /\ t.last_command = m.last_command
            /\ RegsAgree(t, e.regs)
        BY <2>3, <4>1, WriteTransfer
      <4> HIDE DEF t
      <4> QED BY <3>1, <4>2 DEF Agree, WordsAgree
    <3>3. CASE c.postexec
      <4>1. t = [m EXCEPT !.shadow_regs = [m.shadow_regs EXCEPT ![c.regno] = m.staged[0]],
                          !.shadow_hi = [m.shadow_hi EXCEPT ![c.regno] =
                                             IF c.wide THEN m.staged[1] ELSE Unknown]]
        BY <2>3 DEF transfer
      <4> DEFINE ss == [m.shadow_regs EXCEPT ![c.regno] = m.staged[0]]
                 hh == [m.shadow_hi EXCEPT ![c.regno] = IF c.wide THEN m.staged[1] ELSE Unknown]
      <4>2. ss \in Shadow /\ hh \in Shadow
        BY DEF ModelState, Shadow, Command, Pair
      <4>3. t = [m EXCEPT !.shadow_regs = ss, !.shadow_hi = hh]
        BY <4>1
      <4> HIDE DEF ss, hh, t
      <4>4. /\ t \in ModelState /\ t.staged = m.staged /\ t.data = m.data /\ t.known = m.known
            /\ t.abstractauto = m.abstractauto /\ t.last_command = m.last_command
        BY <4>2, <4>3 DEF ModelState
      <4> QED BY <3>1, <3>3, <4>4 DEF Agree, WordsAgree
    <3> QED BY <3>2, <3>3
  <2> QED BY <2>1, <2>2, <2>3
<1> HIDE DEF t
<1>4. /\ n \in ModelState /\ n.staged = m.staged
      /\ n.abstractauto = m.abstractauto /\ n.last_command = m.last_command
      /\ WordsAgree(n, e.stale, e.data) /\ RegsAgree(n, e.regs)
  <2>1. CASE ~c.postexec
    <3>1. n = t
      BY <2>1 DEF execute_command, t
    <3> QED BY <3>1, <2>1, <1>3
  <2>2. CASE c.postexec
    <3>1. n = [t EXCEPT !.shadow_regs = Nothing, !.shadow_hi = Nothing]
      BY <2>2 DEF execute_command, forget, t
    <3>2. Nothing \in Shadow /\ \A r \in RegNos : Nothing[r] = Unknown
      BY DEF Nothing, Shadow
    <3> HIDE DEF n
    <3>3. /\ n \in ModelState /\ n.staged = t.staged /\ n.data = t.data /\ n.known = t.known
          /\ n.abstractauto = t.abstractauto /\ n.last_command = t.last_command
          /\ n.shadow_regs = Nothing /\ n.shadow_hi = Nothing
      BY <1>3, <3>1, <3>2 DEF ModelState
    <3> QED BY <1>3, <3>2, <3>3 DEF WordsAgree, RegsAgree
  <2> QED BY <2>1, <2>2
<1> HIDE DEF n
<1>5. StagedAgree(n, e.staged, e.data)
  BY <1>4 DEF Agree, StagedAgree
<1> QED BY <1>2, <1>4, <1>5 DEF Agree, n

\* One execution of a command keeps model and DM in agreement.
LEMMA ExecuteAgrees ==
    ASSUME Liberties = {}, NEW m \in ModelState, NEW d \in DmState, NEW c \in Command,
           Agree(m, d), MayRun(d, c), NEW e \in Executions(d, c)
    PROVE  /\ execute_command(m, c) \in ModelState
           /\ Agree(execute_command(m, c), e)
           /\ e \in DmState
<1>1. c.transfer /\ c.write => d.staged[0] /\ (c.wide => d.staged[1])
  BY DEF MayRun, Usable
<1>2. CASE MayFail(c) /\ e = Failed(d)
  <2> DEFINE n == execute_command(m, c)
  <2>1. /\ n \in ModelState
        /\ n.staged = m.staged /\ n.abstractauto = m.abstractauto
        /\ n.last_command = m.last_command
        /\ c.accepted /\ c.postexec => n.shadow_regs = Nothing /\ n.shadow_hi = Nothing
        /\ ~c.accepted \/ (~c.postexec /\ ~(c.transfer /\ c.write)) =>
             n.shadow_regs = m.shadow_regs /\ n.shadow_hi = m.shadow_hi
    BY ShadowAfter
  <2>2. ~c.accepted \/ c.postexec \/ ~(c.transfer /\ c.write)
    BY <1>2 DEF MayFail
  <2>3. /\ e \in DmState /\ e.regs = d.regs /\ e.auto = d.auto /\ e.command = d.command
        /\ \A i \in 0 .. 1 : e.stale[i] /\ ~e.staged[i]
    BY <1>2, FailedFacts
  <2>4. \A r \in RegNos : Nothing[r] = Unknown
    BY DEF Nothing
  <2> HIDE DEF n
  <2>5. RegsAgree(n, e.regs)
    BY <2>1, <2>2, <2>3, <2>4 DEF Agree, RegsAgree
  <2> QED BY <2>1, <2>3, <2>5 DEF Agree, WordsAgree, StagedAgree, n
<1>3. CASE ~(MayFail(c) /\ e = Failed(d))
  <2>1. MaySucceed(d, c)
    BY <1>3, ExecutionCases
  <2>2. PICK f \in RegsAfter(d, c), w \in DataAfter(d, c) : e = Started(d, c, f, w)
    BY <1>3, ExecutionCases
  <2>3. w = Moved(d, c)
    BY DEF DataAfter
  <2>4. /\ e \in DmState /\ e.auto = d.auto /\ e.command = d.command
        /\ e.regs \in RegsAfter(d, c) /\ e.data = Moved(d, c)
        /\ \A i \in 0 .. 1 : e.staged[i] => d.staged[i] /\ e.data[i] = d.data[i]
        /\ \A i \in 0 .. 1 : e.stale[i] = (d.stale[i] /\ Keeps(c, i))
    BY <2>2, <2>3, StartedFacts
  <2>5. CASE ~c.accepted
    <3>1. ~c.transfer
      BY <2>1, <2>5 DEF MaySucceed
    <3>2. execute_command(m, c) = m
      BY <2>5 DEF execute_command
    <3>3. e.data = d.data /\ e.regs = d.regs /\ \A i \in 0 .. 1 : e.stale[i] = d.stale[i]
      BY <2>4, <2>5, <3>1 DEF Moved, Reads, RegsAfter, Keeps, DmState
    <3> QED BY <2>4, <3>2, <3>3 DEF Agree, WordsAgree, StagedAgree
  <2>6. CASE c.accepted
    BY <1>1, <2>4, <2>6, AcceptedAgrees
  <2> QED BY <2>5, <2>6 DEF Command
<1> QED BY <1>2, <1>3

-----------------------------------------------------------------------------
\* A step that makes m the model and keeps it in agreement keeps the invariant.
LEMMA Became ==
    ASSUME NEW m \in ModelState, Becomes(m), dm' \in DmState, Agree(m, dm'),
           dmactive' \in BOOLEAN, observed_cmdbusy' \in BOOLEAN, mismatch' = FALSE, BusySampled'
    PROVE  AInv'
<1>1. M' = m
  BY DEF M, Becomes, ModelState
<1>2. TypeOK'
  BY DEF TypeOK, Becomes, ModelState
<1> QED BY <1>1, <1>2 DEF AInv, NoFalseMismatch

\* The model of a state of the invariant.
LEMMA ModelTyped ==
    ASSUME AInv
    PROVE  M \in ModelState /\ dm \in DmState /\ mismatch = FALSE /\ dmactive \in BOOLEAN
           /\ observed_cmdbusy \in BOOLEAN
BY DEF AInv, TypeOK, M, ModelState, NoFalseMismatch

\* The initial states: nothing is shadowed and the data words are 0 on both sides.
LEMMA InitAInv == Init => AInv
<1> SUFFICES ASSUME Init PROVE AInv
  OBVIOUS
<1>1. PICK f \in Files : dm = DmReset(f)
  BY DEF Init
<1>2. dm \in DmState /\ ZeroReadsZero(dm.regs)
  BY <1>1, ShadowAssumption DEF DmState, DmReset, Pair, Files, ZeroReadsZero
<1>3. Nothing \in Shadow /\ \A r \in RegNos : Nothing[r] = Unknown
  BY DEF Nothing, Shadow
<1>4. TypeOK
  BY <1>2, <1>3, ShadowAssumption DEF TypeOK, Init, Pair
<1>5. Agree(M, dm)
  <2>1. RegsAgree(M, dm.regs)
    BY <1>3 DEF RegsAgree, M, Init
  <2>2. WordsAgree(M, dm.stale, dm.data) /\ StagedAgree(M, dm.staged, dm.data)
    BY <1>1 DEF WordsAgree, StagedAgree, M, Init, DmReset
  <2>3. M.abstractauto = dm.auto /\ M.last_command = dm.command
    BY <1>1 DEF M, Init, DmReset
  <2> QED BY <1>2, <2>1, <2>2, <2>3 DEF Agree
<1>6. BusySampled
  BY <1>1 DEF BusySampled, Init, DmReset
<1> QED BY <1>4, <1>5, <1>6 DEF AInv, NoFalseMismatch, Init

\* dm_checker.handle_txn and dm_ref_model.on_write, one data word.
LEMMA WriteDataAInv ==
    ASSUME Liberties = {}, AInv, NEW i \in 0 .. 1, NEW v \in Values, WriteData(i, v)
    PROVE  AInv'
<1>1. M \in ModelState /\ dm \in DmState /\ mismatch = FALSE /\ dmactive \in BOOLEAN
  BY ModelTyped
<1>2. PICK m \in ModelState : m = write_buffer(M, i, v)
  BY <1>1 DEF write_buffer, ModelState, Pair
<1>3. PICK d \in DmState : d = [dm EXCEPT !.data[i] = v, !.staged[i] = TRUE, !.stale[i] = FALSE]
  BY <1>1 DEF DmState, Pair
<1>4. Agree(m, d) /\ d.auto = dm.auto /\ d.command = dm.command
  <2>1. /\ m.shadow_regs = M.shadow_regs /\ m.shadow_hi = M.shadow_hi
        /\ m.abstractauto = M.abstractauto /\ m.last_command = M.last_command
        /\ m.staged = [M.staged EXCEPT ![i] = v] /\ m.data = [M.data EXCEPT ![i] = v]
        /\ m.known = [M.known EXCEPT ![i] = TRUE]
    BY <1>1, <1>2 DEF write_buffer, ModelState
  <2>2. /\ d.regs = dm.regs /\ d.auto = dm.auto /\ d.command = dm.command
        /\ d.data = [dm.data EXCEPT ![i] = v] /\ d.staged = [dm.staged EXCEPT ![i] = TRUE]
        /\ d.stale = [dm.stale EXCEPT ![i] = FALSE]
    BY <1>1, <1>3 DEF DmState
  <2>3. Agree(M, dm)
    BY DEF AInv
  <2>4. RegsAgree(m, d.regs) /\ ZeroReadsZero(d.regs)
    BY <2>1, <2>2, <2>3 DEF Agree, RegsAgree
  <2>5. WordsAgree(m, d.stale, d.data) /\ StagedAgree(m, d.staged, d.data)
    BY <1>1, <2>1, <2>2, <2>3 DEF Agree, WordsAgree, StagedAgree, ModelState, DmState, Pair
  <2> QED BY <2>1, <2>2, <2>3, <2>4, <2>5 DEF Agree
<1>5. /\ Becomes(after_access(m, FALSE, i))
      /\ IF i \in dm.auto THEN MayRun(d, d.command) /\ dm' \in Executions(d, d.command)
                          ELSE dm' = d
      /\ observed_cmdbusy' = FALSE /\ mismatch' = FALSE /\ dmactive' = TRUE
  BY <1>1, <1>2, <1>3 DEF WriteData
<1>6. m.abstractauto = d.auto /\ m.last_command = d.command
  BY <1>4 DEF Agree
<1>7. CASE i \notin dm.auto
  <2>1. after_access(m, FALSE, i) = m
    BY <1>4, <1>6, <1>7 DEF after_access, autoexec_armed
  <2> QED BY <1>4, <1>5, <1>7, <2>1, Became DEF BusySampled
<1>8. CASE i \in dm.auto
  <2>1. d.command \in Command
    BY CommandTypes DEF DmState
  <2>2. PICK n \in ModelState : n = execute_command(m, d.command)
    BY <1>4, <1>5, <1>8, <2>1, ExecuteAgrees
  <2>3. Agree(n, dm') /\ dm' \in DmState
    BY <1>4, <1>5, <1>8, <2>1, <2>2, ExecuteAgrees
  <2>4. after_access(m, FALSE, i) = n
    BY <1>4, <1>6, <1>8, <2>2 DEF after_access, autoexec_armed
  <2> QED BY <1>5, <2>3, <2>4, Became DEF BusySampled
<1> QED BY <1>7, <1>8

\* dm_ref_model.write_command.
LEMMA WriteCommandAInv ==
    ASSUME Liberties = {}, AInv, NEW c \in Commands, WriteCommand(c)
    PROVE  AInv'
<1>1. M \in ModelState /\ dm \in DmState /\ mismatch = FALSE /\ dmactive \in BOOLEAN /\ c \in Command
  BY ModelTyped, CommandTypes
<1>2. PICK m \in ModelState : m = [M EXCEPT !.last_command = c]
  BY <1>1 DEF ModelState
<1>3. PICK d \in DmState : d = [dm EXCEPT !.command = c]
  BY <1>1 DEF DmState
<1>4. Agree(m, d) /\ MayRun(d, c)
  <2>1. /\ m.shadow_regs = M.shadow_regs /\ m.shadow_hi = M.shadow_hi /\ m.staged = M.staged
        /\ m.abstractauto = M.abstractauto /\ m.data = M.data /\ m.known = M.known
        /\ m.last_command = c
    BY <1>1, <1>2 DEF ModelState
  <2>2. /\ d.regs = dm.regs /\ d.auto = dm.auto /\ d.command = c /\ d.data = dm.data
        /\ d.staged = dm.staged /\ d.cmderr = dm.cmderr /\ d.stale = dm.stale
    BY <1>1, <1>3 DEF DmState
  <2>3. Agree(M, dm) /\ MayRun(dm, c)
    BY DEF AInv, WriteCommand
  <2> QED BY <2>1, <2>2, <2>3 DEF Agree, RegsAgree, WordsAgree, StagedAgree, MayRun, Usable
<1>5. /\ Becomes(execute_command(m, c)) /\ dm' \in Executions(d, c)
      /\ observed_cmdbusy' = FALSE /\ mismatch' = FALSE /\ dmactive' = TRUE
  BY <1>1, <1>2, <1>3 DEF WriteCommand
<1>6. PICK n \in ModelState : n = execute_command(m, c)
  BY <1>1, <1>4, <1>5, ExecuteAgrees
<1>7. Agree(n, dm') /\ dm' \in DmState
  BY <1>1, <1>4, <1>5, <1>6, ExecuteAgrees
<1> QED BY <1>5, <1>6, <1>7, Became DEF BusySampled

\* dm_checker.check_read_response: the comparison and observe_read.
LEMMA ReadDataAInv ==
    ASSUME Liberties = {}, AInv, NEW i \in 0 .. 1, ReadData(i)
    PROVE  AInv'
<1>1. /\ M \in ModelState /\ dm \in DmState /\ mismatch = FALSE /\ dmactive \in BOOLEAN
      /\ observed_cmdbusy \in BOOLEAN
  BY ModelTyped
<1>2. PICK m \in ModelState : m = M
  BY <1>1
<1>3. Agree(m, dm)
  BY <1>2 DEF AInv
<1>4. mismatch' = FALSE
  <2>1. ~dm.stale[i]
    BY DEF ReadData
  <2>2. known[i] => data[i] = dm.data[i]
    BY <1>2, <1>3, <2>1 DEF Agree, WordsAgree, M
  <2> QED BY <1>1, <2>1, <2>2 DEF ReadData, Contents
<1>5. /\ Becomes(after_access(m, observed_cmdbusy, i))
      /\ dm' \in IF i \in dm.auto THEN Executions(dm, dm.command) ELSE {dm}
      /\ i \in dm.auto => MayRun(dm, dm.command)
      /\ dmactive /\ ~dm.busy
      /\ observed_cmdbusy' = observed_cmdbusy /\ dmactive' = TRUE
  BY <1>1, <1>2 DEF ReadData
<1>6. m.abstractauto = dm.auto /\ m.last_command = dm.command
  BY <1>3 DEF Agree
<1>7. observed_cmdbusy => dm.cmderr
  BY <1>5 DEF AInv, BusySampled
<1>8. CASE i \notin dm.auto
  <2>1. after_access(m, observed_cmdbusy, i) = m /\ dm' = dm
    BY <1>5, <1>6, <1>8 DEF after_access, autoexec_armed
  <2> QED BY <1>1, <1>3, <1>4, <1>5, <1>7, <2>1, Became DEF BusySampled
<1>9. dm.command \in Command
  BY <1>1, CommandTypes DEF DmState
<1>10. CASE i \in dm.auto /\ observed_cmdbusy
  <2>1. dm' = Failed(dm)
    BY <1>1, <1>5, <1>7, <1>9, <1>10, ExecutionCases DEF MaySucceed
  <2>2. dm' \in DmState /\ Agree(m, dm') /\ dm'.cmderr
    BY <1>1, <1>3, <2>1, FailedAgrees, FailedFacts
  <2>3. after_access(m, observed_cmdbusy, i) = m
    BY <1>10 DEF after_access, autoexec_armed
  <2> QED BY <1>1, <1>4, <1>5, <2>2, <2>3, Became DEF BusySampled
<1>11. CASE i \in dm.auto /\ ~observed_cmdbusy
  <2>1. observed_cmdbusy = FALSE
    BY <1>1, <1>11
  <2>3. PICK n \in ModelState : n = execute_command(m, dm.command)
    BY <1>1, <1>3, <1>5, <1>9, <1>11, ExecuteAgrees
  <2>4. Agree(n, dm') /\ dm' \in DmState
    BY <1>1, <1>3, <1>5, <1>9, <1>11, <2>3, ExecuteAgrees
  <2>5. after_access(m, observed_cmdbusy, i) = n
    BY <1>6, <1>11, <2>1, <2>3 DEF after_access, autoexec_armed
  <2> QED BY <1>1, <1>4, <1>5, <2>1, <2>4, <2>5, Became DEF BusySampled
<1> QED BY <1>8, <1>10, <1>11

\* dmcontrol.dmactive = 0: both sides take the reset values, the shadow stays true.
LEMMA ResetDmAInv == ASSUME AInv, ResetDm PROVE AInv'
<1>1. M \in ModelState /\ dm \in DmState /\ mismatch = FALSE /\ Agree(M, dm)
  BY ModelTyped DEF AInv
<1>2. dm' = DmReset(dm.regs)
  BY DEF ResetDm
<1>3. dm' \in DmState /\ dm'.regs = dm.regs
  BY <1>1, <1>2, ShadowAssumption DEF DmState, DmReset, Pair
<1>4. PICK m \in ModelState :
          m = [M EXCEPT !.staged = [i \in 0 .. 1 |-> 0], !.data = [i \in 0 .. 1 |-> 0],
                        !.known = [i \in 0 .. 1 |-> TRUE], !.abstractauto = {},
                        !.last_command = NoCommand]
  BY <1>1, ShadowAssumption DEF ModelState, Pair
<1>5. /\ m.shadow_regs = M.shadow_regs /\ m.shadow_hi = M.shadow_hi
      /\ m.staged = [i \in 0 .. 1 |-> 0] /\ m.data = [i \in 0 .. 1 |-> 0]
      /\ m.known = [i \in 0 .. 1 |-> TRUE] /\ m.abstractauto = {} /\ m.last_command = NoCommand
  BY <1>1, <1>4 DEF ModelState
<1>6. Becomes(m)
  BY <1>5 DEF Becomes, ResetDm, M
<1>7. Agree(m, dm')
  <2>1. RegsAgree(m, dm'.regs) /\ ZeroReadsZero(dm'.regs)
    BY <1>1, <1>3, <1>5 DEF Agree, RegsAgree
  <2>2. WordsAgree(m, dm'.stale, dm'.data) /\ StagedAgree(m, dm'.staged, dm'.data)
    BY <1>2, <1>5 DEF WordsAgree, StagedAgree, DmReset
  <2>3. m.abstractauto = dm'.auto /\ m.last_command = dm'.command
    BY <1>2, <1>5 DEF DmReset
  <2> QED BY <2>1, <2>2, <2>3 DEF Agree
<1>8. dmactive' = FALSE /\ observed_cmdbusy' \in BOOLEAN /\ mismatch' = FALSE /\ dm'.busy = FALSE
  BY <1>1, <1>2 DEF ResetDm, DmState, DmReset
<1> QED BY <1>3, <1>6, <1>7, <1>8, Became DEF BusySampled

\* The hart has run: its shadow is dropped, or was empty.
LEMMA HartRanAInv ==
    ASSUME Liberties = {}, AInv, Resume \/ ResetHart \/ SelectHart
    PROVE  AInv'
<1>1. M \in ModelState /\ dm \in DmState /\ mismatch = FALSE /\ Agree(M, dm)
  BY ModelTyped DEF AInv
<1>2. PICK f \in Files : dm' = [dm EXCEPT !.regs = f]
  BY DEF Resume, ResetHart, SelectHart
<1>3. /\ dm' \in DmState /\ dm'.regs = f /\ dm'.data = dm.data /\ dm'.staged = dm.staged
      /\ dm'.stale = dm.stale /\ dm'.auto = dm.auto /\ dm'.command = dm.command
  BY <1>1, <1>2 DEF DmState, Files
<1>4. ZeroReadsZero(f)
  BY DEF Files, ZeroReadsZero
<1>5. Nothing \in Shadow /\ \A r \in RegNos : Nothing[r] = Unknown
  BY DEF Nothing, Shadow
<1>6. PICK m \in ModelState : m = forget(M)
  BY <1>1, <1>5 DEF forget, ModelState
<1>7. /\ m.shadow_regs = Nothing /\ m.shadow_hi = Nothing
      /\ m.staged = M.staged /\ m.data = M.data /\ m.known = M.known
      /\ m.abstractauto = M.abstractauto /\ m.last_command = M.last_command
  BY <1>1, <1>6 DEF forget, ModelState
<1>8. Becomes(m)
  <2>1. CASE Resume
    BY <1>6, <2>1 DEF Resume
  <2>2. CASE ResetHart \/ SelectHart
    BY <1>7, <2>2 DEF ResetHart, SelectHart, Becomes, M, model
  <2> QED BY <2>1, <2>2
<1>9. Agree(m, dm')
  BY <1>1, <1>3, <1>4, <1>5, <1>7 DEF Agree, RegsAgree, WordsAgree, StagedAgree
<1>10. dmactive' = TRUE /\ observed_cmdbusy' = FALSE /\ mismatch' = FALSE
  BY <1>1, ModelTyped DEF Resume, ResetHart, SelectHart
<1> QED BY <1>3, <1>8, <1>9, <1>10, Became DEF BusySampled

\* The accesses that leave the model alone, or store abstractauto.
LEMMA OtherAInv ==
    ASSUME Liberties = {}, AInv,
           \/ Activate \/ RefusedWrite \/ ClearCmderr \/ OtherWrite \/ Complete
           \/ \E words \in AutoWords : WriteAbstractauto(words)
    PROVE  AInv'
<1>1. /\ M \in ModelState /\ dm \in DmState /\ mismatch = FALSE /\ Agree(M, dm)
      /\ dmactive \in BOOLEAN /\ observed_cmdbusy \in BOOLEAN
  BY ModelTyped DEF AInv
<1>2. dm.busy \in BOOLEAN
  BY <1>1 DEF DmState
<1>3. BusySampled
  BY DEF AInv
<1>4. CASE \E words \in AutoWords : WriteAbstractauto(words)
  <2>1. PICK words \in AutoWords : WriteAbstractauto(words)
    BY <1>4
  <2>2. PICK m \in ModelState : m = [M EXCEPT !.abstractauto = words]
    BY <1>1, ShadowAssumption DEF ModelState
  <2>3. /\ m.shadow_regs = M.shadow_regs /\ m.shadow_hi = M.shadow_hi /\ m.staged = M.staged
        /\ m.data = M.data /\ m.known = M.known /\ m.last_command = M.last_command
        /\ m.abstractauto = words
    BY <1>1, <2>2 DEF ModelState
  <2>4. /\ dm' = [dm EXCEPT !.auto = words] /\ Becomes(m)
        /\ dmactive' = TRUE /\ observed_cmdbusy' = FALSE /\ mismatch' = FALSE
    BY <1>1, <2>1, <2>2 DEF WriteAbstractauto
  <2>5. /\ dm' \in DmState /\ dm'.regs = dm.regs /\ dm'.data = dm.data /\ dm'.staged = dm.staged
        /\ dm'.stale = dm.stale /\ dm'.auto = words /\ dm'.command = dm.command
    BY <1>1, <2>4, ShadowAssumption DEF DmState
  <2>6. Agree(m, dm')
    BY <1>1, <2>3, <2>5 DEF Agree, RegsAgree, WordsAgree, StagedAgree
  <2> QED BY <1>1, <2>4, <2>5, <2>6, Became DEF BusySampled
<1>5. CASE Activate \/ RefusedWrite \/ ClearCmderr \/ OtherWrite \/ Complete
  <2>1. PICK m \in ModelState : m = M
    BY <1>1
  <2>2. Becomes(m)
    BY <1>5, <2>1 DEF Activate, RefusedWrite, ClearCmderr, OtherWrite, Complete, model, Becomes, M
  <2>3. CASE Complete /\ dm' = Failed(dm)
    <3>1. dm' \in DmState /\ Agree(m, dm') /\ dm'.cmderr /\ ~dm'.busy
      BY <1>1, <2>1, <2>3, FailedAgrees, FailedFacts
    <3> QED BY <1>1, <2>2, <2>3, <3>1, Became DEF Complete, BusySampled
  <2>4. CASE ~(Complete /\ dm' = Failed(dm))
    <3>1. /\ dm' \in DmState /\ dm'.regs = dm.regs /\ dm'.data = dm.data /\ dm'.staged = dm.staged
          /\ dm'.stale = dm.stale /\ dm'.auto = dm.auto /\ dm'.command = dm.command
      <4>1. CASE Activate \/ OtherWrite
        BY <1>1, <4>1 DEF Activate, OtherWrite
      <4>2. CASE RefusedWrite
        BY <1>1, <4>2 DEF RefusedWrite, DmState
      <4>3. CASE ClearCmderr
        BY <1>1, <4>3 DEF ClearCmderr, DmState
      <4>4. CASE Complete
        <5>1. dm' = [dm EXCEPT !.busy = FALSE]
          BY <2>4, <4>4 DEF Complete
        <5> QED BY <1>1, <5>1 DEF DmState
      <4> QED BY <1>5, <4>1, <4>2, <4>3, <4>4
    <3>2. Agree(m, dm')
      BY <1>1, <2>1, <3>1 DEF Agree
    <3>3. mismatch' = FALSE /\ dmactive' \in BOOLEAN /\ observed_cmdbusy' \in BOOLEAN /\ BusySampled'
      <4>1. CASE Activate \/ OtherWrite
        BY <1>1, <1>2, <1>3, <4>1 DEF Activate, OtherWrite, BusySampled
      <4>2. CASE RefusedWrite
        BY <1>1, <4>2 DEF RefusedWrite, DmState, BusySampled
      <4>3. CASE ClearCmderr
        BY <1>1, <4>3 DEF ClearCmderr, BusySampled
      <4>4. CASE Complete
        <5>1. dm' = [dm EXCEPT !.busy = FALSE]
          BY <2>4, <4>4 DEF Complete
        <5> QED BY <1>1, <1>3, <4>4, <5>1 DEF Complete, DmState, BusySampled
      <4> QED BY <1>5, <4>1, <4>2, <4>3, <4>4
    <3> QED BY <2>2, <3>1, <3>2, <3>3, Became
  <2> QED BY <2>3, <2>4
<1> QED BY <1>4, <1>5

-----------------------------------------------------------------------------
(* Types, whatever liberties the debugger takes.                           *)

\* Every state a command may leave the DM in, programs that store to data0 included.
LEMMA ExecutionsTyped ==
    ASSUME NEW d \in DmState, NEW c \in Command, NEW e \in Executions(d, c)
    PROVE  e \in DmState
BY ExecutionCases, StartedFacts, FailedFacts

\* The step that makes m the model, whatever the two sides know of each other.
LEMMA BecameTyped ==
    ASSUME NEW m \in ModelState, Becomes(m), dm' \in DmState,
           dmactive' \in BOOLEAN, observed_cmdbusy' \in BOOLEAN, mismatch' \in BOOLEAN
    PROVE  TypeOK'
BY DEF TypeOK, Becomes, ModelState

\* The accesses to the data words and to command, which may run a command.
LEMMA CommandTyped ==
    ASSUME TypeOK,
           \/ \E i \in 0 .. 1 : ReadData(i) \/ \E v \in Values : WriteData(i, v)
           \/ \E c \in Commands : WriteCommand(c)
    PROVE  TypeOK'
<1>1. M \in ModelState /\ dm \in DmState /\ mismatch \in BOOLEAN /\ observed_cmdbusy \in BOOLEAN
  BY DEF TypeOK, M, ModelState
<1>2. ASSUME NEW m \in ModelState, NEW busy \in BOOLEAN, NEW i \in 0 .. 1
      PROVE  after_access(m, busy, i) \in ModelState
  <2>1. m.last_command \in Command
    BY CommandTypes DEF ModelState
  <2> QED BY <2>1, ExecuteTyped DEF after_access
<1>3. \A d \in DmState : d.command \in Command
  BY CommandTypes DEF DmState
<1>4. CASE \E i \in 0 .. 1 : ReadData(i)
  <2>1. PICK i \in 0 .. 1 : ReadData(i)
    BY <1>4
  <2>2. Becomes(after_access(M, observed_cmdbusy, i)) /\ dmactive' = TRUE
        /\ observed_cmdbusy' \in BOOLEAN /\ mismatch' \in BOOLEAN
    BY <1>1, <2>1 DEF ReadData, TypeOK
  <2>3. dm' = dm \/ dm' \in Executions(dm, dm.command)
    BY <2>1 DEF ReadData
  <2>4. dm' \in DmState
    BY <1>1, <1>3, <2>3, ExecutionsTyped
  <2>5. PICK m \in ModelState : m = after_access(M, observed_cmdbusy, i)
    BY <1>1, <1>2
  <2> QED BY <2>2, <2>4, <2>5, BecameTyped
<1>5. CASE \E i \in 0 .. 1, v \in Values : WriteData(i, v)
  <2>1. PICK i \in 0 .. 1, v \in Values : WriteData(i, v)
    BY <1>5
  <2>2. PICK n \in ModelState : n = write_buffer(M, i, v)
    BY <1>1 DEF write_buffer, ModelState, Pair
  <2>3. PICK d \in DmState : d = [dm EXCEPT !.data[i] = v, !.staged[i] = TRUE, !.stale[i] = FALSE]
    BY <1>1 DEF DmState, Pair
  <2>4. /\ Becomes(after_access(n, FALSE, i)) /\ dmactive' = TRUE /\ observed_cmdbusy' = FALSE
        /\ mismatch' \in BOOLEAN /\ (dm' = d \/ dm' \in Executions(d, d.command))
    BY <1>1, <2>1, <2>2, <2>3 DEF WriteData
  <2>5. dm' \in DmState
    BY <1>3, <2>4, ExecutionsTyped
  <2>6. PICK m \in ModelState : m = after_access(n, FALSE, i)
    BY <1>2
  <2> QED BY <2>4, <2>5, <2>6, BecameTyped
<1>6. CASE \E c \in Commands : WriteCommand(c)
  <2>1. PICK c \in Commands : WriteCommand(c)
    BY <1>6
  <2>2. c \in Command
    BY CommandTypes
  <2>3. PICK n \in ModelState : n = [M EXCEPT !.last_command = c]
    BY <1>1 DEF ModelState
  <2>4. PICK d \in DmState : d = [dm EXCEPT !.command = c]
    BY <1>1 DEF DmState
  <2>5. /\ Becomes(execute_command(n, c)) /\ dm' \in Executions(d, c) /\ dmactive' = TRUE
        /\ observed_cmdbusy' = FALSE /\ mismatch' \in BOOLEAN
    BY <1>1, <2>1, <2>3, <2>4 DEF WriteCommand
  <2>6. dm' \in DmState
    BY <2>2, <2>5, ExecutionsTyped
  <2>7. PICK m \in ModelState : m = execute_command(n, c)
    BY <2>2, ExecuteTyped
  <2> QED BY <2>5, <2>6, <2>7, BecameTyped
<1> QED BY <1>4, <1>5, <1>6

\* The accesses and events that run no command.
LEMMA PlainTyped ==
    ASSUME TypeOK,
           \/ Activate \/ ResetDm \/ RefusedWrite \/ ClearCmderr \/ OtherWrite
           \/ \E words \in AutoWords : WriteAbstractauto(words)
           \/ Resume \/ ResetHart \/ SelectHart \/ Complete
    PROVE  TypeOK'
<1>1. /\ dm \in DmState /\ dm.busy \in BOOLEAN /\ M \in ModelState
      /\ dmactive \in BOOLEAN /\ mismatch \in BOOLEAN /\ observed_cmdbusy \in BOOLEAN
  BY DEF TypeOK, DmState, M, ModelState
<1>2. Nothing \in Shadow /\ \A f \in Files : f \in [RegNos -> Pair]
  BY DEF Nothing, Shadow, Files
<1>3. CASE Activate \/ OtherWrite
  BY <1>1, <1>3 DEF Activate, OtherWrite, TypeOK, model
<1>4. CASE RefusedWrite \/ ClearCmderr \/ Complete
  <2>1. dm' \in DmState
    <3>1. CASE RefusedWrite \/ ClearCmderr
      BY <1>1, <3>1 DEF RefusedWrite, ClearCmderr, DmState
    <3>2. CASE Complete
      <4>1. Failed(dm) \in DmState /\ [dm EXCEPT !.busy = FALSE] \in DmState
        BY <1>1, FailedFacts DEF DmState
      <4> QED BY <3>2, <4>1 DEF Complete
    <3> QED BY <1>4, <3>1, <3>2
  <2> QED BY <1>4, <2>1 DEF RefusedWrite, ClearCmderr, Complete, TypeOK, model
<1>5. CASE ResetDm
  <2>1. dm' \in DmState
    BY <1>1, <1>5, ShadowAssumption DEF ResetDm, DmReset, DmState, Pair
  <2> QED BY <1>1, <1>5, <2>1, ShadowAssumption DEF ResetDm, TypeOK, Pair
<1>6. CASE \E words \in AutoWords : WriteAbstractauto(words)
  <2>1. PICK words \in AutoWords : WriteAbstractauto(words)
    BY <1>6
  <2>2. PICK m \in ModelState : m = [M EXCEPT !.abstractauto = words]
    BY <1>1, ShadowAssumption DEF ModelState
  <2>3. dm' \in DmState
    BY <1>1, <2>1, ShadowAssumption DEF WriteAbstractauto, DmState
  <2>4. Becomes(m) /\ dmactive' = dmactive /\ observed_cmdbusy' = FALSE /\ mismatch' = mismatch
    BY <2>1, <2>2 DEF WriteAbstractauto
  <2> QED BY <1>1, <2>3, <2>4, BecameTyped
<1>7. CASE Resume \/ ResetHart \/ SelectHart
  <2>1. PICK f \in Files : dm' = [dm EXCEPT !.regs = f]
    BY <1>7 DEF Resume, ResetHart, SelectHart
  <2>2. dm' \in DmState
    BY <1>1, <1>2, <2>1 DEF DmState
  <2>3. CASE Resume
    <3>1. PICK m \in ModelState : m = forget(M)
      BY <1>1, <1>2 DEF forget, ModelState
    <3>2. Becomes(m) /\ dmactive' = dmactive /\ observed_cmdbusy' = FALSE /\ mismatch' = mismatch
      BY <2>3, <3>1 DEF Resume
    <3> QED BY <1>1, <2>2, <3>2, BecameTyped
  <2>4. CASE ResetHart \/ SelectHart
    BY <2>2, <2>4 DEF ResetHart, SelectHart, TypeOK, model
  <2> QED BY <1>7, <2>3, <2>4
<1> QED BY <1>3, <1>4, <1>5, <1>6, <1>7

\* dm_ref_model.sv: its words, known bits and shadows keep their types whatever
\* the debugger, its programs and the hart do.
THEOREM TypeCorrect == Spec => []TypeOK
<1>1. Init => TypeOK
  BY InitAInv DEF AInv
<1>2. TypeOK /\ [Next]_vars => TypeOK'
  <2> SUFFICES ASSUME TypeOK, [Next]_vars PROVE TypeOK'
    OBVIOUS
  <2>1. CASE UNCHANGED vars
    BY <2>1 DEF vars, model, TypeOK
  <2>2. CASE Next
    BY <2>2, CommandTyped, PlainTyped DEF Next
  <2> QED BY <2>1, <2>2
<1> QED BY <1>1, <1>2, PTL DEF Spec

-----------------------------------------------------------------------------
\* dm_checker and dm_ref_model: while the debugger keeps the discipline, model
\* and Debug Module agree on every register the model claims and on every data
\* word it claims that no refused, ignored or failed command has left behind.
THEOREM AbstractInvariance == Liberties = {} => (Spec => []AInv)
<1> SUFFICES ASSUME Liberties = {} PROVE Spec => []AInv
  OBVIOUS
<1>1. Init => AInv
  BY InitAInv
<1>2. AInv /\ [Next]_vars => AInv'
  <2> SUFFICES ASSUME AInv, [Next]_vars PROVE AInv'
    OBVIOUS
  <2>1. CASE Activate \/ RefusedWrite \/ ClearCmderr \/ OtherWrite \/ Complete
    BY <2>1, OtherAInv
  <2>2. CASE ResetDm
    BY <2>2, ResetDmAInv
  <2>3. CASE \E i \in 0 .. 1 : ReadData(i)
    BY <2>3, ReadDataAInv
  <2>4. CASE \E i \in 0 .. 1, v \in Values : WriteData(i, v)
    BY <2>4, WriteDataAInv
  <2>5. CASE \E c \in Commands : WriteCommand(c)
    BY <2>5, WriteCommandAInv
  <2>6. CASE \E words \in AutoWords : WriteAbstractauto(words)
    BY <2>6, OtherAInv
  <2>7. CASE Resume \/ ResetHart \/ SelectHart
    BY <2>7, HartRanAInv
  <2>8. CASE UNCHANGED vars
    BY <2>8 DEF vars, model, AInv, TypeOK, NoFalseMismatch, Agree, M, BusySampled
  <2> QED BY <2>1, <2>2, <2>3, <2>4, <2>5, <2>6, <2>7, <2>8 DEF Next
<1> QED BY <1>1, <1>2, PTL DEF Spec

\* dm_checker.check_read_response: no MODEL_MISMATCH against a DM that keeps the
\* specification, also when it refuses commands, for a debugger that transfers by
\* read in commands that may fail and rewrites a data word before it reads it
\* (cmd_outcome_sequence.py:32-35).
THEOREM AbstractNoFalseMismatch == Liberties = {} => (Spec => []NoFalseMismatch)
<1>1. AInv => NoFalseMismatch
  BY DEF AInv
<1> QED BY <1>1, AbstractInvariance, PTL

\* dm_ref_model.has_model and predict: what is claimed of a data word is so,
\* unless a failed command has left that word behind.
THEOREM ClaimTrueHolds == Liberties = {} => (Spec => []ClaimTrue)
<1>1. AInv => ClaimTrue
  BY DEF AInv, Agree, WordsAgree, ClaimTrue, M
<1> QED BY <1>1, AbstractInvariance, PTL

-----------------------------------------------------------------------------
(* The register shadow stays true under more than the data words do: the   *)
(* debugger may write other registers while a command runs, so that a      *)
(* stale busy keeps the model from re-running a command the DM re-runs,    *)
(* and a program may store to data0.                                       *)

Shadowed == RegNos \ (Triggers \cup {X0})

\* One execution of c has left its mark on the shadow of m: another execution,
\* from the words still staged, makes nothing in it untrue.
Settled(m, c) ==
    c.accepted => \A r \in Shadowed :
        /\ c.postexec => m.shadow_regs[r] = Unknown /\ m.shadow_hi[r] = Unknown
        /\ c.transfer /\ c.write /\ r = c.regno =>
               /\ m.shadow_regs[r] \in {Unknown, m.staged[0]}
               /\ m.shadow_hi[r] = Unknown \/ (c.wide /\ m.shadow_hi[r] = m.staged[1])

ShadowAgree(m, d) ==
    /\ RegsAgree(m, d.regs) /\ StagedAgree(m, d.staged, d.data)
    /\ m.abstractauto = d.auto /\ m.last_command = d.command

\* The inductive invariant: the sample of busy may be stale, but then the
\* command has been executed by the model too, and nothing written since.
SInv ==
    /\ TypeOK /\ ShadowAgree(M, dm)
    /\ dm.busy \/ observed_cmdbusy => Settled(M, dm.command)

\* What a command leaves of registers and staging, whatever the program stores.
LEMMA RunFacts ==
    ASSUME NEW d \in DmState, NEW c \in Command, NEW e \in Executions(d, c)
    PROVE  /\ e.auto = d.auto /\ e.command = d.command
           /\ \A i \in 0 .. 1 : e.staged[i] => d.staged[i] /\ e.data[i] = d.data[i]
           /\ \/ MayFail(c) /\ e.regs = d.regs
              \/ MaySucceed(d, c) /\ e.regs \in RegsAfter(d, c)
<1>1. CASE MayFail(c) /\ e = Failed(d)
  BY <1>1, FailedFacts
<1>2. CASE /\ MaySucceed(d, c)
           /\ \E f \in RegsAfter(d, c), w \in DataAfter(d, c) : e = Started(d, c, f, w)
  BY <1>2, StartedFacts
<1> QED BY <1>1, <1>2, ExecutionCases

\* The registers after a command that the DM runs and whose mark the shadow
\* of n has: nothing in the shadow is untrue of them.
LEMMA SettledTrue ==
    ASSUME NEW d \in DmState, NEW c \in Command, NEW n \in ModelState, c.accepted,
           c.transfer /\ c.write => d.staged[0] /\ (c.wide => d.staged[1]),
           StagedAgree(n, d.staged, d.data), Settled(n, c),
           \A r \in Shadowed : r # c.regno \/ ~(c.transfer /\ c.write) =>
               /\ n.shadow_regs[r] \in {Unknown, d.regs[r][0]}
               /\ n.shadow_hi[r] \in {Unknown, d.regs[r][1]},
           NEW f \in RegsAfter(d, c)
    PROVE  RegsAgree(n, f)
<1> SUFFICES ASSUME NEW r \in Shadowed
             PROVE  /\ n.shadow_regs[r] \in {Unknown, f[r][0]}
                    /\ n.shadow_hi[r] \in {Unknown, f[r][1]}
  BY DEF RegsAgree, Shadowed
<1>1. CASE c.postexec
  BY <1>1 DEF Settled
<1>2. CASE ~c.postexec /\ ~(c.transfer /\ c.write)
  <2>1. f = d.regs
    BY <1>2 DEF RegsAfter
  <2> QED BY <1>2, <2>1
<1>3. CASE ~c.postexec /\ c.transfer /\ c.write
  <2>1. f \in Written(d, c)
    BY <1>3 DEF RegsAfter
  <2>2. CASE r # c.regno
    <3>1. f[r] = d.regs[r]
      BY <2>1, <2>2 DEF Written, Shadowed
    <3> QED BY <2>2, <3>1
  <2>3. CASE r = c.regno
    <3>1. f[r][0] = d.data[0] /\ (c.wide => f[r][1] = d.data[1])
      BY <2>1, <2>3 DEF Written, Shadowed
    <3>2. n.staged[0] = d.data[0] /\ (c.wide => n.staged[1] = d.data[1])
      BY <1>3 DEF StagedAgree
    <3>3. /\ n.shadow_regs[r] \in {Unknown, n.staged[0]}
          /\ n.shadow_hi[r] = Unknown \/ (c.wide /\ n.shadow_hi[r] = n.staged[1])
      BY <1>3, <2>3 DEF Settled
    <3> QED BY <3>1, <3>2, <3>3
  <2> QED BY <2>2, <2>3
<1> QED BY <1>1, <1>2, <1>3

\* A command both sides execute.
LEMMA SharedRun ==
    ASSUME Liberties \cap {"copy", "refusedwrite", "reservedsize"} = {},
           NEW m \in ModelState, NEW d \in DmState, NEW c \in Command,
           ShadowAgree(m, d), MayRun(d, c), NEW e \in Executions(d, c)
    PROVE  /\ execute_command(m, c) \in ModelState /\ e \in DmState
           /\ ShadowAgree(execute_command(m, c), e)
           /\ Settled(execute_command(m, c), c)
<1> DEFINE n == execute_command(m, c)
<1>1. /\ n \in ModelState
      /\ n.staged = m.staged /\ n.abstractauto = m.abstractauto
      /\ n.last_command = m.last_command
      /\ c.accepted /\ c.postexec => n.shadow_regs = Nothing /\ n.shadow_hi = Nothing
      /\ c.accepted /\ ~c.postexec /\ c.transfer /\ c.write =>
           /\ n.shadow_regs = [m.shadow_regs EXCEPT ![c.regno] = m.staged[0]]
           /\ n.shadow_hi = [m.shadow_hi EXCEPT ![c.regno] =
                                 IF c.wide THEN m.staged[1] ELSE Unknown]
      /\ ~c.accepted \/ (~c.postexec /\ ~(c.transfer /\ c.write)) =>
           n.shadow_regs = m.shadow_regs /\ n.shadow_hi = m.shadow_hi
  BY ShadowAfter
<1> HIDE DEF n
<1>2. c.transfer /\ c.write => d.staged[0] /\ (c.wide => d.staged[1])
  BY DEF MayRun, Usable
<1>3. e \in DmState
  BY ExecutionsTyped
<1>4. Settled(n, c)
  <2>1. \A r \in RegNos : Nothing[r] = Unknown
    BY DEF Nothing
  <2>2. CASE c.accepted /\ c.postexec
    BY <1>1, <2>1, <2>2 DEF Settled, Shadowed
  <2>3. CASE c.accepted /\ ~c.postexec /\ c.transfer /\ c.write
    BY <1>1, <2>3 DEF Settled, Shadowed, ModelState, Shadow
  <2> QED BY <2>2, <2>3 DEF Settled
<1>5. /\ e.auto = d.auto /\ e.command = d.command
      /\ \A i \in 0 .. 1 : e.staged[i] => d.staged[i] /\ e.data[i] = d.data[i]
      /\ \/ MayFail(c) /\ e.regs = d.regs
         \/ MaySucceed(d, c) /\ e.regs \in RegsAfter(d, c)
  BY RunFacts
<1>6. CASE ~c.accepted \/ e.regs \notin RegsAfter(d, c)
  <2>1. e.regs = d.regs
    BY <1>5, <1>6 DEF MaySucceed, RegsAfter
  <2>2. ~c.accepted \/ c.postexec \/ ~(c.transfer /\ c.write)
    BY <1>5, <1>6 DEF MayFail
  <2>3. \A r \in RegNos : Nothing[r] = Unknown
    BY DEF Nothing
  <2>4. RegsAgree(n, e.regs)
    BY <1>1, <2>1, <2>2, <2>3 DEF ShadowAgree, RegsAgree
  <2>5. ShadowAgree(n, e)
    BY <1>1, <1>5, <2>4 DEF ShadowAgree, StagedAgree
  <2> QED BY <1>1, <1>3, <1>4, <2>5 DEF n
<1>7. CASE c.accepted /\ e.regs \in RegsAfter(d, c)
  <2>1. /\ e.auto = d.auto /\ e.command = d.command
        /\ \A i \in 0 .. 1 : e.staged[i] => d.staged[i] /\ e.data[i] = d.data[i]
        /\ e.regs \in RegsAfter(d, c)
    BY <1>5, <1>7
  <2>2. StagedAgree(n, d.staged, d.data) /\ StagedAgree(n, e.staged, e.data)
    BY <1>1, <2>1 DEF ShadowAgree, StagedAgree
  <2>3. ASSUME NEW r \in Shadowed, r # c.regno \/ ~(c.transfer /\ c.write)
        PROVE  /\ n.shadow_regs[r] \in {Unknown, d.regs[r][0]}
               /\ n.shadow_hi[r] \in {Unknown, d.regs[r][1]}
    <3>1. /\ m.shadow_regs[r] \in {Unknown, d.regs[r][0]}
          /\ m.shadow_hi[r] \in {Unknown, d.regs[r][1]} /\ r \in RegNos
      BY DEF ShadowAgree, RegsAgree, Shadowed
    <3>2. Nothing[r] = Unknown
      BY <3>1 DEF Nothing
    <3>3. CASE c.postexec
      BY <1>1, <1>7, <3>2, <3>3
    <3>4. CASE ~c.postexec /\ c.transfer /\ c.write
      <4>1. n.shadow_regs[r] = m.shadow_regs[r] /\ n.shadow_hi[r] = m.shadow_hi[r]
        BY <1>1, <1>7, <2>3, <3>1, <3>4 DEF ModelState, Shadow
      <4> QED BY <3>1, <4>1
    <3>5. CASE ~c.postexec /\ ~(c.transfer /\ c.write)
      BY <1>1, <3>1, <3>5
    <3> QED BY <3>3, <3>4, <3>5
  <2>4. RegsAgree(n, e.regs)
    BY <1>1, <1>2, <1>4, <1>7, <2>1, <2>2, <2>3, SettledTrue
  <2>5. ShadowAgree(n, e)
    BY <1>1, <2>1, <2>2, <2>4 DEF ShadowAgree
  <2> QED BY <1>1, <1>3, <1>4, <2>5 DEF n
<1> QED BY <1>6, <1>7

\* A command the DM executes again and the model, held back by a stale busy, not.
LEMMA LoneRun ==
    ASSUME Liberties \cap {"copy", "refusedwrite", "reservedsize"} = {},
           NEW m \in ModelState, NEW d \in DmState, NEW c \in Command,
           ShadowAgree(m, d), Settled(m, c), MayRun(d, c), NEW e \in Executions(d, c)
    PROVE  e \in DmState /\ ShadowAgree(m, e)
<1>1. c.transfer /\ c.write => d.staged[0] /\ (c.wide => d.staged[1])
  BY DEF MayRun, Usable
<1>2. e \in DmState
  BY ExecutionsTyped
<1>5. /\ e.auto = d.auto /\ e.command = d.command
      /\ \A i \in 0 .. 1 : e.staged[i] => d.staged[i] /\ e.data[i] = d.data[i]
      /\ \/ MayFail(c) /\ e.regs = d.regs
         \/ MaySucceed(d, c) /\ e.regs \in RegsAfter(d, c)
  BY RunFacts
<1>3. CASE ~c.accepted \/ e.regs \notin RegsAfter(d, c)
  <2>1. e.regs = d.regs
    BY <1>5, <1>3 DEF MaySucceed, RegsAfter
  <2> QED BY <1>5, <1>2, <2>1 DEF ShadowAgree, StagedAgree
<1>4. CASE c.accepted /\ e.regs \in RegsAfter(d, c)
  <2>1. /\ e.auto = d.auto /\ e.command = d.command
        /\ \A i \in 0 .. 1 : e.staged[i] => d.staged[i] /\ e.data[i] = d.data[i]
        /\ e.regs \in RegsAfter(d, c)
    BY <1>5, <1>4
  <2>2. StagedAgree(m, d.staged, d.data) /\ StagedAgree(m, e.staged, e.data)
    BY <2>1 DEF ShadowAgree, StagedAgree
  <2>3. \A r \in Shadowed : /\ m.shadow_regs[r] \in {Unknown, d.regs[r][0]}
                            /\ m.shadow_hi[r] \in {Unknown, d.regs[r][1]}
    BY DEF ShadowAgree, RegsAgree, Shadowed
  <2>4. RegsAgree(m, e.regs)
    BY <1>1, <1>4, <2>1, <2>2, <2>3, SettledTrue
  <2> QED BY <1>2, <2>1, <2>2, <2>4 DEF ShadowAgree
<1> QED BY <1>3, <1>4
-----------------------------------------------------------------------------
\* The step that makes m the model.
LEMMA BecameS ==
    ASSUME NEW m \in ModelState, Becomes(m), TypeOK', ShadowAgree(m, dm'),
           dm'.busy \/ observed_cmdbusy' => Settled(m, dm'.command)
    PROVE  SInv'
<1>1. M' = m
  BY DEF M, Becomes, ModelState
<1>2. (ShadowAgree(M, dm))' /\ (dm.busy \/ observed_cmdbusy => Settled(M, dm.command))'
  BY <1>1 DEF ShadowAgree, RegsAgree, StagedAgree, Settled
<1> QED BY <1>2 DEF SInv

LEMMA InitSInv == Init => SInv
<1> SUFFICES ASSUME Init PROVE SInv
  OBVIOUS
<1>1. TypeOK
  BY InitAInv DEF AInv
<1>2. PICK f \in Files : dm = DmReset(f)
  BY DEF Init
<1>3. /\ dm.regs = f /\ dm.auto = {} /\ dm.command = NoCommand
      /\ dm.data = [i \in 0 .. 1 |-> 0]
  BY <1>2 DEF DmReset
<1>4. \A r \in RegNos : shadow_regs[r] = Unknown /\ shadow_hi[r] = Unknown
  BY DEF Init, Nothing
<1>5. ShadowAgree(M, dm)
  BY <1>3, <1>4 DEF Init, ShadowAgree, RegsAgree, StagedAgree, M
<1>6. Settled(M, dm.command)
  BY <1>3 DEF Settled, NoCommand
<1> QED BY <1>1, <1>5, <1>6 DEF SInv

\* What the invariant says before a step.
LEMMA SInvFacts ==
    ASSUME SInv
    PROVE  /\ M \in ModelState /\ dm \in DmState /\ ShadowAgree(M, dm)
           /\ dm.command \in Command /\ M.last_command = dm.command
           /\ dm.busy \in BOOLEAN /\ observed_cmdbusy \in BOOLEAN
           /\ dm.busy \/ observed_cmdbusy => Settled(M, dm.command)
<1>1. M \in ModelState /\ dm \in DmState
  BY DEF SInv, TypeOK, M, ModelState
<1>2. dm.command \in Command /\ dm.busy \in BOOLEAN
  BY <1>1, CommandTypes DEF DmState
<1> QED BY <1>1, <1>2 DEF SInv, ShadowAgree, TypeOK

\* A write to command runs it on both sides.
LEMMA WriteCommandSInv ==
    ASSUME Liberties \cap {"copy", "refusedwrite", "reservedsize"} = {}, SInv, NEW c \in Commands, WriteCommand(c)
    PROVE  SInv'
<1>1. M \in ModelState /\ dm \in DmState /\ ShadowAgree(M, dm)
  BY SInvFacts
<1>2. c \in Command
  BY CommandTypes
<1>3. PICK n \in ModelState : n = [M EXCEPT !.last_command = c]
  BY <1>1 DEF ModelState
<1>4. PICK d \in DmState : d = [dm EXCEPT !.command = c]
  BY <1>1 DEF DmState
<1>5. /\ d.regs = dm.regs /\ d.staged = dm.staged /\ d.data = dm.data /\ d.auto = dm.auto
      /\ d.command = c /\ d.cmderr = dm.cmderr /\ d.stale = dm.stale
  BY <1>1, <1>4 DEF DmState
<1>6. /\ n.shadow_regs = M.shadow_regs /\ n.shadow_hi = M.shadow_hi /\ n.staged = M.staged
      /\ n.abstractauto = M.abstractauto /\ n.last_command = c
  BY <1>1, <1>3 DEF ModelState
<1>7. ShadowAgree(n, d)
  BY <1>1, <1>5, <1>6 DEF ShadowAgree, RegsAgree, StagedAgree
<1>8. MayRun(d, c) /\ Becomes(execute_command(n, c)) /\ dm' \in Executions(d, c)
  BY <1>3, <1>4, <1>5 DEF WriteCommand, MayRun, Usable
<1>9. PICK e \in Executions(d, c) : e = dm'
  BY <1>8
<1>10. PICK m \in ModelState : m = execute_command(n, c)
  BY <1>2, ExecuteTyped
<1>11. ShadowAgree(m, e) /\ Settled(m, c)
  BY <1>2, <1>7, <1>8, <1>10, SharedRun
<1>12. e.command = c
  BY <1>6, <1>10, <1>11, <1>2, ShadowAfter DEF ShadowAgree
<1>13. TypeOK'
  BY CommandTyped DEF SInv
<1> QED BY <1>8, <1>9, <1>10, <1>11, <1>12, <1>13, BecameS

\* A write to a data word, which re-runs command when its autoexec bit is set.
LEMMA WriteDataSInv ==
    ASSUME Liberties \cap {"copy", "refusedwrite", "reservedsize"} = {}, SInv, NEW i \in 0 .. 1, NEW v \in Values, WriteData(i, v)
    PROVE  SInv'
<1>1. M \in ModelState /\ dm \in DmState /\ ShadowAgree(M, dm) /\ dm.command \in Command
  BY SInvFacts
<1>2. PICK n \in ModelState : n = write_buffer(M, i, v)
  BY <1>1 DEF write_buffer, ModelState, Pair
<1>3. PICK d \in DmState : d = [dm EXCEPT !.data[i] = v, !.staged[i] = TRUE, !.stale[i] = FALSE]
  BY <1>1 DEF DmState, Pair
<1>4. /\ d.regs = dm.regs /\ d.auto = dm.auto /\ d.command = dm.command /\ d.busy = dm.busy
      /\ d.data = [dm.data EXCEPT ![i] = v] /\ d.staged = [dm.staged EXCEPT ![i] = TRUE]
  BY <1>1, <1>3 DEF DmState
<1>5. /\ n.shadow_regs = M.shadow_regs /\ n.shadow_hi = M.shadow_hi
      /\ n.staged = [M.staged EXCEPT ![i] = v]
      /\ n.abstractauto = M.abstractauto /\ n.last_command = M.last_command
  BY <1>1, <1>2 DEF ModelState, write_buffer
<1>6. StagedAgree(n, d.staged, d.data)
  BY <1>1, <1>4, <1>5 DEF ShadowAgree, StagedAgree, ModelState, DmState, Pair
<1>7. ShadowAgree(n, d)
  BY <1>1, <1>4, <1>5, <1>6 DEF ShadowAgree, RegsAgree
<1>8. /\ Becomes(after_access(n, FALSE, i)) /\ ~dm.busy /\ observed_cmdbusy' = FALSE
      /\ i \in dm.auto => MayRun(d, d.command) /\ dm' \in Executions(d, d.command)
      /\ i \notin dm.auto => dm' = d
  BY <1>2, <1>3 DEF WriteData
<1>9. TypeOK'
  BY CommandTyped DEF SInv
<1>10. n.abstractauto = dm.auto /\ n.last_command = d.command
  BY <1>4, <1>7 DEF ShadowAgree
<1>11. CASE i \in dm.auto
  <2>1. PICK c \in Command : c = d.command
    BY <1>1, <1>4
  <2>2. PICK e \in Executions(d, c) : e = dm'
    BY <1>8, <1>11, <2>1
  <2>3. PICK m \in ModelState : m = execute_command(n, c)
    BY ExecuteTyped
  <2>4. ShadowAgree(m, e) /\ Settled(m, c)
    BY <1>7, <1>8, <1>11, <2>1, <2>3, SharedRun
  <2>5. e.command = c
    BY <1>10, <2>1, <2>3, <2>4, ShadowAfter DEF ShadowAgree
  <2>6. Becomes(m)
    BY <1>8, <1>10, <1>11, <2>1, <2>3 DEF after_access, autoexec_armed
  <2> QED BY <1>9, <2>2, <2>4, <2>5, <2>6, BecameS
<1>12. CASE i \notin dm.auto
  <2>1. Becomes(n)
    BY <1>8, <1>10, <1>12 DEF after_access, autoexec_armed
  <2> QED BY <1>4, <1>7, <1>8, <1>9, <1>12, <2>1, BecameS
<1> QED BY <1>11, <1>12

\* A read of a data word: the DM may re-run command while the model, whose
\* sample of busy is stale, does not.
LEMMA ReadDataSInv ==
    ASSUME Liberties \cap {"copy", "refusedwrite", "reservedsize"} = {}, SInv, NEW i \in 0 .. 1, ReadData(i)
    PROVE  SInv'
<1>1. /\ M \in ModelState /\ dm \in DmState /\ ShadowAgree(M, dm)
      /\ M.last_command = dm.command /\ observed_cmdbusy \in BOOLEAN
      /\ observed_cmdbusy => Settled(M, dm.command)
  BY SInvFacts
<1>2. PICK c \in Command : c = dm.command
  BY SInvFacts
<1>3. PICK n \in ModelState : n = M
  BY <1>1
<1>4. /\ Becomes(after_access(n, observed_cmdbusy, i)) /\ ~dm.busy
      /\ observed_cmdbusy' = observed_cmdbusy
      /\ i \in dm.auto => MayRun(dm, c) /\ dm' \in Executions(dm, c)
      /\ i \notin dm.auto => dm' = dm
  BY <1>2, <1>3 DEF ReadData
<1>5. TypeOK'
  BY CommandTyped DEF SInv
<1>6. n.abstractauto = dm.auto /\ n.last_command = c
  BY <1>1, <1>2, <1>3 DEF ShadowAgree
<1>7. CASE i \notin dm.auto
  <2>1. Becomes(n)
    BY <1>4, <1>6, <1>7 DEF after_access, autoexec_armed
  <2> QED BY <1>1, <1>3, <1>4, <1>5, <1>7, <2>1, BecameS
<1>8. CASE i \in dm.auto /\ observed_cmdbusy
  <2>1. PICK e \in Executions(dm, c) : e = dm'
    BY <1>4, <1>8
  <2>2. ShadowAgree(n, e)
    BY <1>1, <1>2, <1>3, <1>4, <1>8, LoneRun
  <2>3. Becomes(n)
    BY <1>4, <1>8 DEF after_access, autoexec_armed
  <2>4. e.command = c
    BY <1>6, <2>2 DEF ShadowAgree
  <2> QED BY <1>1, <1>2, <1>3, <1>5, <1>8, <2>1, <2>2, <2>3, <2>4, BecameS
<1>9. CASE i \in dm.auto /\ ~observed_cmdbusy
  <2>1. PICK e \in Executions(dm, c) : e = dm'
    BY <1>4, <1>9
  <2>2. PICK m \in ModelState : m = execute_command(n, c)
    BY ExecuteTyped
  <2>3. ShadowAgree(m, e) /\ Settled(m, c)
    BY <1>1, <1>3, <1>4, <1>9, <2>2, SharedRun
  <2>4. e.command = c
    BY <1>6, <2>2, <2>3, ShadowAfter DEF ShadowAgree
  <2>5. Becomes(m)
    BY <1>4, <1>6, <1>9, <2>2 DEF after_access, autoexec_armed
  <2> QED BY <1>5, <2>1, <2>3, <2>4, <2>5, BecameS
<1> QED BY <1>7, <1>8, <1>9

\* The hart has run: the model has forgotten its registers, or knew none.
LEMMA HartRanSInv ==
    ASSUME "reset" \notin Liberties, "select" \notin Liberties, SInv, Resume \/ ResetHart \/ SelectHart
    PROVE  SInv'
<1>1. M \in ModelState /\ dm \in DmState /\ ShadowAgree(M, dm)
  BY SInvFacts
<1>2. PICK f \in Files : dm' = [dm EXCEPT !.regs = f]
  BY DEF Resume, ResetHart, SelectHart
<1>3. /\ dm'.data = dm.data /\ dm'.staged = dm.staged /\ dm'.auto = dm.auto
      /\ dm'.command = dm.command /\ dm'.busy = dm.busy
  BY <1>1, <1>2 DEF DmState
<1>4. ~dm.busy /\ observed_cmdbusy' = FALSE
  BY DEF Resume, ResetHart, SelectHart
<1>5. TypeOK'
  BY PlainTyped DEF SInv
<1>6. Nothing \in Shadow /\ \A r \in RegNos : Nothing[r] = Unknown
  BY DEF Nothing, Shadow
<1>7. PICK m \in ModelState : m = forget(M)
  BY <1>1, <1>6 DEF forget, ModelState
<1>8. /\ m.shadow_regs = Nothing /\ m.shadow_hi = Nothing /\ m.staged = M.staged
      /\ m.abstractauto = M.abstractauto /\ m.last_command = M.last_command
  BY <1>1, <1>7 DEF forget, ModelState
<1>9. Becomes(m)
  <2>1. CASE Resume
    BY <1>7, <2>1 DEF Resume
  <2>2. CASE ResetHart \/ SelectHart
    BY <1>7, <2>2 DEF ResetHart, SelectHart, Becomes, forget, M, model
  <2> QED BY <2>1, <2>2
<1>10. ShadowAgree(m, dm')
  BY <1>1, <1>3, <1>6, <1>8 DEF ShadowAgree, RegsAgree, StagedAgree
<1> QED BY <1>3, <1>4, <1>5, <1>9, <1>10, BecameS

\* dmactive = 0 clears the words and command, and keeps the shadow.
LEMMA ResetDmSInv ==
    ASSUME SInv, ResetDm
    PROVE  SInv'
<1>1. M \in ModelState /\ dm \in DmState /\ ShadowAgree(M, dm)
  BY SInvFacts
<1>2. /\ dm'.regs = dm.regs /\ dm'.auto = {} /\ dm'.command = NoCommand
      /\ dm'.data = [i \in 0 .. 1 |-> 0]
  BY DEF ResetDm, DmReset
<1>3. TypeOK'
  BY PlainTyped DEF SInv
<1>4. /\ shadow_regs' = shadow_regs /\ shadow_hi' = shadow_hi /\ abstractauto' = {}
      /\ staged' = [i \in 0 .. 1 |-> 0] /\ last_command' = NoCommand
  BY DEF ResetDm
<1>5. (ShadowAgree(M, dm))'
  BY <1>1, <1>2, <1>4 DEF ShadowAgree, RegsAgree, StagedAgree, M
<1>6. (Settled(M, dm.command))'
  BY <1>2 DEF Settled, NoCommand
<1> QED BY <1>3, <1>5, <1>6 DEF SInv

\* The accesses that leave the shadow alone.
LEMMA OtherSInv ==
    ASSUME SInv,
           \/ Activate \/ RefusedWrite \/ ClearCmderr \/ OtherWrite \/ Complete
           \/ \E words \in AutoWords : WriteAbstractauto(words)
    PROVE  SInv'
<1>1. /\ M \in ModelState /\ dm \in DmState /\ ShadowAgree(M, dm)
      /\ dm.busy \in BOOLEAN /\ observed_cmdbusy \in BOOLEAN
      /\ dm.busy \/ observed_cmdbusy => Settled(M, dm.command)
  BY SInvFacts
<1>2. TypeOK'
  BY PlainTyped DEF SInv
<1>3. CASE \E words \in AutoWords : WriteAbstractauto(words)
  <2>1. PICK words \in AutoWords : WriteAbstractauto(words)
    BY <1>3
  <2>2. PICK m \in ModelState : m = [M EXCEPT !.abstractauto = words]
    BY <1>1, ShadowAssumption DEF ModelState
  <2>3. /\ m.shadow_regs = M.shadow_regs /\ m.shadow_hi = M.shadow_hi /\ m.staged = M.staged
        /\ m.last_command = M.last_command /\ m.abstractauto = words
    BY <1>1, <2>2 DEF ModelState
  <2>4. /\ dm' = [dm EXCEPT !.auto = words] /\ Becomes(m) /\ ~dm.busy /\ observed_cmdbusy' = FALSE
    BY <2>1, <2>2 DEF WriteAbstractauto
  <2>5. /\ dm'.regs = dm.regs /\ dm'.data = dm.data /\ dm'.staged = dm.staged
        /\ dm'.auto = words /\ dm'.command = dm.command /\ dm'.busy = dm.busy
    BY <1>1, <2>4 DEF DmState
  <2>6. ShadowAgree(m, dm')
    BY <1>1, <2>3, <2>5 DEF ShadowAgree, RegsAgree, StagedAgree
  <2> QED BY <1>2, <2>4, <2>5, <2>6, BecameS
<1>4. CASE Activate \/ RefusedWrite \/ ClearCmderr \/ OtherWrite \/ Complete
  <2>1. PICK m \in ModelState : m = M
    BY <1>1
  <2>2. Becomes(m)
    BY <1>4, <2>1 DEF Activate, RefusedWrite, ClearCmderr, OtherWrite, Complete, model, Becomes, M
  <2>3. /\ dm'.regs = dm.regs /\ dm'.auto = dm.auto /\ dm'.command = dm.command
        /\ \A i \in 0 .. 1 : dm'.staged[i] => dm.staged[i] /\ dm'.data[i] = dm.data[i]
        /\ dm'.busy \/ observed_cmdbusy' => dm.busy \/ observed_cmdbusy
    <3>1. CASE Activate \/ OtherWrite
      BY <1>1, <3>1 DEF Activate, OtherWrite
    <3>2. CASE RefusedWrite
      BY <1>1, <3>2 DEF RefusedWrite, DmState
    <3>3. CASE ClearCmderr
      BY <1>1, <3>3 DEF ClearCmderr, DmState
    <3>4. CASE Complete
      <4>1. CASE dm' = [dm EXCEPT !.busy = FALSE]
        BY <1>1, <3>4, <4>1 DEF Complete, DmState
      <4>2. CASE dm' = Failed(dm)
        BY <1>1, <3>4, <4>2, FailedFacts DEF Complete
      <4> QED BY <3>4, <4>1, <4>2 DEF Complete
    <3> QED BY <1>4, <3>1, <3>2, <3>3, <3>4
  <2>4. ShadowAgree(m, dm')
    BY <1>1, <2>1, <2>3 DEF ShadowAgree, StagedAgree
  <2> QED BY <1>1, <1>2, <2>1, <2>2, <2>3, <2>4, BecameS
<1> QED BY <1>3, <1>4

\* dm_ref_model.shadow_regs: what the model holds of a register is what the
\* register holds, whatever commands the DM refuses, ignores or fails, as long as
\* it performs the plain register writes; even when the sample of busy the model
\* re-runs commands by is stale, when programs store to the data words, and when
\* the debugger reads a word that a failed command left behind.
THEOREM ShadowTrueHolds ==
    Liberties \subseteq {"unguarded", "dataaccess", "staleread"} => (Spec => []ShadowTrue)
<1> SUFFICES ASSUME Liberties \subseteq {"unguarded", "dataaccess", "staleread"}
             PROVE  Spec => []ShadowTrue
  OBVIOUS
<1>1. /\ Liberties \cap {"copy", "refusedwrite", "reservedsize"} = {}
      /\ "reset" \notin Liberties /\ "select" \notin Liberties
  OBVIOUS
<1>2. Init => SInv
  BY InitSInv
<1>3. SInv /\ [Next]_vars => SInv'
  <2> SUFFICES ASSUME SInv, [Next]_vars PROVE SInv'
    OBVIOUS
  <2>1. CASE Activate \/ RefusedWrite \/ ClearCmderr \/ OtherWrite \/ Complete
    BY <2>1, OtherSInv
  <2>2. CASE ResetDm
    BY <2>2, ResetDmSInv
  <2>3. CASE \E i \in 0 .. 1 : ReadData(i)
    BY <1>1, <2>3, ReadDataSInv
  <2>4. CASE \E i \in 0 .. 1, v \in Values : WriteData(i, v)
    BY <1>1, <2>4, WriteDataSInv
  <2>5. CASE \E c \in Commands : WriteCommand(c)
    BY <1>1, <2>5, WriteCommandSInv
  <2>6. CASE \E words \in AutoWords : WriteAbstractauto(words)
    BY <2>6, OtherSInv
  <2>7. CASE Resume \/ ResetHart \/ SelectHart
    BY <1>1, <2>7, HartRanSInv
  <2>8. CASE UNCHANGED vars
    BY <2>8 DEF vars, model, SInv, TypeOK, ShadowAgree, RegsAgree, StagedAgree, Settled, M
  <2> QED BY <2>1, <2>2, <2>3, <2>4, <2>5, <2>6, <2>7, <2>8 DEF Next
<1>4. SInv => ShadowTrue
  BY DEF SInv, ShadowAgree, RegsAgree, ShadowTrue, M
<1> QED BY <1>2, <1>3, <1>4, PTL DEF Spec
=============================================================================
