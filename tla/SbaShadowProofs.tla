---------------------------- MODULE SbaShadowProofs ----------------------------
(***************************************************************************)
(* The System Bus Access shadow, for any address width, any words and any  *)
(* length of burst, in layers.  Types hold whatever the debugger does; the *)
(* addresses of model and DM stay in step as long as no write and no       *)
(* autoincremented read faults; the memory shadow is the memory when the   *)
(* debugger stays below 4 GiB too; and a debugger that takes no liberty at *)
(* all never sees a false MODEL_MISMATCH.                                  *)
(***************************************************************************)
EXTENDS SbaShadow, Integers, TLAPS

\* The division theorem for the operators % and \div of Integers.
LEMMA Decomposition ==
    ASSUME NEW S \in Nat \ {0}, NEW a \in Nat
    PROVE  /\ a = (a \div S) * S + (a % S)
           /\ a \div S \in Nat
           /\ a % S \in 0 .. S - 1
BY SMT

\* A positive multiple of S is at least S.
LEMMA MultipleIsLarge ==
    ASSUME NEW S \in Nat \ {0}, NEW d \in Int, d >= 1
    PROVE  d * S >= S
BY SMT

\* Quotient and remainder are unique.
LEMMA QuotientUnique ==
    ASSUME NEW S \in Nat \ {0}, NEW q \in Int, NEW p \in Int,
           NEW r \in 0 .. S - 1, NEW t \in 0 .. S - 1,
           q * S + r = p * S + t
    PROVE  q = p /\ r = t
<1>1. (q - p) * S = t - r /\ (p - q) * S = r - t
  BY SMT
<1>2. ASSUME q - p >= 1 PROVE FALSE
  <2>1. (q - p) * S >= S
    BY <1>2, MultipleIsLarge, q - p \in Int
  <2> QED BY <2>1, <1>1, SMT
<1>3. ASSUME p - q >= 1 PROVE FALSE
  <2>1. (p - q) * S >= S
    BY <1>3, MultipleIsLarge, p - q \in Int
  <2> QED BY <2>1, <1>1, SMT
<1>4. q = p
  BY <1>2, <1>3, SMT
<1> QED BY <1>4, <1>1, SMT

\* What % and \div return of a number given by quotient and remainder.
LEMMA DivModOf ==
    ASSUME NEW S \in Nat \ {0}, NEW q \in Nat, NEW r \in 0 .. S - 1
    PROVE  (q * S + r) % S = r /\ (q * S + r) \div S = q
<1>1. q * S + r \in Nat
  <2>1. q * S \in Nat
    BY SMT
  <2>2. r \in Nat
    BY SMT
  <2> QED BY <2>1, <2>2, SMT
<1>2. PICK a \in Nat : a = q * S + r
  BY <1>1
<1>3. a = (a \div S) * S + (a % S) /\ a \div S \in Int /\ a % S \in 0 .. S - 1
  BY Decomposition
<1> DEFINE p == a \div S
           t == a % S
<1>4. q * S + r = p * S + t /\ p \in Int /\ t \in 0 .. S - 1
  BY <1>2, <1>3
<1> HIDE DEF p, t
<1>5. q = p /\ r = t
  BY <1>4, QuotientUnique
<1> QED BY <1>2, <1>5 DEF p, t

\* What adding one to hi * S + lo does to its two halves.
Carries(S, hi, lo) ==
    /\ (hi * S + lo) % S = lo
    /\ ((hi * S + lo) \div S) % S = hi
    /\ (hi * S + lo + 1) % S = (lo + 1) % S
    /\ ((hi * S + lo + 1) \div S) % S = IF lo = S - 1 THEN (hi + 1) % S ELSE hi

\* predictor._sba_autoincrement: adding one to the concatenation of the two
\* halves is the increment of the lower half with its carry into the upper.
LEMMA CarryLemma ==
    ASSUME NEW S \in Nat \ {0}, NEW hi \in 0 .. S - 1, NEW lo \in 0 .. S - 1
    PROVE  Carries(S, hi, lo)
<1>0. hi \in Nat /\ lo \in Nat /\ hi + 1 \in Nat /\ hi % S = hi /\ lo % S = lo
  BY SMT
<1>1. (hi * S + lo) % S = lo /\ (hi * S + lo) \div S = hi
  BY <1>0, DivModOf
<1>2. CASE lo = S - 1
  <2>1. 0 \in 0 .. S - 1 /\ hi * S + lo + 1 = (hi + 1) * S + 0 /\ lo + 1 = 1 * S + 0
    BY <1>2, SMT
  <2>2. ((hi + 1) * S + 0) % S = 0 /\ ((hi + 1) * S + 0) \div S = hi + 1
    BY <2>1, <1>0, DivModOf
  <2>3. (1 * S + 0) % S = 0
    BY <2>1, DivModOf, 1 \in Nat
  <2> QED BY <1>0, <1>1, <1>2, <2>1, <2>2, <2>3 DEF Carries
<1>3. CASE lo # S - 1
  <2>1. lo + 1 \in 0 .. S - 1 /\ hi * S + lo + 1 = hi * S + (lo + 1) /\ (lo + 1) % S = lo + 1
    BY <1>3, SMT
  <2>2. (hi * S + (lo + 1)) % S = lo + 1 /\ (hi * S + (lo + 1)) \div S = hi
    BY <2>1, <1>0, DivModOf
  <2> QED BY <1>0, <1>1, <1>3, <2>1, <2>2 DEF Carries
<1> QED BY <1>2, <1>3

-----------------------------------------------------------------------------
(* Type correctness, whatever liberties the debugger takes.                *)

\* What a DM reset leaves.
LEMMA ResetValues ==
    /\ 0 \in Half /\ SbcsReset \in Sbcs
    /\ \A mem \in [Half \X Half -> Values] :
          LET d == DmReset(mem)
          IN  /\ d \in DmState /\ d.sbcs = SbcsReset /\ d.address0 = 0 /\ d.address1 = 0
              /\ d.data0 = 0 /\ d.data1 = 0 /\ ~d.configured /\ d.mem = mem
<1>1. 0 \in Half
  BY SbaAssumption DEF Half
<1>2. SbcsReset \in Sbcs
  BY DEF SbcsReset, Sbcs
<1> QED BY <1>1, <1>2, SbaAssumption DEF DmReset, DmState

\* The model's autoincrement stays in range.
LEMMA ModelIncrementTyped ==
    ASSUME TypeOK, NEW a \in Half, SbaAutoincrement(a)
    PROVE  sbaddress0' \in Half /\ sbaddress1' \in Half
<1> DEFINE n == sbaddress1 * Span + a + (IF sbcs.sbautoincrement THEN 1 ELSE 0)
<1>1. Span \in Nat \ {0} /\ sbaddress1 \in Nat /\ a \in Nat /\ sbaddress1 \in Half
  BY SbaAssumption DEF TypeOK, Half
<1>2. n \in Nat
  <2>1. sbaddress1 * Span \in Nat
    BY <1>1
  <2> QED BY <1>1, <2>1
<1>3. sbaddress0' = n % Span /\ sbaddress1' = IF Wide THEN (n \div Span) % Span ELSE sbaddress1
  BY DEF SbaAutoincrement
<1> HIDE DEF n
<1>4. n % Span \in 0 .. Span - 1 /\ n \div Span \in Nat
  BY <1>1, <1>2, Decomposition
<1>5. (n \div Span) % Span \in 0 .. Span - 1
  BY <1>1, <1>4, Decomposition
<1> QED BY <1>1, <1>3, <1>4, <1>5 DEF Half

\* The DM's autoincrement stays in range, and moves nothing but the address.
LEMMA IncrementKeeps ==
    ASSUME NEW d \in DmState
    PROVE  /\ DmIncrement(d) \in DmState
           /\ DmIncrement(d).sbcs = d.sbcs
           /\ DmIncrement(d).data0 = d.data0 /\ DmIncrement(d).data1 = d.data1
           /\ DmIncrement(d).mem = d.mem
           /\ DmIncrement(d).configured = d.configured /\ DmIncrement(d).fresh = d.fresh
<1>1. d.address0 + 1 \in Nat /\ d.address1 + 1 \in Nat /\ Span \in Nat \ {0}
  BY SbaAssumption DEF DmState, Half
<1>2. (d.address0 + 1) % Span \in Half /\ (d.address1 + 1) % Span \in Half
  BY <1>1, Decomposition DEF Half
<1> QED BY <1>2 DEF DmIncrement, DmState

\* Every bus address is an address of the memory.
LEMMA BusAddressTyped ==
    ASSUME NEW d \in DmState
    PROVE  BusAddress(d) \in Half \X Half
BY ResetValues DEF BusAddress, DmState

\* A bus read fills sbdata and then increments, or faults and does neither.
LEMMA BusReadFacts ==
    ASSUME NEW d \in DmState, NEW f \in BusRead(d)
    PROVE  /\ f \in DmState
           /\ "fault" \notin Liberties => \E e \in DmState :
                /\ f = DmIncrement(e)
                /\ e.address0 = d.address0 /\ e.address1 = d.address1
                /\ e.sbcs = d.sbcs /\ e.mem = d.mem /\ e.configured = d.configured
                /\ e.fresh => e.data0 = d.mem[BusAddress(d)]
<1>1. PICK u \in Values :
        \/ MayFault(d) /\ f = [d EXCEPT !.error = TRUE, !.data1 = u, !.fresh = FALSE]
        \/ f = DmIncrement([d EXCEPT !.data0 = d.mem[BusAddress(d)], !.data1 = u, !.fresh = TRUE])
  BY DEF BusRead
<1>2. CASE MayFault(d) /\ f = [d EXCEPT !.error = TRUE, !.data1 = u, !.fresh = FALSE]
  <2>1. /\ f \in DmState /\ f.address0 = d.address0 /\ f.address1 = d.address1
        /\ f.sbcs = d.sbcs /\ f.mem = d.mem /\ f.configured = d.configured /\ ~f.fresh
    BY <1>2 DEF DmState
  <2>2. "fault" \notin Liberties => f = DmIncrement(f)
    BY <1>2, <2>1 DEF MayFault, DmIncrement
  <2> QED BY <2>1, <2>2
<1>3. CASE f = DmIncrement([d EXCEPT !.data0 = d.mem[BusAddress(d)], !.data1 = u, !.fresh = TRUE])
  <2> DEFINE e == [d EXCEPT !.data0 = d.mem[BusAddress(d)], !.data1 = u, !.fresh = TRUE]
  <2>1. d.mem[BusAddress(d)] \in Values
    BY BusAddressTyped DEF DmState
  <2>2. /\ e \in DmState
        /\ e.address0 = d.address0 /\ e.address1 = d.address1
        /\ e.sbcs = d.sbcs /\ e.mem = d.mem /\ e.configured = d.configured
        /\ e.data0 = d.mem[BusAddress(d)]
    BY <2>1 DEF DmState
  <2>3. f = DmIncrement(e)
    BY <1>3
  <2> HIDE DEF e
  <2> QED BY <2>2, <2>3, IncrementKeeps
<1> QED BY <1>1, <1>2, <1>3

\* f is what a write of v that reaches memory makes of d.
Stored(d, v, f) ==
    \E e \in DmState :
       /\ f = DmIncrement(e)
       /\ e.address0 = d.address0 /\ e.address1 = d.address1
       /\ e.sbcs = d.sbcs /\ e.data1 = d.data1 /\ e.configured = d.configured /\ e.fresh = FALSE
       /\ e.mem = [d.mem EXCEPT ![BusAddress(d)] = v]

\* A bus write stores sbdata0 and then increments, or faults.
LEMMA BusWriteFacts ==
    ASSUME NEW d \in DmState, NEW v \in Values, NEW f \in BusWrite(d, v)
    PROVE  f \in DmState /\ ("fault" \notin Liberties => Stored(d, v, f))
<1> DEFINE e == [d EXCEPT !.data0 = v, !.mem[BusAddress(d)] = v, !.fresh = FALSE]
<1>1. \/ "fault" \in Liberties /\ f = [d EXCEPT !.error = TRUE, !.fresh = FALSE]
      \/ f = DmIncrement(e)
  BY DEF BusWrite
<1>2. BusAddress(d) \in Half \X Half
  BY BusAddressTyped
<1>3. /\ e \in DmState
      /\ e.address0 = d.address0 /\ e.address1 = d.address1
      /\ e.sbcs = d.sbcs /\ e.data1 = d.data1 /\ e.configured = d.configured /\ e.fresh = FALSE
      /\ e.mem = [d.mem EXCEPT ![BusAddress(d)] = v]
  BY <1>2 DEF DmState
<1> HIDE DEF e
<1>4. CASE f = DmIncrement(e)
  BY <1>3, <1>4, IncrementKeeps DEF Stored
<1>5. CASE "fault" \in Liberties /\ f = [d EXCEPT !.error = TRUE, !.fresh = FALSE]
  BY <1>5 DEF DmState
<1> QED BY <1>1, <1>4, <1>5

\* An armed read keeps the model's types.
LEMMA ArmTyped ==
    ASSUME TypeOK, NEW a \in Half, ArmThenIncrement(a)
    PROVE  /\ sbaddress0' \in Half /\ sbaddress1' \in Half
           /\ sbdata0_pending' \in Values \cup {Unknown} /\ sbdata1' \in Values \cup {Unknown}
<1>1. shadow_mem[a] \in Values \cup {Unknown}
  BY DEF TypeOK
<1> QED BY <1>1, ModelIncrementTyped DEF ArmThenIncrement, SbaArmRead

\* Every access, bus event and reset keeps the types.
LEMMA NextTypeOK == ASSUME TypeOK, [Next]_vars PROVE TypeOK'
<1>types. dm \in DmState /\ sbaddress0 \in Half /\ sbaddress1 \in Half
  BY DEF TypeOK
<1>1. CASE Activate \/ UNCHANGED vars
  BY <1>1 DEF Activate, vars, model, TypeOK
<1>2. CASE ResetDm
  <2>1. dm' \in DmState
    BY <1>types, <1>2, ResetValues DEF ResetDm, DmState
  <2> QED BY <1>2, <2>1, ResetValues, SbaAssumption DEF ResetDm, TypeOK
<1>3. CASE ReadSbdata0
  <2>1. dm' \in DmState
    BY <1>types, <1>3, BusReadFacts DEF ReadSbdata0
  <2>2. /\ sbaddress0' \in Half /\ sbaddress1' \in Half
        /\ sbdata0_pending' \in Values \cup {Unknown} /\ sbdata1' \in Values \cup {Unknown}
    <3>1. CASE sbcs.sbreadondata
      BY <1>types, <1>3, <3>1, ArmTyped DEF ReadSbdata0
    <3>2. CASE ~sbcs.sbreadondata
      BY <1>3, <3>2 DEF ReadSbdata0, TypeOK
    <3> QED BY <3>1, <3>2
  <2>3. mismatch' \in BOOLEAN
    BY <1>3 DEF ReadSbdata0
  <2> QED BY <1>3, <2>1, <2>2, <2>3 DEF ReadSbdata0, TypeOK
<1>4. CASE ReadOther
  <2>1. mismatch' \in BOOLEAN
    BY <1>4 DEF ReadOther
  <2> QED BY <1>4, <2>1 DEF ReadOther, model, TypeOK
<1>5. ASSUME NEW s \in Sbcs, NEW clear \in BOOLEAN, WriteSbcs(s, clear) PROVE TypeOK'
  <2>1. dm' \in DmState
    BY <1>5, <1>types DEF WriteSbcs, DmState
  <2>2. sbcs_read_on_addr_armed' \in BOOLEAN
    BY <1>5 DEF WriteSbcs, Sbcs
  <2> QED BY <1>5, <2>1, <2>2 DEF WriteSbcs, TypeOK
<1>6. ASSUME NEW a \in Half, WriteSbaddress0(a) PROVE TypeOK'
  <2>1. [dm EXCEPT !.address0 = a] \in DmState
    BY <1>types DEF DmState
  <2>2. dm' \in DmState
    BY <1>6, <2>1, BusReadFacts DEF WriteSbaddress0
  <2>3. /\ sbaddress0' \in Half /\ sbaddress1' \in Half
        /\ sbdata0_pending' \in Values \cup {Unknown} /\ sbdata1' \in Values \cup {Unknown}
    <3>1. CASE sbcs_read_on_addr_armed
      BY <1>6, <3>1, ArmTyped DEF WriteSbaddress0
    <3>2. CASE ~sbcs_read_on_addr_armed
      BY <1>6, <3>2 DEF WriteSbaddress0, TypeOK
    <3> QED BY <3>1, <3>2
  <2> QED BY <1>6, <2>2, <2>3 DEF WriteSbaddress0, TypeOK
<1>7. ASSUME NEW a \in Half, WriteSbaddress1(a) PROVE TypeOK'
  BY <1>7, <1>types DEF WriteSbaddress1, TypeOK, DmState
<1>8. ASSUME NEW v \in Values, WriteSbdata0(v) PROVE TypeOK'
  <2>1. dm' \in DmState
    BY <1>8, <1>types, BusWriteFacts DEF WriteSbdata0
  <2>2. sbaddress0' \in Half /\ sbaddress1' \in Half
    BY <1>8, <1>types, ModelIncrementTyped DEF WriteSbdata0
  <2> QED BY <1>8, <1>types, <2>1, <2>2 DEF WriteSbdata0, TypeOK
<1>9. ASSUME NEW v \in Values, WriteSbdata1(v) PROVE TypeOK'
  BY <1>9, <1>types DEF WriteSbdata1, TypeOK, DmState
<1> QED BY <1>1, <1>2, <1>3, <1>4, <1>5, <1>6, <1>7, <1>8, <1>9 DEF Next

\* The state a debugger first finds.
LEMMA InitFacts ==
    ASSUME Init
    PROVE  /\ TypeOK /\ sbcs = dm.sbcs /\ BurstInStep /\ MemoryShadowTrue /\ NoFalseMismatch
           /\ sbcs = SbcsReset /\ dm.data0 = 0 /\ dm.data1 = 0 /\ ~dm.configured
<1>1. PICK mem \in [Half \X Half -> Values] : dm = DmReset(mem)
  BY DEF Init
<1>2. dm \in DmState /\ dm.sbcs = SbcsReset /\ dm.address0 = 0 /\ dm.address1 = 0
      /\ dm.data0 = 0 /\ dm.data1 = 0 /\ ~dm.configured
  BY <1>1, ResetValues
<1>3. TypeOK
  BY <1>2, ResetValues, SbaAssumption DEF Init, TypeOK
<1>4. MemoryShadowTrue
  BY DEF Init, MemoryShadowTrue
<1> QED BY <1>2, <1>3, <1>4 DEF Init, BurstInStep, NoFalseMismatch

\* The shadow and the DM keep their types under every use of the bus: no address
\* of a burst leaves sbaddress0 or sbaddress1.
THEOREM TypeCorrect == Spec => []TypeOK
<1>1. Init => TypeOK
  BY InitFacts
<1> QED BY <1>1, NextTypeOK, PTL DEF Spec

-----------------------------------------------------------------------------
(* The addresses.  The arm bit survives a DM reset, so the model may arm a *)
(* read that the DM does not make; but the reset also cleared              *)
(* sbautoincrement, so the address does not move.                          *)

\* After the first write to sbcs the arm bit follows sbreadonaddr; until then sbcs
\* has its reset value, whatever the arm bit is.
StepInv ==
    /\ sbcs = dm.sbcs
    /\ BurstInStep
    /\ dm.configured => sbcs_read_on_addr_armed = sbcs.sbreadonaddr
    /\ ~dm.configured => sbcs = SbcsReset

\* The autoincrement of the model and that of the DM, started at the same
\* address, end at the same address.
LEMMA IncrementAgrees ==
    ASSUME TypeOK, NEW d \in DmState, NEW a \in Half, d.sbcs = sbcs,
           d.address0 = a, Wide => d.address1 = sbaddress1, SbaAutoincrement(a)
    PROVE  /\ DmIncrement(d) \in DmState
           /\ sbaddress0' \in Half /\ sbaddress1' \in Half
           /\ sbaddress0' = DmIncrement(d).address0
           /\ Wide => sbaddress1' = DmIncrement(d).address1
<1> USE SbaAssumption DEF Half
<1>1. sbaddress1 \in Half /\ a \in Half /\ d.address1 \in Half
  BY DEF TypeOK, DmState
<1>2. /\ (sbaddress1 * Span + a) % Span = a
      /\ ((sbaddress1 * Span + a) \div Span) % Span = sbaddress1
      /\ (sbaddress1 * Span + a + 1) % Span = (a + 1) % Span
      /\ ((sbaddress1 * Span + a + 1) \div Span) % Span =
             IF a = Span - 1 THEN (sbaddress1 + 1) % Span ELSE sbaddress1
  <2>1. Span \in Nat \ {0} /\ sbaddress1 \in 0 .. Span - 1 /\ a \in 0 .. Span - 1
    BY <1>1, SbaAssumption
  <2>2. Carries(Span, sbaddress1, a)
    BY <2>1, CarryLemma, Zenon
  <2> QED BY <2>2 DEF Carries
<1>3. (a + 1) % Span \in Half /\ (sbaddress1 + 1) % Span \in Half
      /\ (d.address1 + 1) % Span \in Half
  <2>1. a + 1 \in Nat /\ sbaddress1 + 1 \in Nat /\ d.address1 + 1 \in Nat
    BY <1>1
  <2> QED BY <2>1, Decomposition
<1>4. sbaddress1 * Span + a + 0 = sbaddress1 * Span + a
  BY <1>1, SMT
<1>5. CASE sbcs.sbautoincrement
  <2>1. /\ sbaddress0' = (a + 1) % Span
        /\ sbaddress1' = IF Wide THEN (IF a = Span - 1 THEN (sbaddress1 + 1) % Span ELSE sbaddress1)
                                 ELSE sbaddress1
    BY <1>2, <1>5 DEF SbaAutoincrement
  <2>2. DmIncrement(d) = [d EXCEPT !.address0 = (a + 1) % Span,
                  !.address1 = IF a = Span - 1 /\ Wide THEN (d.address1 + 1) % Span
                                                     ELSE d.address1]
    BY <1>5 DEF DmIncrement, DmState
  <2> QED BY <1>1, <1>3, <2>1, <2>2 DEF DmState
<1>6. CASE ~sbcs.sbautoincrement
  <2>1. sbaddress0' = a /\ sbaddress1' = sbaddress1
    BY <1>2, <1>4, <1>6 DEF SbaAutoincrement
  <2>2. DmIncrement(d) = d
    BY <1>6 DEF DmIncrement
  <2> QED BY <1>1, <2>1, <2>2
<1> QED BY <1>5, <1>6

\* A bus read that both start at the same address.
LEMMA BusReadAgrees ==
    ASSUME "fault" \notin Liberties, TypeOK, NEW d \in DmState, NEW a \in Half, d.sbcs = sbcs,
           d.address0 = a, Wide => d.address1 = sbaddress1,
           ArmThenIncrement(a), dm' \in BusRead(d)
    PROVE  /\ BurstInStep'
           /\ dm'.fresh => dm'.data0 = d.mem[BusAddress(d)]
           /\ sbdata0_pending' = shadow_mem[a] /\ sbdata1' = Unknown
           /\ dm'.sbcs = d.sbcs /\ dm'.mem = d.mem /\ dm'.configured = d.configured
<1>1. PICK e \in DmState :
         /\ dm' = DmIncrement(e)
         /\ e.address0 = d.address0 /\ e.address1 = d.address1
         /\ e.sbcs = d.sbcs /\ e.mem = d.mem /\ e.configured = d.configured
         /\ e.fresh => e.data0 = d.mem[BusAddress(d)]
  BY BusReadFacts
<1>2. SbaAutoincrement(a) /\ SbaArmRead(a)
  BY DEF ArmThenIncrement
<1>3. BurstInStep'
  BY <1>1, <1>2, IncrementAgrees DEF BurstInStep
<1>4. /\ dm'.data0 = e.data0 /\ dm'.fresh = e.fresh /\ dm'.sbcs = e.sbcs /\ dm'.mem = e.mem
      /\ dm'.configured = e.configured
  BY <1>1, IncrementKeeps
<1> QED BY <1>1, <1>2, <1>3, <1>4 DEF SbaArmRead

\* What a write to sbaddress0 hands to the bus.
LEMMA AddressWritten ==
    ASSUME TypeOK, NEW a \in Half
    PROVE  LET d == [dm EXCEPT !.address0 = a]
           IN  /\ d \in DmState /\ d.sbcs = dm.sbcs /\ d.address0 = a /\ d.address1 = dm.address1
               /\ d.mem = dm.mem /\ d.configured = dm.configured /\ d.data0 = dm.data0
               /\ d.data1 = dm.data1 /\ d.fresh = dm.fresh
BY DEF TypeOK, DmState

\* Every step keeps the addresses and the control word in step.
LEMMA NextStepInv ==
    ASSUME "fault" \notin Liberties, TypeOK, StepInv, [Next]_vars
    PROVE  StepInv'
<1>types. /\ dm \in DmState /\ sbaddress0 \in Half /\ sbcs = dm.sbcs /\ sbaddress0 = dm.address0
          /\ Wide => sbaddress1 = dm.address1
  BY DEF TypeOK, StepInv, BurstInStep
<1>quiet. ASSUME ~dm.configured PROVE ~sbcs.sbreadonaddr /\ ~sbcs.sbautoincrement
  <2>1. sbcs = SbcsReset
    BY <1>quiet DEF StepInv
  <2> QED BY <2>1 DEF SbcsReset
<1>1. CASE Activate \/ ReadOther \/ UNCHANGED vars
  BY <1>1 DEF Activate, ReadOther, vars, model, StepInv, BurstInStep
<1>2. CASE ResetDm
  <2>1. dm' = DmReset(dm.mem) /\ dm.mem \in [Half \X Half -> Values]
    BY <1>types, <1>2 DEF ResetDm, DmState
  <2>2. dm'.sbcs = SbcsReset /\ dm'.address0 = 0 /\ dm'.address1 = 0 /\ ~dm'.configured
    BY <2>1, ResetValues
  <2> QED BY <1>2, <2>2 DEF ResetDm, StepInv, BurstInStep
<1>3. CASE ReadSbdata0
  <2>1. CASE sbcs.sbreadondata
    <3>1. dm' \in BusRead(dm) /\ ArmThenIncrement(sbaddress0)
      BY <1>3, <1>types, <2>1 DEF ReadSbdata0
    <3>2. BurstInStep' /\ dm'.sbcs = dm.sbcs /\ dm'.configured = dm.configured
      BY <1>types, <3>1, BusReadAgrees
    <3> QED BY <1>3, <3>2 DEF ReadSbdata0, StepInv
  <2>2. CASE ~sbcs.sbreadondata
    BY <1>3, <1>types, <2>2 DEF ReadSbdata0, StepInv, BurstInStep
  <2> QED BY <2>1, <2>2
<1>4. ASSUME NEW s \in Sbcs, NEW clear \in BOOLEAN, WriteSbcs(s, clear) PROVE StepInv'
  <2>1. /\ dm'.sbcs = s /\ dm'.address0 = dm.address0 /\ dm'.address1 = dm.address1
        /\ dm'.configured
    BY <1>4, <1>types DEF WriteSbcs, DmState
  <2> QED BY <1>4, <1>types, <2>1 DEF WriteSbcs, StepInv, BurstInStep
<1>5. ASSUME NEW a \in Half, WriteSbaddress0(a) PROVE StepInv'
  <2> DEFINE d == [dm EXCEPT !.address0 = a]
  <2>1. /\ d \in DmState /\ d.sbcs = dm.sbcs /\ d.address0 = a /\ d.address1 = dm.address1
        /\ d.configured = dm.configured
    BY AddressWritten
  <2>2. CASE sbcs.sbreadonaddr
    <3>1. sbcs_read_on_addr_armed
      <4>1. dm.configured
        BY <1>quiet, <2>2
      <4> QED BY <2>2, <4>1 DEF StepInv
    <3>2. dm' \in BusRead(d) /\ ArmThenIncrement(a)
      BY <1>5, <1>types, <2>2, <3>1 DEF WriteSbaddress0
    <3> HIDE DEF d
    <3>3. BurstInStep' /\ dm'.sbcs = d.sbcs /\ dm'.configured = d.configured
      BY <1>types, <2>1, <3>2, BusReadAgrees
    <3> QED BY <1>5, <2>1, <3>3 DEF WriteSbaddress0, StepInv
  <2>3. CASE ~sbcs.sbreadonaddr
    <3>1. dm' = d
      BY <1>5, <1>types, <2>3 DEF WriteSbaddress0
    <3> HIDE DEF d
    <3>2. sbaddress0' = a /\ (Wide => sbaddress1' = d.address1)
      <4>1. CASE ~sbcs_read_on_addr_armed
        BY <1>5, <1>types, <2>1, <4>1 DEF WriteSbaddress0
      <4>2. CASE sbcs_read_on_addr_armed
        <5>1. DmIncrement(d) = d
          <6>1. ~dm.configured
            BY <2>3, <4>2 DEF StepInv
          <6> QED BY <1>types, <1>quiet, <2>1, <6>1 DEF DmIncrement
        <5>2. SbaAutoincrement(a)
          BY <1>5, <4>2 DEF WriteSbaddress0, ArmThenIncrement
        <5> QED BY <1>types, <2>1, <5>1, <5>2, IncrementAgrees
      <4> QED BY <4>1, <4>2
    <3> QED BY <1>5, <2>1, <3>1, <3>2 DEF WriteSbaddress0, StepInv, BurstInStep
  <2> QED BY <2>2, <2>3
<1>6. ASSUME NEW a \in Half, WriteSbaddress1(a) PROVE StepInv'
  BY <1>6, <1>types DEF WriteSbaddress1, StepInv, BurstInStep, DmState
<1>7. ASSUME NEW v \in Values, WriteSbdata0(v) PROVE StepInv'
  <2>1. PICK e \in DmState :
           /\ dm' = DmIncrement(e)
           /\ e.address0 = dm.address0 /\ e.address1 = dm.address1
           /\ e.sbcs = dm.sbcs /\ e.configured = dm.configured
    <3>1. Stored(dm, v, dm')
      BY <1>7, <1>types, BusWriteFacts DEF WriteSbdata0
    <3> QED BY <3>1 DEF Stored
  <2>2. SbaAutoincrement(sbaddress0)
    BY <1>7 DEF WriteSbdata0
  <2>3. BurstInStep'
    BY <1>types, <2>1, <2>2, IncrementAgrees DEF BurstInStep
  <2>4. dm'.sbcs = dm.sbcs /\ dm'.configured = dm.configured
    BY <2>1, IncrementKeeps
  <2> QED BY <1>7, <2>3, <2>4 DEF WriteSbdata0, StepInv
<1>8. ASSUME NEW v \in Values, WriteSbdata1(v) PROVE StepInv'
  BY <1>8, <1>types DEF WriteSbdata1, StepInv, BurstInStep, DmState
<1> QED BY <1>1, <1>2, <1>3, <1>4, <1>5, <1>6, <1>7, <1>8 DEF Next

\* predictor._sba_autoincrement: through every burst, the carry included, the
\* model's address is the DM's - also for a debugger that reads sbdata0 back,
\* works above sbaddress0 or writes sbaddress0 over a stale arm bit, and through
\* reads that fault, if no access that faults is a write or autoincremented.
THEOREM BurstInStepHolds == "fault" \notin Liberties => (Spec => []BurstInStep)
<1> SUFFICES ASSUME "fault" \notin Liberties PROVE Spec => []BurstInStep
  OBVIOUS
<1>1. Init => StepInv
  BY InitFacts DEF StepInv
<1>2. TypeOK /\ StepInv /\ [Next]_vars => StepInv'
  BY NextStepInv
<1>3. StepInv => BurstInStep
  BY DEF StepInv
<1> QED BY <1>1, <1>2, <1>3, TypeCorrect, PTL DEF Spec

-----------------------------------------------------------------------------
(* The memory.                                                             *)

\* Only a write to sbdata0 touches the memory or its shadow.
LEMMA NextMemory ==
    ASSUME Liberties \cap {"upper", "fault"} = {}, TypeOK, StepInv, MemoryShadowTrue, [Next]_vars
    PROVE  MemoryShadowTrue'
<1>types. dm \in DmState /\ sbaddress0 \in Half /\ sbaddress0 = dm.address0
  BY DEF TypeOK, StepInv, BurstInStep
<1>1. CASE Activate \/ ReadOther \/ UNCHANGED vars
  BY <1>1 DEF Activate, ReadOther, vars, model, MemoryShadowTrue
<1>2. ASSUME shadow_mem' = shadow_mem, dm'.mem = dm.mem PROVE MemoryShadowTrue'
  BY <1>2 DEF MemoryShadowTrue
<1>3. CASE ResetDm
  <2>1. dm'.mem = dm.mem
    BY <1>types, <1>3, ResetValues DEF ResetDm, DmState
  <2> QED BY <1>2, <1>3, <2>1 DEF ResetDm
<1>4. ASSUME NEW d \in DmState, d.mem = dm.mem, dm' \in BusRead(d) PROVE dm'.mem = dm.mem
  BY <1>4, BusReadFacts, IncrementKeeps
<1>5. CASE ReadSbdata0
  <2>1. dm'.mem = dm.mem
    BY <1>types, <1>4, <1>5 DEF ReadSbdata0
  <2> QED BY <1>2, <1>5, <2>1 DEF ReadSbdata0
<1>6. ASSUME NEW a \in Half, WriteSbaddress0(a) PROVE MemoryShadowTrue'
  <2>1. dm'.mem = dm.mem
    BY <1>4, <1>6, AddressWritten DEF WriteSbaddress0
  <2> QED BY <1>2, <1>6, <2>1 DEF WriteSbaddress0
<1>7. CASE \/ \E s \in Sbcs, clear \in BOOLEAN : WriteSbcs(s, clear)
           \/ \E a \in Half : WriteSbaddress1(a)
           \/ \E v \in Values : WriteSbdata1(v)
  <2>1. dm'.mem = dm.mem /\ shadow_mem' = shadow_mem
    BY <1>types, <1>7 DEF WriteSbcs, WriteSbaddress1, WriteSbdata1, DmState
  <2> QED BY <1>2, <2>1
<1>8. ASSUME NEW v \in Values, WriteSbdata0(v) PROVE MemoryShadowTrue'
  <2>1. BusAddress(dm) = <<0, sbaddress0>>
    BY <1>8, <1>types DEF WriteSbdata0, MayAccess, BusAddress
  <2>2. dm'.mem = [dm.mem EXCEPT ![<<0, sbaddress0>>] = v]
    <3>1. PICK e \in DmState : dm' = DmIncrement(e) /\ e.mem = [dm.mem EXCEPT ![BusAddress(dm)] = v]
      <4>1. Stored(dm, v, dm')
        BY <1>8, <1>types, BusWriteFacts DEF WriteSbdata0
      <4> QED BY <4>1 DEF Stored
    <3> QED BY <2>1, <3>1, IncrementKeeps
  <2>3. /\ shadow_mem' = [shadow_mem EXCEPT ![sbaddress0] = v]
        /\ shadow_mem \in [Half -> Values \cup {Unknown}]
        /\ dm.mem \in [Half \X Half -> Values]
    BY <1>8, <1>types DEF WriteSbdata0, TypeOK, DmState
  <2>4. ASSUME NEW b \in Half PROVE shadow_mem'[b] \in {Unknown, dm'.mem[<<0, b>>]}
    <3>1. <<0, b>> \in Half \X Half /\ (<<0, b>> = <<0, sbaddress0>> <=> b = sbaddress0)
      BY ResetValues
    <3>2. shadow_mem[b] \in {Unknown, dm.mem[<<0, b>>]}
      BY DEF MemoryShadowTrue
    <3> QED BY <1>types, <2>2, <2>3, <3>1, <3>2
  <2> QED BY <2>4 DEF MemoryShadowTrue
<1> QED BY <1>1, <1>3, <1>5, <1>6, <1>7, <1>8 DEF Next

\* predictor._write_sbdata0: a word the shadow holds is the word in memory, for a
\* debugger that stays below 2^32 and whose writes do not fault, whatever reads do.
THEOREM MemoryShadowTrueHolds ==
    Liberties \cap {"upper", "fault"} = {} => (Spec => []MemoryShadowTrue)
<1> SUFFICES ASSUME Liberties \cap {"upper", "fault"} = {} PROVE Spec => []MemoryShadowTrue
  OBVIOUS
<1>1. Init => StepInv /\ MemoryShadowTrue
  BY InitFacts DEF StepInv
<1>2. TypeOK /\ StepInv /\ MemoryShadowTrue /\ [Next]_vars => StepInv' /\ MemoryShadowTrue'
  BY NextStepInv, NextMemory
<1> QED BY <1>1, <1>2, TypeCorrect, PTL DEF Spec

-----------------------------------------------------------------------------
(* The comparison.                                                         *)

\* What the model still claims of sbdata is what the DM holds.
ClaimInv ==
    /\ sbdata1 \in {Unknown, dm.data1}
    /\ dm.fresh => sbdata0_pending \in {Unknown, dm.data0}
    /\ NoFalseMismatch

\* Every step keeps the claims on sbdata true, and so the comparisons clean.
LEMMA NextClaim ==
    ASSUME Liberties = {}, TypeOK, StepInv, MemoryShadowTrue, ClaimInv, [Next]_vars
    PROVE  ClaimInv'
<1>types. /\ dm \in DmState /\ sbaddress0 \in Half /\ sbcs = dm.sbcs /\ sbaddress0 = dm.address0
          /\ Wide => sbaddress1 = dm.address1
  BY DEF TypeOK, StepInv, BurstInStep
\* A read both make at the same address below 2^32 claims what the memory holds.
<1>read. ASSUME NEW d \in DmState, NEW a \in Half, d.sbcs = sbcs, d.address0 = a, d.mem = dm.mem,
             Wide => d.address1 = sbaddress1, MayAccess(d), ArmThenIncrement(a), dm' \in BusRead(d)
      PROVE  sbdata1' = Unknown /\ (dm'.fresh => sbdata0_pending' \in {Unknown, dm'.data0})
  <2>1. BusAddress(d) = <<0, a>>
    BY <1>read DEF MayAccess, BusAddress
  <2>2. /\ dm'.fresh => dm'.data0 = d.mem[<<0, a>>]
        /\ sbdata0_pending' = shadow_mem[a] /\ sbdata1' = Unknown
    BY <1>read, <2>1, BusReadAgrees
  <2>3. shadow_mem[a] \in {Unknown, dm.mem[<<0, a>>]}
    BY DEF MemoryShadowTrue
  <2> QED BY <1>read, <2>2, <2>3
<1>1. CASE Activate \/ UNCHANGED vars
  BY <1>1 DEF Activate, vars, model, ClaimInv, NoFalseMismatch
<1>2. CASE ResetDm
  <2>1. dm'.data0 = 0 /\ dm'.data1 = 0
    BY <1>2 DEF ResetDm, DmReset
  <2> QED BY <1>2, <2>1 DEF ResetDm, ClaimInv, NoFalseMismatch
<1>3. CASE ReadSbdata0
  <2>1. dm.fresh /\ ~mismatch'
    BY <1>3 DEF ReadSbdata0, ClaimInv, NoFalseMismatch
  <2>2. CASE sbcs.sbreadondata
    <3>1. MayAccess(dm) /\ dm' \in BusRead(dm) /\ ArmThenIncrement(sbaddress0)
      BY <1>3, <1>types, <2>2 DEF ReadSbdata0
    <3>2. sbdata1' = Unknown /\ (dm'.fresh => sbdata0_pending' \in {Unknown, dm'.data0})
      BY <1>types, <1>read, <3>1
    <3> QED BY <2>1, <3>2 DEF ClaimInv, NoFalseMismatch
  <2>3. CASE ~sbcs.sbreadondata
    BY <1>3, <1>types, <2>1, <2>3 DEF ReadSbdata0, ClaimInv, NoFalseMismatch
  <2> QED BY <2>2, <2>3
<1>4. CASE ReadOther
  <2>1. Predicts
    BY <1>types DEF Predicts, ClaimInv
  <2> QED BY <1>4, <2>1 DEF ReadOther, model, ClaimInv, NoFalseMismatch
<1>5. ASSUME NEW s \in Sbcs, NEW clear \in BOOLEAN, WriteSbcs(s, clear) PROVE ClaimInv'
  <2>1. dm'.data0 = dm.data0 /\ dm'.data1 = dm.data1 /\ dm'.fresh = dm.fresh
    BY <1>5, <1>types DEF WriteSbcs, DmState
  <2> QED BY <1>5, <2>1 DEF WriteSbcs, ClaimInv, NoFalseMismatch
<1>6. ASSUME NEW a \in Half, WriteSbaddress0(a) PROVE ClaimInv'
  <2> DEFINE d == [dm EXCEPT !.address0 = a]
  <2>1. /\ d \in DmState /\ d.sbcs = dm.sbcs /\ d.address0 = a /\ d.address1 = dm.address1
        /\ d.mem = dm.mem /\ d.data0 = dm.data0 /\ d.data1 = dm.data1 /\ d.fresh = dm.fresh
    BY AddressWritten
  <2>2. sbcs_read_on_addr_armed = sbcs.sbreadonaddr /\ ~mismatch'
    BY <1>6 DEF WriteSbaddress0, StepInv, ClaimInv, NoFalseMismatch
  <2>3. CASE sbcs.sbreadonaddr
    <3>1. MayAccess(d) /\ dm' \in BusRead(d) /\ ArmThenIncrement(a)
      BY <1>6, <1>types, <2>2, <2>3 DEF WriteSbaddress0
    <3> HIDE DEF d
    <3>2. sbdata1' = Unknown /\ (dm'.fresh => sbdata0_pending' \in {Unknown, dm'.data0})
      BY <1>types, <1>read, <2>1, <3>1
    <3> QED BY <2>2, <3>2 DEF ClaimInv, NoFalseMismatch
  <2>4. CASE ~sbcs.sbreadonaddr
    <3>1. dm' = d /\ UNCHANGED <<sbdata0_pending, sbdata1>>
      BY <1>6, <1>types, <2>2, <2>4 DEF WriteSbaddress0
    <3> HIDE DEF d
    <3> QED BY <2>1, <2>2, <3>1 DEF ClaimInv, NoFalseMismatch
  <2> QED BY <2>3, <2>4
<1>7. ASSUME NEW a \in Half, WriteSbaddress1(a) PROVE ClaimInv'
  BY <1>7, <1>types DEF WriteSbaddress1, ClaimInv, NoFalseMismatch, DmState
<1>8. ASSUME NEW v \in Values, WriteSbdata0(v) PROVE ClaimInv'
  <2>1. dm'.data1 = dm.data1 /\ dm'.fresh = FALSE
    <3>1. PICK e \in DmState : dm' = DmIncrement(e) /\ e.data1 = dm.data1 /\ e.fresh = FALSE
      <4>1. Stored(dm, v, dm')
        BY <1>8, <1>types, BusWriteFacts DEF WriteSbdata0
      <4> QED BY <4>1 DEF Stored
    <3> QED BY <3>1, IncrementKeeps
  <2> QED BY <1>8, <2>1 DEF WriteSbdata0, ClaimInv, NoFalseMismatch
<1>9. ASSUME NEW v \in Values, WriteSbdata1(v) PROVE ClaimInv'
  BY <1>9, <1>types DEF WriteSbdata1, ClaimInv, NoFalseMismatch, DmState
<1> QED BY <1>1, <1>2, <1>3, <1>4, <1>5, <1>6, <1>7, <1>8, <1>9 DEF Next

\* The inductive invariant of a debugger that takes no liberty.
SbaInv == TypeOK /\ StepInv /\ MemoryShadowTrue /\ ClaimInv

\* The shadow and the DM stay in step along every behaviour of a debugger that
\* takes no liberty.
THEOREM SbaInvariance == Liberties = {} => (Spec => []SbaInv)
<1> SUFFICES ASSUME Liberties = {} PROVE Spec => []SbaInv
  OBVIOUS
<1>1. Init => SbaInv
  BY InitFacts DEF Init, SbaInv, StepInv, ClaimInv
<1>2. SbaInv /\ [Next]_vars => SbaInv'
  BY NextTypeOK, NextStepInv, NextMemory, NextClaim DEF SbaInv
<1> QED BY <1>1, <1>2, PTL DEF Spec

\* dm_checker.check_read_response: no false MODEL_MISMATCH over System Bus
\* Access, for any address width, any words, any bursts, DM resets and any plain
\* reads that fault or find sberror set; the debugger keeps the discipline.
THEOREM SbaNoFalseMismatch == Liberties = {} => (Spec => []NoFalseMismatch)
<1> SUFFICES ASSUME Liberties = {} PROVE Spec => []NoFalseMismatch
  OBVIOUS
<1>1. SbaInv => NoFalseMismatch
  BY DEF SbaInv, ClaimInv
<1> QED BY <1>1, SbaInvariance, PTL
=============================================================================
