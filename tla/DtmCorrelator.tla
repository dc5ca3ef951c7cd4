---------------------------- MODULE DtmCorrelator ----------------------------
(***************************************************************************)
(* dm_checker's DTM correlator on top of the link: every request seen on   *)
(* JTAG goes into jtag_q, every transaction seen on the DMI bus into       *)
(* bus_q, and compare_dtm_dmi pairs them up once a microsecond, by address *)
(* and direction. Every write carries data of its own. A request reaches   *)
(* the bus no earlier than its own scan and before the next accepted one,  *)
(* so t_req >= t is the order of the scans.                                *)
(***************************************************************************)
EXTENDS DmiLink, SequencesExt

CONSTANTS
    CORR_DEPTH,  \* length of the queues
    addr         \* the DMI address of each call, as the client chose it

ASSUME CorrelatorAssumption == CORR_DEPTH \in Nat \ {0} /\ DOMAIN addr = 1 .. MaxCalls

VARIABLES
    jtag_q, bus_q,
    dtm_mismatched,  \* dtm_mismatched # 0
    due              \* a bus transaction came since the correlator last woke up

correlator == <<jtag_q, bus_q, dtm_mismatched, due>>
allVars == <<vars, correlator>>

CorrelatorInit ==
    /\ Init
    /\ jtag_q = << >> /\ bus_q = << >>
    /\ dtm_mismatched = FALSE /\ due = FALSE

\* push_back, and pop_front beyond CORR_DEPTH.
Pushed(q, e) == IF Len(q) = CORR_DEPTH THEN Append(Tail(q), e) ELSE Append(q, e)

\* get_dtm_txns: the requests that are pushed are those that become pending.
GetDtmTxns ==
    jtag_q' = IF pending' \in {NoOp, pending} THEN jtag_q ELSE Pushed(jtag_q, pending')

\* dbg_dmi_monitor and get_dmi_bus_txns: a transaction is published when it
\* is answered. The link takes longer over a scan than the correlator
\* sleeps, so the correlator has looked at the one before.
GetDmiBusTxns ==
    IF performed' = performed THEN UNCHANGED <<bus_q, due>>
    ELSE ~due /\ due' = TRUE /\ bus_q' = Pushed(bus_q, Last(performed'))

LinkStep == Next /\ GetDtmTxns /\ GetDmiBusTxns /\ UNCHANGED dtm_mismatched

Since(b, want) == b.call > want.call \/ (b.call = want.call /\ b.attempt >= want.attempt)

\* The bus transactions compare_dtm_dmi takes for the request.
Hits(want, bus) ==
    {i \in DOMAIN bus : /\ Since(bus[i], want)
                        /\ addr[bus[i].call] = addr[want.call] /\ bus[i].op = want.op}

PairedOnce(s, hit) ==
    [jtag |-> Tail(s.jtag), bus |-> s.bus,
     bad |-> s.bad \/ (s.bus[hit].op = "write" /\ s.bus[hit] # Head(s.jtag))]

\* The request at the head and the transaction are a pair: both leave.
Paired(s, hit) ==
    [jtag |-> Tail(s.jtag), bus |-> RemoveAt(s.bus, hit),
     bad |-> s.bad \/ (s.bus[hit].op = "write" /\ s.bus[hit] # Head(s.jtag))]

\* The queues and the verdict after the turns of the while loop.
Turns ==
    LET turn[n \in 0 .. CORR_DEPTH] ==
            IF n = 0 THEN [jtag |-> jtag_q, bus |-> bus_q, bad |-> dtm_mismatched]
            ELSE LET s == turn[n - 1]
                     hits == Hits(Head(s.jtag), s.bus)
                     hit == CHOOSE i \in hits : \A k \in hits : i <= k
                 IN  IF s.jtag = << >> \/ hits = {} THEN s
                     ELSE Paired(s, hit)
    IN  turn[CORR_DEPTH]

\* compare_dtm_dmi wakes up.
CompareDtmDmi ==
    /\ due /\ due' = FALSE
    /\ jtag_q' = Turns.jtag /\ bus_q' = Turns.bus /\ dtm_mismatched' = Turns.bad
    /\ UNCHANGED vars

CorrelatorNext == LinkStep \/ CompareDtmDmi
CorrelatorSpec == CorrelatorInit /\ [][CorrelatorNext]_allVars
\* A started sequence runs on; the DM may never answer.
CorrelatorFairSpec == CorrelatorSpec /\ WF_allVars(LinkStep /\ Driver)

-----------------------------------------------------------------------------
\* In a run in which the scoreboard has met no busy and no failed scan, and
\* the client has not reset the link, the correlator blames no DTM that
\* carries every write unchanged, and keeps up: it holds at most the last
\* request and the last transaction (dm_checker.sv:320-350).
CorrelatorKeepsUp ==
    ~busy_read /\ ~busy_write /\ ~errors /\ ~provoked /\ ~steered =>
        ~dtm_mismatched /\ Len(jtag_q) <= 2 /\ Len(bus_q) <= 1

\* dm_checker.sv:316-319: "A mismatch here means the DTM's serial-to-parallel
\* translation is wrong" - and the DTM here carries every write unchanged.
MismatchMeansCorruption == ~dtm_mismatched
=============================================================================
