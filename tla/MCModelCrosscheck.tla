-------------------------- MODULE MCModelCrosscheck --------------------------
(***************************************************************************)
(* Two harts, one hartsel that names none; every dmcontrol word with at    *)
(* most one mutex bit, and the one pair TC-HOR-005 writes against that     *)
(* rule (resumereq with hartreset).                                        *)
(***************************************************************************)
EXTENDS ModelCrosscheck

MCWrites ==
    {f \in [dmactive : BOOLEAN, ndmreset : BOOLEAN, hartreset : BOOLEAN,
            setresethaltreq : BOOLEAN, clrresethaltreq : BOOLEAN,
            ackhavereset : BOOLEAN, haltreq : BOOLEAN, resumereq : BOOLEAN,
            hasel : {FALSE}, hartsel : 0 .. NumHarts] :
        \/ OneMutexBit(f)
        \/ f.resumereq /\ f.hartreset /\ ~(f.ackhavereset \/ f.setresethaltreq \/ f.clrresethaltreq)}
=============================================================================
