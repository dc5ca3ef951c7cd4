--------------------------- MODULE MCDMInvariants ---------------------------
(***************************************************************************)
(* Two harts, one hartsel that names none, and every dmcontrol word with   *)
(* at most one mutex bit.                                                  *)
(***************************************************************************)
EXTENDS DMInvariants

MCWrites ==
    {f \in [dmactive : BOOLEAN, ndmreset : BOOLEAN, hartreset : BOOLEAN,
            setresethaltreq : BOOLEAN, clrresethaltreq : BOOLEAN,
            ackhavereset : BOOLEAN, haltreq : BOOLEAN, resumereq : BOOLEAN,
            hasel : {FALSE}, hartsel : 0 .. NumHarts] : OneMutexBit(f)}
=============================================================================
