--------------------------- MODULE MCAbstractShadow ---------------------------
(***************************************************************************)
(* A general register, x0 and a trigger CSR; reads and writes of both      *)
(* widths, a Program Buffer run with and without a transfer, the latter    *)
(* with a reserved aarsize, and a register write the DM does not support.  *)
(***************************************************************************)
EXTENDS AbstractShadow

MCCommands ==
    LET Cmd(r, t, w, p, wide) == [accepted |-> TRUE, transfer |-> t, write |-> w,
                                  postexec |-> p, wide |-> wide, regno |-> r]
    IN  {Cmd("gpr", TRUE, w, FALSE, wide) : w, wide \in BOOLEAN}
        \cup {Cmd("gpr", TRUE, FALSE, TRUE, FALSE), Cmd("x0", TRUE, FALSE, FALSE, TRUE),
              Cmd("x0", TRUE, TRUE, FALSE, FALSE),
              Cmd("trigger", TRUE, TRUE, FALSE, FALSE), Cmd("trigger", TRUE, FALSE, FALSE, FALSE),
              [NoCommand EXCEPT !.accepted = FALSE, !.postexec = TRUE],
              [Cmd("gpr", TRUE, TRUE, FALSE, FALSE) EXCEPT !.accepted = FALSE]}
=============================================================================
