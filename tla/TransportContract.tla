-------------------------- MODULE TransportContract --------------------------
(***************************************************************************)
(* What api/transport.py promises a scenario about any DebugTransport:     *)
(* calls are issued one at a time, in order; the target performs each at   *)
(* most once and never a later one before an earlier one; a call returns   *)
(* normally only when the target has performed it.  A call that raises     *)
(* (timeout, closed channel) may or may not have been performed, and may   *)
(* still be.                                                               *)
(***************************************************************************)
EXTENDS Naturals, Sequences

VARIABLES
    issued,     \* number of calls issued so far; a call is its number
    performed,  \* the sequence of calls the target has performed
    pending,    \* the last call has neither returned nor raised
    returned    \* the last call that returned normally, 0 if none

tvars == <<issued, performed, pending, returned>>

TInit == issued = 0 /\ performed = <<>> /\ pending = FALSE /\ returned = 0

Issue ==
    /\ ~pending
    /\ issued' = issued + 1
    /\ pending' = TRUE
    /\ UNCHANGED <<performed, returned>>

\* The channel is already known to be broken: the call raises at once.
IssueAndRaise ==
    /\ ~pending
    /\ issued' = issued + 1
    /\ UNCHANGED <<performed, pending, returned>>

Perform(n) ==
    /\ \A i \in DOMAIN performed : performed[i] < n
    /\ performed' = Append(performed, n)
    /\ UNCHANGED <<issued, pending, returned>>

Return ==
    /\ pending
    /\ \E i \in DOMAIN performed : performed[i] = issued
    /\ pending' = FALSE
    /\ returned' = issued
    /\ UNCHANGED <<issued, performed>>

Raise ==
    /\ pending
    /\ pending' = FALSE
    /\ UNCHANGED <<issued, performed, returned>>

TNext ==
    \/ Issue \/ IssueAndRaise \/ Return \/ Raise
    \/ \E n \in 1 .. issued : Perform(n)

TSpec == TInit /\ [][TNext]_tvars
=============================================================================
