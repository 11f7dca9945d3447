--------------------------- MODULE MCResilientGet ---------------------------
(***************************************************************************)
(* Model checking of ResilientGet: three tasks contend for no semaphore,   *)
(* one slot or two, with one retry each.                                   *)
(***************************************************************************)
EXTENDS ResilientGet, TLC

CONSTANTS t1, t2, t3

MCTasks  == {t1, t2, t3}
MCLimits == {0, 1, 2}

=============================================================================
