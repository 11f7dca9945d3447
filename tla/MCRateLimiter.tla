--------------------------- MODULE MCRateLimiter ---------------------------
(***************************************************************************)
(* Model checking of RateLimiter: two clients behind nginx and one that    *)
(* connects directly, two requests in a window of two ticks.               *)
(***************************************************************************)
EXTENDS RateLimiter, TLC

CONSTANTS c1, c2, c3, nginx, own

MCClients == {c1, c2, c3}
MCHosts   == {nginx, own}
MCHostOf  == (c1 :> nginx) @@ (c2 :> nginx) @@ (c3 :> own)

=============================================================================
