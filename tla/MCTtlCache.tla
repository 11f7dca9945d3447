----------------------------- MODULE MCTtlCache -----------------------------
(***************************************************************************)
(* Model checking of TtlCache: three keys compete for two places, two      *)
(* values, entries that live two ticks.                                    *)
(***************************************************************************)
EXTENDS TtlCache, TLC

CONSTANTS k1, k2, k3, v1, v2

MCKeys   == {k1, k2, k3}
MCValues == {v1, v2}

=============================================================================
