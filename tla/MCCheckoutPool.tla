--------------------------- MODULE MCCheckoutPool ---------------------------
(***************************************************************************)
(* Two runs for TLC: the first has a unit, the second a probe.             *)
(***************************************************************************)
EXTENDS CheckoutPool

CONSTANTS r1, r2, u1, m1

MCRunOf == [x \in Units \cup Probes |-> IF x = u1 \/ r2 \notin Runs THEN r1 ELSE r2]
=============================================================================
