-------------------------- MODULE MCDelayBasedBwe --------------------------
(***************************************************************************)
(* DelayBasedBwe for TLC, with a unit of time of a quarter of a second.    *)
(***************************************************************************)
EXTENDS DelayBasedBwe

\* 1.08^(n/4) - 1.
MCGrowth == [n \in 0 .. 4 |-> CASE n = 0 -> 0 [] n = 1 -> 194 [] n = 2 -> 392
                                [] n = 3 -> 594 [] n = 4 -> 800]

=============================================================================
