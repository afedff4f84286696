-------------------------- MODULE MCOveruseDetector --------------------------
(* Values for OveruseDetector that a configuration file cannot hold. *)
EXTENDS OveruseDetector

\* Below the negative threshold, within both, and above the positive one by
\* less and by more than the offset that stops the adaptation.
MCTrends == {-1000, 0, 600, 1000, 4000}

\* Rounded to the -2 ms that collide with the timer's sentinel, to nothing, and
\* to 12 and 24 ms, above the over-use time.
MCSendDeltas == {-1600, 400, 12000, 24499}

=============================================================================
