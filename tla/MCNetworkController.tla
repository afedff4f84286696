------------------------ MODULE MCNetworkController ------------------------
(***************************************************************************)
(* NetworkController for TLC: the messages and the calls it may get.       *)
(***************************************************************************)
EXTENDS NetworkController

\* No loss, 5% and 20% loss in one report; and a report too small to make an
\* estimate alone.
MCLossReports ==
    { [lost |-> 0, received |-> 20],
      [lost |-> 1, received |-> 19],
      [lost |-> 4, received |-> 16],
      [lost |-> 3, received |-> 9] }

\* Above the initial target, and the value for no limit.
MCRembRates == {0, KilobitsPerSec(650)}

\* A lower maximum alone, which also takes the minimum back to the default; a
\* higher minimum with a rate to start from below it, which makes it the rate the
\* sender starts from anyway; and a minimum above the target.
MCConstraints ==
    { [min |-> NoRate, max |-> 600000, start |-> NoRate],
      [min |-> 500000, max |-> NoRate, start |-> 420000],
      [min |-> 600000, max |-> NoRate, start |-> NoRate] }

\* The programs' configuration, with a padding rate and a floor of the pacing
\* rate, which the programs leave at zero.
MCConfig ==
    [ProgramConfig EXCEPT
        !.stream_based_config.min_total_allocated_bitrate = 450000,
        !.stream_based_config.max_padding_rate = 500000]

MCGrowth == [n \in 0 .. 1 |-> IF n = 0 THEN 0 ELSE 800]

=============================================================================
