----------------------------- MODULE RateLimits -----------------------------
(***************************************************************************)
(* What the sender's congestion controller promises the program around it: *)
(* it holds a target and the receiver's limit.  A REMB changes nothing but *)
(* the limit, and a receiver report nothing but the target; whoever sets   *)
(* the target keeps it within the configured limits.  Only new constraints *)
(* move those limits, and only they can leave a target that is outside.    *)
(***************************************************************************)
EXTENDS Units

CONSTANTS
    Targets,                \* the values the target may have
    Bandwidths              \* the values a REMB may carry

VARIABLES
    target,                 \* the loss-based target
    limit,                  \* the receiver's limit, infinite without one
    min, max                \* the configured limits

limitsVars == <<target, limit, min, max>>

Init ==
    /\ target \in Targets
    /\ limit = PlusInfinity
    /\ min <= target /\ target <= max

\* A receiver report is handled.  It may be too small to make an estimate.
Report ==
    /\ \/ UNCHANGED target
       \/ target' \in Targets /\ min <= target' /\ target' <= max
    /\ UNCHANGED limit

\* A REMB is handled; a bandwidth of zero means no limit.
Remb(bandwidth) ==
    /\ limit' = IF bandwidth = 0 THEN PlusInfinity ELSE bandwidth
    /\ target' = Clamped(target, min, max)

\* New constraints, with or without a rate to start from.
Constrain ==
    /\ min' <= max'
    /\ \/ UNCHANGED target
       \/ target' \in Targets /\ min' <= target' /\ target' <= max'
    /\ UNCHANGED limit

\* The rate the controller asks the program to send at.
Rate == Higher(min, Lower(target, limit))

\* The limit it shows the program.
GetReceiverLimit == limit

Next ==
    \/ Report /\ UNCHANGED <<min, max>>
    \/ \E bandwidth \in Bandwidths : Remb(bandwidth) /\ UNCHANGED <<min, max>>
    \/ Constrain

Spec == Init /\ [][Next]_limitsVars

=============================================================================
