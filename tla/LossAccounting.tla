--------------------------- MODULE LossAccounting ---------------------------
(***************************************************************************)
(* What loss accounting promises a sender: the stream of delivered packet  *)
(* numbers is cut into consecutive windows, each of which begins and ends  *)
(* with a delivered packet and is reported once, with the exact number of  *)
(* its packets that were delivered and that were not.  No delivered packet *)
(* is ever left between two windows; losses may be, since a window starts  *)
(* only at the first packet that arrives for it.                           *)
(***************************************************************************)
EXTENDS Naturals, Sequences, FiniteSets

VARIABLES
    delivered,      \* the packet numbers delivered so far
    windows         \* the windows reported so far, oldest first

accountingVars == <<delivered, windows>>

\* The last packet number any report covers.
Reported == IF windows = <<>> THEN 0 ELSE windows[Len(windows)].last

Window(first, last) ==
    [ first |-> first,
      last |-> last,
      received |-> Cardinality(delivered \cap (first .. last)),
      lost |-> Cardinality((first .. last) \ delivered) ]

Init ==
    /\ delivered = {}
    /\ windows = <<>>

\* Packets arrive in the order in which they were numbered.
Deliver ==
    /\ \E n \in delivered' :
          /\ \A m \in delivered : m < n
          /\ delivered' = delivered \cup {n}

\* The next window: everything delivered since the last report, up to `last'.
Report ==
    \E first, last \in delivered :
        /\ Reported < first
        /\ first <= last
        /\ \A n \in delivered : Reported < n /\ n <= last => first <= n
        /\ windows' = Append(windows, Window(first, last))

\* A packet's arrival is what triggers a report, which never covers it.
Next == Deliver /\ (Report \/ UNCHANGED windows)

Spec == Init /\ [][Next]_accountingVars

=============================================================================
