------------------------------ MODULE MCAlerts ------------------------------
(* A small instance of Alerts for TLC. *)
EXTENDS Alerts, TLC

CONSTANTS burst, dead

(* Two loss events with at most two rounds between them, as the classic     *)
(* pattern of the documentation, and two unknown medians in a row.          *)
TwoPatterns == (burst :> <<Cmp("gt", 0), Span(2), Cmp("gt", 0)>>)
               @@ (dead :> <<UnknownU, Cmp("eq", 10), AnyRound>>)
TwoKinds    == (burst :> "loss") @@ (dead :> "rtt")
RepeatBurst == (burst :> 2) @@ (dead :> 0)
BothClear   == (burst :> TRUE) @@ (dead :> TRUE)
TwoAndOne   == (burst :> 2) @@ (dead :> 1)

Outcomes == {[loss |-> 0, median |-> 10], [loss |-> 50, median |-> 10], [loss |-> 100, median |-> U]}
=============================================================================
