--------------------------- MODULE MCSeriesSteps ---------------------------
(* Small instances of SeriesSteps for TLC. *)
EXTENDS SeriesSteps

Rra(cf, steps, rows, xff) == [cf |-> cf, steps |-> steps, rows |-> rows, xff |-> xff]

(* A raw archive and one with windows of two rounds. *)
RawAndMean == << Rra("average", 1, 2, 50), Rra("average", 2, 2, 50) >>
=============================================================================
