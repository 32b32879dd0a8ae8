------------------------------ MODULE MCSeries ------------------------------
(* Small instances of Series and SeriesFetch for TLC. *)
EXTENDS SeriesFetch

Rra(cf, steps, rows, xff) == [cf |-> cf, steps |-> steps, rows |-> rows, xff |-> xff]

(* A raw archive under one of each consolidation function, with windows of  *)
(* two and three rounds and rings of two or three rows: the rings wrap,       *)
(* windows can be complete, sparse or void, and a query may fit and be      *)
(* covered by several archives, by one, or by none.                         *)
FourArchives == << Rra("average", 2, 2, 50), Rra("average", 1, 3, 50),
                   Rra("min", 3, 2, 40), Rra("max", 2, 2, 50) >>
=============================================================================
