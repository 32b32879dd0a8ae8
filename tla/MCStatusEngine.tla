--------------------------- MODULE MCStatusEngine ---------------------------
(* Small instances of StatusEngine for TLC. *)
EXTENDS StatusEngine, TLC

CONSTANTS t1, t2, c1, c2

(* A component of two targets, and a second one that watches one of them. *)
TwoComponents == <<c1, c2>>
Overlapping   == (c1 :> {t1, t2}) @@ (c2 :> {t1})
TwoAt         == (c1 :> Partial) @@ (c2 :> Degraded)

(* The first of them by itself. *)
OneComponent == <<c1>>
PairWatch    == c1 :> {t1, t2}
OneAt        == c1 :> Partial
=============================================================================
