------------------------------ MODULE Pattern ------------------------------
(***************************************************************************)
(* Alert patterns (src/alert/pattern.rs): a list of elements that is       *)
(* matched against the newest rounds from its last element back.  A parsed *)
(* pattern is a sequence of elements; parsing itself is not modelled.       *)
(***************************************************************************)
EXTENDS Integers, Sequences, SequencesExt

CONSTANT U   \* the value of a round that has none, `==U'

Cmp(op, v) == [kind |-> "cmp", op |-> op, v |-> v]
UnknownU   == [kind |-> "unknown"]
AnyRound   == [kind |-> "any"]
Span(n)    == [kind |-> "span", n |-> n]

IsSpan(e) == e.kind = "span"

MaxSpan == 64
Element ==
  [kind : {"cmp"}, op : {"eq", "ne", "gt", "lt", "ge", "le"}, v : Int]
    \cup [kind : {"unknown", "any"}] \cup [kind : {"span"}, n : 1..MaxSpan]

(* What Pattern::parse lets through: something concrete, no span is void. *)
Concrete(elems) == elems \in Seq(Element) /\ \E i \in DOMAIN elems : ~IsSpan(elems[i])

Compare(op, s, v) ==
  \/ op = "eq" /\ s = v
  \/ op = "ne" /\ s # v
  \/ op = "gt" /\ s > v
  \/ op = "lt" /\ s < v
  \/ op = "ge" /\ s >= v
  \/ op = "le" /\ s <= v

ElemMatch(e, s) ==
  \/ e.kind = "any"
  \/ e.kind = "unknown" /\ s = U
  \/ e.kind = "cmp" /\ s # U /\ Compare(e.op, s, e.v)

(* The rounds that the elements from place i on take. *)
SumFrom(take, i) == MapThenSumSet(LAMBDA j : take[j], {j \in DOMAIN take : j >= i})

(* How many rounds the pattern can look at. *)
Depth(elems) == SumFrom([i \in DOMAIN elems |-> IF IsSpan(elems[i]) THEN elems[i].n ELSE 1], 1)

(* rec's choices for one element: the numbers of older rounds that may be  *)
(* left once e is consumed, when those in `left' may be before.            *)
Consume(e, samples, left) ==
  IF IsSpan(e)
  THEN UNION {(IF m > e.n THEN m - e.n ELSE 0)..m : m \in left}
  ELSE {m - 1 : m \in {m \in left : m > 0 /\ ElemMatch(e, samples[m])}}

(* The pattern matches when some choice consumes all of it. *)
Matches(elems, samples) ==
  FoldRight(LAMBDA e, left : Consume(e, samples, left), elems, {Len(samples)}) # {}

-----------------------------------------------------------------------------
(* What a pattern means, said at once: each element is given a number of   *)
(* consecutive rounds, those of all elements together end at the newest    *)
(* round, and every element that asks something of its round gets it.      *)
Means(elems, samples) ==
  \E take \in [DOMAIN elems -> 0..Len(samples)] :
    /\ \A i \in DOMAIN elems : IF IsSpan(elems[i]) THEN take[i] <= elems[i].n ELSE take[i] = 1
    /\ SumFrom(take, 1) <= Len(samples)
    /\ \A i \in DOMAIN elems :
         IsSpan(elems[i]) \/ ElemMatch(elems[i], samples[Len(samples) - SumFrom(take, i) + 1])
=============================================================================
