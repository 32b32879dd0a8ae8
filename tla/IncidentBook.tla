---------------------------- MODULE IncidentBook ----------------------------
(***************************************************************************)
(* What the status page promises of incidents (src/status/mod.rs): they    *)
(* are numbered in the order they open, a component never has two open at  *)
(* once, and a resolved incident stays resolved.  Nothing is forgotten.    *)
(***************************************************************************)
EXTENDS Naturals, Sequences

CONSTANT Keys   \* the components

VARIABLE book   \* book[i] is incident number i

Entry == [component : Keys, resolved : BOOLEAN]

OpenOf(c) == {i \in DOMAIN book : book[i].component = c /\ ~book[i].resolved}

BookInit == book = <<>>

OpenEntry(c) ==
  /\ OpenOf(c) = {}
  /\ book' = Append(book, [component |-> c, resolved |-> FALSE])

ResolveEntry(i) ==
  /\ ~book[i].resolved
  /\ book' = [book EXCEPT ![i].resolved = TRUE]

BookNext ==
  \/ \E c \in Keys : OpenEntry(c)
  \/ \E i \in DOMAIN book : ResolveEntry(i)

BookSpec == BookInit /\ [][BookNext]_book

-----------------------------------------------------------------------------
BookType == book \in Seq(Entry)

(* At most one open incident per component. *)
OneOpen ==
  \A i, j \in DOMAIN book :
    (/\ book[i].component = book[j].component
     /\ ~book[i].resolved /\ ~book[j].resolved) => i = j

(* Incidents are never renumbered, dropped or reopened. *)
BookGrows ==
  [][/\ Len(book) <= Len(book')
     /\ \A i \in DOMAIN book : /\ book'[i].component = book[i].component
                               /\ book[i].resolved => book'[i].resolved]_book
=============================================================================
