------------------------------ MODULE MCMaster ------------------------------
(* Small instances of Master for TLC. *)
EXTENDS Master

A == <<"a">>
B == <<"b">>
C == <<"c">>
X == <<"x">>
Chain == {<<A>>, <<A, B>>, <<A, B, C>>}

Base ==
  [pings |-> 3, step |-> 1, rras |-> <<[steps |-> 1, rows |-> 2, xff |-> 50]>>, web |-> TRUE,
   tree |-> (<<A>> :> [host |-> "h", own |-> <<>>]),
   probes |-> ("tcp" :> [kind |-> "tcp", builds |-> TRUE, port |-> 0]) @@
              ("tcp80" :> [kind |-> "tcp", builds |-> TRUE, port |-> 80]),
   alerts |-> ("down" :> [parses |-> TRUE, email |-> FALSE]) @@
              ("mail" :> [parses |-> TRUE, email |-> TRUE]),
   smtp |-> TRUE, agents |-> (X :> "s"),
   components |-> ("page" :> [targets |-> {A}, parses |-> TRUE])]

Tree(t)   == [Base EXCEPT !.tree = t, !.components = <<>>]
Owns(dom, values) == UNION {[d -> values] : d \in SUBSET dom}

(* What a node may say of one setting, or of two that bear on each other. *)
ProbeAndPort ==
  {p @@ q : p \in Owns({"probe"}, {"tcp", "tcp80", "nope"}), q \in Owns({"port"}, {1})}
AgentsAndPoll ==
  {p @@ q : p \in Owns({"agents"}, {{}, {X}}), q \in Owns({"nomasterpoll"}, BOOLEAN)}
Others ==
  Owns({"alerts"}, {{}, {"down"}, {"ghost"}}) \cup Owns({"lookup"}, {"n1", "n2"})
    \cup Owns({"agents"}, {{X}, {B}})

Chains(owns, hosts) ==
  {Tree([a \in Chain |-> [host |-> IF a \in H THEN "h" ELSE "", own |-> own[a]]]) :
     own \in [Chain -> owns], H \in hosts}

Leaf(a, own) == a :> [host |-> "h", own |-> own]

(* One thing of the base configuration is changed. *)
Oddities ==
  {[Base EXCEPT !.pings = n] : n \in 2..4} \cup {[Base EXCEPT !.step = 0], [Base EXCEPT !.web = FALSE]}
  \cup {[Base EXCEPT !.rras = r] : r \in {<<>>} \cup
          {<<[steps |-> s, rows |-> n, xff |-> x]>> : s \in 0..1, n \in 1..2, x \in {0, 99, 100}}}
  \cup {[Base EXCEPT !.tree = Leaf(<<A>>, [alerts |-> {a}]), !.smtp = smtp] :
          a \in {"down", "mail", "ghost"}, smtp \in BOOLEAN}
  \cup {[Base EXCEPT !.alerts["down"].parses = FALSE], [Base EXCEPT !.probes["tcp"].builds = FALSE],
        [Base EXCEPT !.tree = <<>>], [Base EXCEPT !.agents = <<>>]}
  \cup {[Base EXCEPT !.components["page"] = [targets |-> t, parses |-> p]] :
          t \in SUBSET {A, B}, p \in BOOLEAN}
  \cup {Tree(Leaf(<<key>>, <<>>)) : key \in {<<>>, <<"..">>, <<"a", " ">>, <<"a", "@", "x">>, <<"a", "/", "b">>}}
  \cup {Tree(Leaf(<<A, B>>, [agents |-> {X}]) @@ Leaf(<<<<"a", "/", "b">>>>, <<>>) @@ Leaf(<<A>>, <<>>))}
  \cup {[Tree(Leaf(<<A>>, [agents |-> {n}])) EXCEPT !.agents = n :> "s"] :
          n \in {<<>>, <<"x", "/", "y">>, <<"x", "/", "..">>, <<"x", "@", "y">>, <<"x", " ">>}}

Static ==
  Chains(ProbeAndPort, {{<<A, B, C>>}}) \cup Chains(AgentsAndPoll, {{<<A, B, C>>}})
    \cup Chains(Others, {{}, {<<A, B>>}, Chain}) \cup Oddities

Run(configs, name, kinds, rounds, faults) ==
  [configs |-> configs, agent |-> name, secret |-> "s", kinds |-> kinds, rounds |-> rounds,
   answers |-> faults[1], errors |-> faults[2], troubles |-> faults[3]]

Both(name) == [Tree(Leaf(<<A>>, [agents |-> {name}])) EXCEPT !.agents = name :> "s"]
Moved      == Tree(Leaf(<<A>>, <<>>) @@ Leaf(<<B>>, [agents |-> {X}]))
NewSecret  == [Both(X) EXCEPT !.agents = X :> "s2"]
Headless   == [Both(X) EXCEPT !.web = FALSE]

MCSetups ==
  {Run(<<c>>, X, {"prometheus"}, 0, <<0, 0, 0>>) : c \in Static}
    \cup {Run(<<Base>>, X, Kinds, 4, <<0, 0, 1>>), Run(<<Base>>, X, {"graphite"}, 2, <<0, 0, 2>>),
          Run(<<Base, Base>>, X, Kinds, 3, <<0, 0, 1>>),
          Run(<<Both(X)>>, X, {"prometheus"}, 3, <<1, 1, 0>>),
          Run(<<Both(X), Moved>>, X, {"prometheus"}, 3, <<1, 0, 0>>),
          Run(<<Both(X), Moved>>, X, Kinds, 2, <<1, 0, 0>>),
          Run(<<Both(X), Moved>>, X, {"influx", "live"}, 2, <<0, 0, 1>>)}
    \cup {Run(<<Both(X), c>>, X, {"influx"}, 2, <<1, 0, 0>>) : c \in {NewSecret, Headless}}
    \cup {Run(<<Both(<<"x", " ">>)>>, <<"x", " ">>, {"graphite"}, 2, <<0, 0, 0>>)}
=============================================================================
