------------------------------ MODULE MCProbing ------------------------------
(* Small instances of Probing for TLC. *)
EXTENDS Probing

Alone(kind, timeout, interval, lookup, rounds, doubled) ==
  [kinds |-> <<kind>>, timeout |-> timeout, interval |-> interval, rounds |-> rounds,
   offsets |-> {0, Step - 1}, lookup |-> lookup, name |-> lookup > 0, dups |-> doubled]
RawPair == [kinds |-> <<"raw", "raw">>, timeout |-> 1, interval |-> 0, rounds |-> 1,
            offsets |-> {0}, lookup |-> 0, name |-> FALSE, dups |-> 0]

(* Every probe on its own, with rounds that may outlast the step, and two   *)
(* icmp probes of one host on raw sockets, beside each other.              *)
MCSetups ==
  {Alone(k, 1, 2, 1, 2, 1) : k \in {"ping", "dns"}}
    \cup {Alone(k, 2, 1, 0, 2, 1) : k \in {"ping", "dns"}}
    \cup {Alone(k, 1, 2, 1, 3, 0) : k \in {"tcp", "http", "phoenix", "exec"}}
    \cup {Alone("raw", 1, 2, 0, 2, 0), RawPair}
=============================================================================
