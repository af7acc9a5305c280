----------------------------- MODULE MCForwarder -----------------------------
(***************************************************************************)
(* A small instance of Forwarder with any strategy, also with probes: f1   *)
(* is a local point-to-point face, f2 a non-local multi-access one.        *)
(***************************************************************************)
EXTENDS Forwarder

CONSTANTS f1, f2, n1, n2

MCExtends == [n \in Name |-> {n}]

Asked(hop, lifetime, next) ==
    [name |-> "q", canBePrefix |-> FALSE, mustBeFresh |-> TRUE, nonce |-> n1,
     hopLimit |-> hop, lifetime |-> lifetime, nextHop |-> next]

\* One entry; one Interest whose HopLimit ends here comes from an application
\* that chooses the next hop itself, and one has its HopLimit used up.
MCInterest == {Asked(2, 2, None), Asked(1, 2, f2), Asked(0, 1, None)}

\* Data for the entry, and under /localhost.
MCData == {[name |-> "q", freshness |-> 1], [name |-> "h", freshness |-> 0]}
=============================================================================
