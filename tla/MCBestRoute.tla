----------------------------- MODULE MCBestRoute -----------------------------
(***************************************************************************)
(* A small instance of BestRoute: the point-to-point faces a and b and the *)
(* multi-access face c; b, which is local, and c are next hops.            *)
(***************************************************************************)
EXTENDS BestRoute

CONSTANTS a, b, c, n1, n2

MCExtends == [n \in Name |-> {n}]
MCRank == [n \in Name |-> [f \in Face |-> IF f = b THEN 1 ELSE IF f = c THEN 2 ELSE 0]]

Asked(name, nonce, hop, lifetime) ==
    [name |-> name, canBePrefix |-> FALSE, mustBeFresh |-> FALSE, nonce |-> nonce,
     hopLimit |-> hop, lifetime |-> lifetime, nextHop |-> None]

\* Two Interests of different lifetimes, and one with its HopLimit used up.
MCInterest == {Asked("q", n1, 2, 2), Asked("q", n2, 2, 4), Asked("q", n1, 0, 2)}
MCData == {[name |-> "q", freshness |-> 0]}

\* Everything but the packets of the last step, which no step reads.
MCView == <<pit, up, dead, cs, suppression>>
=============================================================================
