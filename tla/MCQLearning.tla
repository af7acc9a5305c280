----------------------------- MODULE MCQLearning -----------------------------
(***************************************************************************)
(* A small instance of QLearning: the point-to-point faces a and b and the *)
(* multi-access face c; b, which is local, is a next hop of both names, c  *)
(* of one.  The same Data satisfies both entries.                          *)
(***************************************************************************)
EXTENDS QLearning

CONSTANTS a, b, c, n1

MCExtends == [n \in Name |-> IF n = "p" THEN {"p", "q"} ELSE {n}]
MCRank == [n \in Name |-> [f \in Face |-> CASE f = b -> 1 [] f = c /\ n = "q" -> 2 [] OTHER -> 0]]

Asked(name, prefix, hop, lifetime) ==
    [name |-> name, canBePrefix |-> prefix, mustBeFresh |-> FALSE, nonce |-> n1,
     hopLimit |-> hop, lifetime |-> lifetime, nextHop |-> None]

\* One Interest has its HopLimit used up.
MCInterest == {Asked("p", TRUE, 2, 1), Asked("q", FALSE, 2, 2), Asked("q", FALSE, 0, 1)}
MCData == {[name |-> "q", freshness |-> 0]}

\* Everything but the packets of the last step, which no step reads.
MCView == <<pit, up, dead, cs, m_qTable>>
=============================================================================
