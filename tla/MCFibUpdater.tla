---------------------------- MODULE MCFibUpdater ----------------------------
(***************************************************************************)
(* A small instance of FibUpdater: the names / and /a and two faces, one   *)
(* of which may be destroyed.                                              *)
(***************************************************************************)
EXTENDS FibUpdater

MCName == {"", "a"}
MCPrefixOf == [n \in MCName |-> IF n = "a" THEN {""} ELSE {}]
O(n, f, i) == [name |-> n, face |-> f,
               route |-> [origin |-> "app", cost |-> 1, inherit |-> i, capture |-> FALSE]]
MCOffer == {O("", 1, TRUE), O("a", 2, FALSE), O("", 2, TRUE)}
=============================================================================
