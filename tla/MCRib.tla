-------------------------------- MODULE MCRib --------------------------------
(***************************************************************************)
(* A small instance of Rib: the names /, /a, /a/b and /c, and two faces.   *)
(* ChildInherit is switched on and off everywhere; /c, which has nothing   *)
(* below it, also has routes with Capture and of a second origin.          *)
(***************************************************************************)
EXTENDS Rib

MCName == {"", "a", "ab", "c"}
MCPrefixOf == [n \in MCName |-> CASE n = "" -> {} [] n = "ab" -> {"", "a"} [] OTHER -> {""}]

Routes(n, f, origin, costs, capture) ==
    {[name |-> n, face |-> f,
      route |-> [origin |-> origin, cost |-> c, inherit |-> i, capture |-> capture]] :
        c \in costs, i \in BOOLEAN}
MCOffer == Routes("", 1, "app", {1, 2}, FALSE)
           \cup Routes("a", 1, "app", {1}, FALSE) \cup Routes("a", 2, "app", {1}, FALSE)
           \cup Routes("ab", 1, "app", {1}, FALSE)
           \cup Routes("c", 1, "app", {1}, TRUE) \cup Routes("c", 2, "app", {1}, FALSE)
           \cup Routes("c", 2, "static", {2}, FALSE)
=============================================================================
