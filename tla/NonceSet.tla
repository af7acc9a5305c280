------------------------------ MODULE NonceSet ------------------------------
(***************************************************************************)
(* What the forwarding pipelines rely on when they use the Dead Nonce      *)
(* List: a set of (Name, Nonce) pairs.  A pair that is added is known at   *)
(* once and stays known while it is recent.  A pair that is not recent any *)
(* more may be forgotten at any moment, because the list has a finite      *)
(* capacity and no time stamps.  Nothing that was never added is ever      *)
(* reported.                                                               *)
(***************************************************************************)
CONSTANT Nonce
VARIABLES dead,      \* the pairs that has() reports
          recent     \* the pairs that cannot have been forgotten yet

Init == dead = {} /\ recent = {}

Add(n) ==
    /\ n \in recent'
    /\ recent' \subseteq recent \cup {n}
    /\ dead' \subseteq dead \cup {n}
    /\ recent' \subseteq dead'

Forget ==
    /\ recent' \in SUBSET recent
    /\ dead' \in SUBSET dead
    /\ recent' \subseteq dead'

Next == Forget \/ \E n \in Nonce : Add(n)

Spec == Init /\ [][Next]_<<dead, recent>>
=============================================================================
