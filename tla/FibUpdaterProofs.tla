-------------------------- MODULE FibUpdaterProofs --------------------------
(***************************************************************************)
(* Proofs about Rib and FibUpdater.                                        *)
(*                                                                         *)
(* First the tree of RIB entries: findParent finds the longest prefix, and *)
(* insert and eraseEntry relink just the entries that need it.  Then what  *)
(* the FIB updates computed for a batch are meant for: entries that exist  *)
(* when the batch has been applied.  Last the batches: as long as none has *)
(* failed with commands unanswered, the commands on their way are one for  *)
(* each update outstanding (Carries), so the last answer ends the batch    *)
(* with no command left over for the next one.                             *)
(***************************************************************************)
EXTENDS FibUpdater, FiniteSetTheorems, TLAPS

\* The provers a leaf that names none is tried with.
USE SMTT(30), ZenonT(30), SMTT(60)

-----------------------------------------------------------------------------
(* Sequences.                                                                 *)

(* A sequence is a function on 1 .. Len.                                      *)
LEMMA LenProperties ==
  ASSUME NEW S, NEW q \in Seq(S)
  PROVE  Len(q) \in Nat /\ DOMAIN q = 1 .. Len(q) /\ q \in [1 .. Len(q) -> S]
OBVIOUS

(* Its elements.                                                              *)
LEMMA ElementOfSeq ==
  ASSUME NEW S, NEW q \in Seq(S), NEW i \in 1 .. Len(q)
  PROVE  q[i] \in S
OBVIOUS

(* The empty sequence is the one of length 0.                                 *)
LEMMA EmptySeq ==
  ASSUME NEW S
  PROVE  <<>> \in Seq(S) /\ Len(<<>>) = 0 /\ \A q \in Seq(S) : q # <<>> => Len(q) \in Nat \ {0}
OBVIOUS

(* All sequences over a set.                                                  *)
LEMMA SeqDef ==
  \A S : Seq(S) = UNION {[1 .. n -> S] : n \in Nat}
OBVIOUS

(* Type, length and elements of a concatenation.                              *)
LEMMA ConcatProperties ==
  ASSUME NEW S, NEW q \in Seq(S), NEW r \in Seq(S)
  PROVE  /\ q \o r \in Seq(S) /\ Len(q \o r) = Len(q) + Len(r)
         /\ \A i \in 1 .. Len(q) + Len(r) :
              (q \o r)[i] = IF i <= Len(q) THEN q[i] ELSE r[i - Len(q)]
OBVIOUS

(* The empty sequence is neutral.                                             *)
LEMMA ConcatEmptySeq ==
  ASSUME NEW S, NEW q \in Seq(S)
  PROVE  q \o <<>> = q /\ <<>> \o q = q
OBVIOUS

(* Type, length and elements after Append.                                    *)
LEMMA AppendProperties ==
  ASSUME NEW S, NEW q \in Seq(S), NEW x \in S
  PROVE  /\ Append(q, x) \in Seq(S) /\ Append(q, x) # <<>>
         /\ Len(Append(q, x)) = Len(q) + 1 /\ Append(q, x)[Len(q) + 1] = x
         /\ \A i \in 1 .. Len(q) : Append(q, x)[i] = q[i]
OBVIOUS

(* Type, length and elements of a part.                                       *)
LEMMA SubSeqProperties ==
  ASSUME NEW S, NEW q, NEW a \in Int, NEW b \in Int, \A i \in a .. b : q[i] \in S
  PROVE  /\ SubSeq(q, a, b) \in Seq(S)
         /\ Len(SubSeq(q, a, b)) = IF a <= b THEN b - a + 1 ELSE 0
         /\ \A i \in 1 .. b - a + 1 : SubSeq(q, a, b)[i] = q[a + i - 1]
OBVIOUS

(* A sequence over a subset.                                                  *)
LEMMA SeqMonotonic ==
  ASSUME NEW S, NEW T, NEW q \in Seq(S), S \subseteq T
  PROVE  q \in Seq(T)
OBVIOUS

(* Head and Tail of a sequence.                                               *)
LEMMA HeadTailProperties ==
  ASSUME NEW S, NEW q \in Seq(S), q # <<>>
  PROVE  /\ Head(q) \in S /\ Tail(q) \in Seq(S)
         /\ Len(Tail(q)) = Len(q) - 1 /\ \A i \in 1 .. Len(Tail(q)) : Tail(q)[i] = q[i + 1]
OBVIOUS

(* One element changes.                                                       *)
LEMMA ExceptSeq ==
  ASSUME NEW S, NEW q \in Seq(S), NEW i \in 1 .. Len(q), NEW x \in S
  PROVE  /\ [q EXCEPT ![i] = x] \in Seq(S) /\ Len([q EXCEPT ![i] = x]) = Len(q)
         /\ \A j \in 1 .. Len(q) : [q EXCEPT ![i] = x][j] = IF j = i THEN x ELSE q[j]
OBVIOUS

-----------------------------------------------------------------------------
\* The tree of names

Longest(P, p) == p \in P /\ P \subseteq PrefixOf[p] \cup {p}

\* Among prefixes of one name there is a longest one.
LEMMA LongestExists ==
    ASSUME NEW n \in Name, NEW P \in SUBSET PrefixOf[n], P # {}
    PROVE  \E p \in P : Longest(P, p)
<1> DEFINE Depth(p) == Cardinality(PrefixOf[p])
           Above == {Depth(n) - Depth(p) : p \in P}
           R == {x \in Nat \X Nat : x[1] < x[2]}
<1>1. \A p \in Name : IsFiniteSet(PrefixOf[p]) /\ Depth(p) \in Nat
  BY RibAssumption, FS_Subset, FS_CardinalityType
<1>2. \A p \in Name : \A q \in PrefixOf[p] : Depth(q) < Depth(p)
  <2> SUFFICES ASSUME NEW p \in Name, NEW q \in PrefixOf[p] PROVE Depth(q) < Depth(p)
    OBVIOUS
  <2>1. PrefixOf[q] \in SUBSET PrefixOf[p] /\ PrefixOf[q] # PrefixOf[p] /\ q \in Name
    BY RibAssumption
  <2>2. Depth(q) =< Depth(p) /\ Depth(p) # Depth(q)
    BY <1>1, <2>1, FS_Subset
  <2> QED BY <1>1, <2>1, <2>2
<1>3. \A p \in P : p \in Name /\ Depth(p) < Depth(n)
  BY <1>2, RibAssumption
<1>4. Above \in SUBSET Nat /\ Above # {}
  BY <1>1, <1>3
<1>5. IsWellFoundedOn(R, Nat)
  BY NatLessThanWellFounded DEF OpToRel
<1>6. \E x \in Above : \A y \in Above : <<y, x>> \notin R
  <2> HIDE DEF Above, R
  <2> QED BY ZenonT(60), <1>4, <1>5, WFMin
<1>7. PICK x \in Above : \A y \in Above : <<y, x>> \notin R
  BY <1>6
<1>8. PICK p \in P : x = Depth(n) - Depth(p)
  BY <1>7
<1>9. ASSUME NEW q \in P, q # p PROVE q \in PrefixOf[p]
  <2>1. ~ (Depth(n) - Depth(q) < Depth(n) - Depth(p))
    <3>1. Depth(n) - Depth(q) \in Above /\ Depth(n) - Depth(p) \in Above
      BY <1>9
    <3>2. <<Depth(n) - Depth(q), x>> \notin R
      BY <1>7, <3>1
    <3> HIDE DEF Above, Depth
    <3> QED BY <1>4, <1>8, <3>1, <3>2
  <2>2. Depth(q) =< Depth(p)
    <3> HIDE DEF Depth
    <3> QED BY <1>1, <1>3, <1>9, <2>1
  <2>3. p \notin PrefixOf[q]
    <3>1. p \in PrefixOf[q] => Depth(p) < Depth(q)
      BY <1>2, <1>3, <1>9
    <3> HIDE DEF Depth
    <3> QED BY <1>1, <1>3, <1>9, <2>2, <3>1
  <2> QED BY <1>9, <2>3, RibAssumption
<1> QED BY <1>9 DEF Longest

\* There is only one longest among names.
LEMMA LongestUnique ==
    ASSUME NEW n \in Name, NEW P \in SUBSET PrefixOf[n], NEW p, NEW q, Longest(P, p), Longest(P, q)
    PROVE  p = q
<1>1. p \in Name /\ q \in Name
  BY RibAssumption DEF Longest
<1> QED BY <1>1, RibAssumption DEF Longest

\* What findParent finds among the entries E.
Top(P) == IF P = {} THEN None ELSE CHOOSE p \in P : P \subseteq PrefixOf[p] \cup {p}
Among(n, E) == Top(PrefixOf[n] \cap E)

\* The longest of the prefixes that are in E, or None.
LEMMA FindParent ==
    ASSUME NEW n \in Name, NEW E
    PROVE  /\ PrefixOf[n] \cap E = {} => Among(n, E) = None
           /\ PrefixOf[n] \cap E # {} => Longest(PrefixOf[n] \cap E, Among(n, E))
           /\ \A p : Longest(PrefixOf[n] \cap E, p) => Among(n, E) = p
<1> DEFINE P == PrefixOf[n] \cap E
<1>1. P \in SUBSET PrefixOf[n]
  OBVIOUS
<1>2. P # {} => Longest(P, Among(n, E))
  <2> SUFFICES ASSUME P # {} PROVE Longest(P, Among(n, E))
    OBVIOUS
  <2>1. \E p \in P : Longest(P, p)
    BY <1>1, LongestExists
  <2> QED BY <2>1 DEF Among, Top, Longest
<1>3. ASSUME NEW p, Longest(P, p) PROVE Among(n, E) = p
  <2>1. P # {}
    BY <1>3 DEF Longest
  <2> HIDE DEF P
  <2> QED BY <1>1, <1>2, <1>3, <2>1, LongestUnique
<1>4. P = {} => Among(n, E) = None
  BY DEF Among, Top
<1> QED BY <1>2, <1>3, <1>4

\* The links are right for the entries E.
Linked(E, links) == \A n \in E : links[n] = Among(n, E)

\* A new entry, linked the way Rib::insert does.
LEMMA LinksAfterInsert ==
    ASSUME NEW E \in SUBSET Name, NEW links, Linked(E, links), NEW n \in Name \ E, NEW new,
           new = [m \in Name |-> CASE m = n -> Among(n, E)
                                   [] m # n /\ n \in PrefixOf[m] /\ links[m] = Among(n, E) /\ m \in E -> n
                                   [] OTHER -> links[m]]
    PROVE  Linked(E \cup {n}, new)
<1> SUFFICES ASSUME NEW m \in E \cup {n} PROVE new[m] = Among(m, E \cup {n})
  BY ZenonT(60), SMTT(60) DEF Linked
<1> DEFINE P == PrefixOf[m] \cap E
           Q == PrefixOf[n] \cap E
<1>0. m \in Name /\ n \notin PrefixOf[n]
  BY RibAssumption
<1>1. CASE n \notin PrefixOf[m]
  <2>1. PrefixOf[m] \cap (E \cup {n}) = P
    BY <1>1
  <2>2. Among(m, E \cup {n}) = Among(m, E)
    BY <2>1 DEF Among
  <2>3. new[m] = IF m = n THEN Among(n, E) ELSE links[m]
    BY <1>0, <1>1
  <2> QED BY <2>2, <2>3 DEF Linked
<1>2. CASE n \in PrefixOf[m]
  <2>1. m \in E /\ m # n /\ PrefixOf[m] \cap (E \cup {n}) = P \cup {n} /\ Q \subseteq P
    BY <1>0, <1>2, RibAssumption
  <2>2. links[m] = Among(m, E) /\ new[m] = IF links[m] = Among(n, E) THEN n ELSE links[m]
    BY <1>0, <1>2, <2>1 DEF Linked
  <2>3. CASE P \subseteq PrefixOf[n]
    <3>1. P = Q
      BY <2>1, <2>3
    <3>2. Among(m, E) = Among(n, E)
      BY <3>1 DEF Among
    <3>3. Longest(P \cup {n}, n)
      BY <2>3 DEF Longest
    <3>4. \A x : Longest(PrefixOf[m] \cap (E \cup {n}), x) => Among(m, E \cup {n}) = x
      BY ZenonT(60), <1>0, FindParent
    <3> QED BY ZenonT(60), <2>1, <2>2, <3>2, <3>3, <3>4
  <2>4. CASE ~ (P \subseteq PrefixOf[n])
    <3>1. PICK q \in P : q \notin PrefixOf[n]
      BY <2>4
    <3>2. n \in PrefixOf[q]
      BY <1>0, <1>2, <3>1, RibAssumption
    <3>3. Longest(P, Among(m, E))
      BY <1>0, <3>1, FindParent
    <3> DEFINE p == Among(m, E)
    <3>4. p \in Name /\ p \in PrefixOf[m] /\ q \in Name /\ n \in PrefixOf[p]
      <4> HIDE DEF p
      <4>1. p \in PrefixOf[m] /\ q \in PrefixOf[p] \cup {p}
        BY <3>1, <3>3 DEF Longest, p
      <4> QED BY <1>0, <3>1, <3>2, <4>1, RibAssumption
    <3>5. Longest(P \cup {n}, p)
      <4> HIDE DEF p
      <4> QED BY <3>3, <3>4 DEF Longest, p
    <3>6. p # Among(n, E)
      <4>1. Q # {} => Among(n, E) \in PrefixOf[n]
        BY FindParent DEF Longest
      <4>2. Q = {} => Among(n, E) = None
        BY ZenonT(60), FindParent
      <4>3. p \notin PrefixOf[n]
        <5> HIDE DEF p
        <5> QED BY <3>4, RibAssumption
      <4> HIDE DEF p
      <4> QED BY <3>4, <4>1, <4>2, <4>3, RibAssumption
    <3>7. \A x : Longest(PrefixOf[m] \cap (E \cup {n}), x) => Among(m, E \cup {n}) = x
      BY ZenonT(60), <1>0, FindParent
    <3> HIDE DEF p
    <3> QED BY ZenonT(60), <2>1, <2>2, <3>5, <3>6, <3>7 DEF p
  <2> QED BY <2>3, <2>4
<1> QED BY <1>1, <1>2

\* An entry less, linked the way Rib::eraseEntry does.
LEMMA LinksAfterErase ==
    ASSUME NEW E \in SUBSET Name, NEW links, Linked(E, links), NEW n \in E, NEW new,
           new = [m \in Name |-> IF m = n THEN None ELSE IF links[m] = n THEN links[n] ELSE links[m]]
    PROVE  Linked(E \ {n}, new)
<1> SUFFICES ASSUME NEW m \in E \ {n} PROVE new[m] = Among(m, E \ {n})
  BY DEF Linked
<1> DEFINE P == PrefixOf[m] \cap E
           Q == PrefixOf[n] \cap E
<1>0. m \in Name /\ n \in Name /\ n \notin PrefixOf[n] /\ PrefixOf[m] \cap (E \ {n}) = P \ {n}
  BY RibAssumption
<1>1. new[m] = (IF links[m] = n THEN links[n] ELSE links[m]) /\ links[m] = Among(m, E) /\ links[n] = Among(n, E)
  BY <1>0 DEF Linked
<1>2. CASE P = {}
  <2>1. Among(m, E) = None /\ Among(m, E \ {n}) = None
    BY ZenonT(60), <1>0, <1>2, FindParent
  <2> QED BY <1>0, <1>1, <2>1, RibAssumption
<1>3. CASE P # {} /\ links[m] = n
  <2>1. Longest(P, n)
    <3>1. P # {} => Longest(P, Among(m, E))
      BY <1>0, FindParent
    <3> QED BY <1>1, <1>3, <3>1
  <2>2. P \ {n} = Q
    BY <1>0, <2>1, RibAssumption DEF Longest
  <2>3. Among(m, E \ {n}) = Among(n, E)
    BY <1>0, <2>2 DEF Among
  <2> QED BY <1>1, <1>3, <2>3
<1>4. CASE P # {} /\ links[m] # n
  <2>1. Longest(P, links[m])
    BY <1>0, <1>1, <1>4, FindParent
  <2>2. Longest(P \ {n}, links[m])
    BY <1>4, <2>1 DEF Longest
  <2>3. \A x : Longest(PrefixOf[m] \cap (E \ {n}), x) => Among(m, E \ {n}) = x
    BY ZenonT(60), <1>0, FindParent
  <2> QED BY <1>0, <1>1, <1>4, <2>2, <2>3
<1> QED BY <1>2, <1>3, <1>4

-----------------------------------------------------------------------------
\* The routes of an entry

Route == {o.route : o \in Offer}
Entry == [routes : [Face -> Seq(Route)], captures : Nat]
Slots(e) == UNION {{f} \X DOMAIN e.routes[f] : f \in Face}

\* The routes of an entry are finitely many.
LEMMA SlotsFinite ==
    ASSUME NEW e \in Entry
    PROVE  IsFiniteSet(Slots(e)) /\ getNRoutes(e) = Cardinality(Slots(e))
<1> DEFINE g == [f \in Face |-> {f} \X DOMAIN e.routes[f]]
           T == {{f} \X DOMAIN e.routes[f] : f \in Face}
<1>1. g \in Surjection(Face, T)
  BY ZenonT(60) DEF Surjection
<1>2. IsFiniteSet(T)
  <2> HIDE DEF g, T
  <2> QED BY <1>1, FS_Surjection, RibAssumption
<1>3. ASSUME NEW X \in T PROVE IsFiniteSet(X)
  <2>1. PICK f \in Face : X = {f} \X DOMAIN e.routes[f]
    BY <1>3
  <2>2. e.routes[f] \in Seq(Route)
    BY DEF Entry
  <2>3. DOMAIN e.routes[f] = 1 .. Len(e.routes[f]) /\ Len(e.routes[f]) \in Nat
    BY <2>2, LenProperties
  <2>4. IsFiniteSet(1 .. Len(e.routes[f]))
    BY <2>3, FS_Interval
  <2>5. IsFiniteSet({f})
    BY ZenonT(60), FS_Singleton
  <2> QED BY <2>1, <2>3, <2>4, <2>5, FS_Product
<1>4. IsFiniteSet(UNION T)
  <2> HIDE DEF T
  <2> QED BY <1>2, <1>3, FS_UNION
<1> QED BY <1>4 DEF Slots, getNRoutes

\* An entry without routes has an empty list on every face.
LEMMA NoRoutesLeft ==
    ASSUME NEW e \in Entry
    PROVE  getNRoutes(e) = 0 <=> \A f \in Face : e.routes[f] = <<>>
<1>1. getNRoutes(e) = 0 <=> Slots(e) = {}
  BY SlotsFinite, FS_EmptySet
<1>2. ASSUME NEW f \in Face PROVE e.routes[f] \in Seq(Route)
  BY DEF Entry
<1>3. ASSUME NEW f \in Face PROVE e.routes[f] = <<>> <=> DOMAIN e.routes[f] = {}
  <2>1. DOMAIN e.routes[f] = 1 .. Len(e.routes[f]) /\ Len(e.routes[f]) \in Nat
    BY <1>2, <1>3, LenProperties
  <2>2. e.routes[f] # <<>> => Len(e.routes[f]) \in Nat \ {0}
    BY <1>2, <1>3, EmptySeq
  <2>3. e.routes[f] = <<>> => Len(e.routes[f]) = 0
    BY EmptySeq
  <2>4. \A m \in Nat : (1 .. m) = {} <=> m = 0
    <3>1. \A m \in Nat \ {0} : 1 \in 1 .. m
      OBVIOUS
    <3>2. (1 .. 0) = {}
      OBVIOUS
    <3> QED BY <3>1, <3>2
  <2> QED BY ZenonT(60), <2>1, <2>2, <2>3, <2>4
<1>4. Slots(e) = {} <=> \A f \in Face : DOMAIN e.routes[f] = {}
  <2>1. ASSUME NEW f \in Face, NEW j \in DOMAIN e.routes[f] PROVE <<f, j>> \in Slots(e)
    <3>1. <<f, j>> \in {f} \X DOMAIN e.routes[f]
      BY <2>1
    <3> QED BY ZenonT(60), <2>1, <3>1 DEF Slots
  <2>2. ASSUME NEW x \in Slots(e) PROVE \E f \in Face : DOMAIN e.routes[f] # {}
    <3>1. PICK f \in Face : x \in {f} \X DOMAIN e.routes[f]
      BY ZenonT(60), <2>2 DEF Slots
    <3> QED BY <3>1
  <2> QED BY ZenonT(60), <2>1, <2>2
<1> QED BY <1>1, <1>3, <1>4

\* NoEntry is an entry without routes.
LEMMA NoEntryEmpty == NoEntry \in Entry /\ getNRoutes(NoEntry) = 0
<1>1. NoEntry \in Entry
  BY DEF NoEntry, Entry
<1> QED BY <1>1, NoRoutesLeft DEF NoEntry

\* After insertRoute, or the update of a route, an entry has a route.
LEMMA RouteInserted ==
    ASSUME NEW e \in Entry, NEW f \in Face, NEW r \in Route
    PROVE  WithRoute(e, f, r) \in Entry /\ getNRoutes(WithRoute(e, f, r)) # 0
<1> DEFINE w == WithRoute(e, f, r)
<1>0. e.routes[f] \in Seq(Route) /\ e.routes \in [Face -> Seq(Route)] /\ e.captures \in Nat
  BY DEF Entry
<1>1. CASE Position(e, f, r.origin) = {}
  <2>1. Append(e.routes[f], r) \in Seq(Route) /\ Append(e.routes[f], r) # <<>>
    BY <1>0, AppendProperties
  <2>2. (e.captures + 1) % CounterSize \in Nat
    BY <1>0, RibAssumption
  <2>3. w \in Entry /\ w.routes[f] # <<>>
    BY <1>0, <1>1, <2>1, <2>2 DEF WithRoute, Entry
  <2> HIDE DEF w
  <2> QED BY <2>3, NoRoutesLeft DEF w
<1>2. CASE Position(e, f, r.origin) # {}
  <2> DEFINE s == [j \in DOMAIN e.routes[f] |-> IF e.routes[f][j].origin = r.origin THEN r ELSE e.routes[f][j]]
  <2>1. DOMAIN e.routes[f] = 1 .. Len(e.routes[f]) /\ Len(e.routes[f]) \in Nat
    BY <1>0, LenProperties
  <2>2. s \in Seq(Route)
    <3>1. \A j \in 1 .. Len(e.routes[f]) : s[j] \in Route
      BY <1>0, <2>1
    <3>2. s \in [1 .. Len(e.routes[f]) -> Route]
      BY ZenonT(60), <2>1, <3>1
    <3> HIDE DEF s
    <3> QED BY <2>1, <3>2, SeqDef
  <2>3. DOMAIN s # {}
    BY <1>2 DEF Position
  <2>4. s # <<>>
    BY <2>2, <2>3
  <2>5. w = [e EXCEPT !.routes = [e.routes EXCEPT ![f] = s]]
    BY <1>2 DEF WithRoute
  <2> HIDE DEF s
  <2>6. w \in Entry /\ w.routes[f] # <<>>
    <3> HIDE DEF w
    <3> QED BY ZenonT(60), <1>0, <2>2, <2>4, <2>5 DEF Entry
  <2> HIDE DEF w
  <2> QED BY <2>6, NoRoutesLeft DEF w
<1> QED BY <1>1, <1>2

\* The place that eraseRoute finds.
LEMMA LeastPosition ==
    ASSUME NEW e \in Entry, NEW f \in Face, NEW origin, Position(e, f, origin) # {}
    PROVE  /\ Least(Position(e, f, origin)) \in Position(e, f, origin)
           /\ Least(Position(e, f, origin)) \in 1 .. Len(e.routes[f])
<1> DEFINE J == Position(e, f, origin)
           R == {x \in Nat \X Nat : x[1] < x[2]}
<1>1. e.routes[f] \in Seq(Route)
  BY DEF Entry
<1>2. J \subseteq 1 .. Len(e.routes[f]) /\ J \subseteq Nat
  BY <1>1, LenProperties DEF Position
<1>3. IsWellFoundedOn(R, Nat)
  BY NatLessThanWellFounded DEF OpToRel
<1>4. \A x, y \in Nat : x < y => <<x, y>> \in R
  OBVIOUS
<1> HIDE DEF R, J
<1>5. PICK j \in J : \A k \in J : ~ (<<k, j>> \in R)
  BY <1>2, <1>3, WFMin DEF J
<1>6. ASSUME NEW k \in J PROVE j =< k
  <2>1. ~ (k < j) /\ j \in Nat /\ k \in Nat
    BY ZenonT(60), <1>2, <1>4, <1>5
  <2> QED BY <2>1
<1>7. Least(J) \in J
  BY <1>6 DEF Least
<1> QED BY <1>2, <1>7 DEF J

\* A sequence without one of its elements.
LEMMA RemovedAt ==
    ASSUME NEW S, NEW s \in Seq(S), NEW j \in 1 .. Len(s)
    PROVE  /\ WithoutAt(s, j) \in Seq(S) /\ Len(WithoutAt(s, j)) = Len(s) - 1
           /\ \A k \in 1 .. Len(s) - 1 : WithoutAt(s, j)[k] = IF k < j THEN s[k] ELSE s[k + 1]
<1> DEFINE a == SubSeq(s, 1, j - 1)
           b == SubSeq(s, j + 1, Len(s))
<1>1. Len(s) \in Nat /\ \A k \in 1 .. Len(s) : s[k] \in S
  BY LenProperties, ElementOfSeq
<1>2. a \in Seq(S) /\ Len(a) = j - 1 /\ \A k \in 1 .. j - 1 : a[k] = s[k]
  <2>1. \A k \in 1 .. j - 1 : s[k] \in S
    BY <1>1
  <2>2. /\ SubSeq(s, 1, j - 1) \in Seq(S)
        /\ Len(SubSeq(s, 1, j - 1)) = IF 1 =< j - 1 THEN (j - 1) - 1 + 1 ELSE 0
        /\ \A k \in 1 .. (j - 1) - 1 + 1 : SubSeq(s, 1, j - 1)[k] = s[1 + k - 1]
    BY <1>1, <2>1, SubSeqProperties
  <2> QED BY <1>1, <2>2
<1>3. b \in Seq(S) /\ Len(b) = Len(s) - j /\ \A k \in 1 .. Len(s) - j : b[k] = s[j + k]
  <2>1. \A k \in j + 1 .. Len(s) : s[k] \in S
    BY <1>1
  <2>2. /\ SubSeq(s, j + 1, Len(s)) \in Seq(S)
        /\ Len(SubSeq(s, j + 1, Len(s))) = IF j + 1 =< Len(s) THEN Len(s) - (j + 1) + 1 ELSE 0
        /\ \A k \in 1 .. Len(s) - (j + 1) + 1 : SubSeq(s, j + 1, Len(s))[k] = s[j + 1 + k - 1]
    BY <1>1, <2>1, SubSeqProperties
  <2> QED BY <1>1, <2>2
<1>4. WithoutAt(s, j) = a \o b
  BY DEF WithoutAt
<1> HIDE DEF a, b
<1>5. /\ a \o b \in Seq(S) /\ Len(a \o b) = Len(a) + Len(b)
      /\ \A k \in 1 .. Len(a) + Len(b) : (a \o b)[k] = IF k =< Len(a) THEN a[k] ELSE b[k - Len(a)]
  BY ZenonT(60), SMTT(60), <1>2, <1>3, ConcatProperties
<1>6. ASSUME NEW k \in 1 .. Len(s) - 1 PROVE (a \o b)[k] = IF k < j THEN s[k] ELSE s[k + 1]
  <2>1. Len(a) + Len(b) = Len(s) - 1 /\ Len(a) = j - 1 /\ k \in Int /\ j \in Int
    BY <1>1, <1>2, <1>3
  <2>2. (a \o b)[k] = IF k =< j - 1 THEN a[k] ELSE b[k - (j - 1)]
    BY <1>5, <1>6, <2>1
  <2>3. CASE k < j
    <3>1. k \in 1 .. j - 1
      BY <1>6, <2>1, <2>3
    <3> QED BY <1>2, <2>1, <2>2, <2>3, <3>1
  <2>4. CASE ~ (k < j)
    <3>1. k - (j - 1) \in 1 .. Len(s) - j /\ j + (k - (j - 1)) = k + 1
      BY <1>1, <1>6, <2>1, <2>4
    <3>2. b[k - (j - 1)] = s[j + (k - (j - 1))]
      BY <1>3, <3>1
    <3> QED BY <2>1, <2>2, <2>4, <3>1, <3>2
  <2> QED BY ZenonT(60), <2>3, <2>4
<1> QED BY <1>1, <1>2, <1>3, <1>4, <1>5, <1>6

\* eraseRoute takes the last route from an entry only when there was just one.
LEMMA RouteErased ==
    ASSUME NEW e \in Entry, NEW f \in Face, NEW origin
    PROVE  /\ WithoutRoute(e, f, origin) \in Entry
           /\ Position(e, f, origin) = {} \/ getNRoutes(e) # 1 =>
                  (getNRoutes(WithoutRoute(e, f, origin)) = 0 <=> getNRoutes(e) = 0)
           /\ Position(e, f, origin) # {} => getNRoutes(e) # 0
           /\ Position(e, f, origin) # {} /\ getNRoutes(e) = 1 => getNRoutes(WithoutRoute(e, f, origin)) = 0
<1> DEFINE w == WithoutRoute(e, f, origin)
           J == Position(e, f, origin)
           j == Least(J)
           s == e.routes[f]
<1>1. s \in Seq(Route) /\ e.routes \in [Face -> Seq(Route)] /\ e.captures \in Nat
  BY DEF Entry
<1>2. CASE J = {}
  <2>1. w = e
    BY <1>2 DEF WithoutRoute
  <2> QED BY <1>2, <2>1
<1>3. CASE J # {}
  <2>1. j \in 1 .. Len(s)
    BY <1>3, LeastPosition
  <2>2. WithoutAt(s, j) \in Seq(Route) /\ Len(WithoutAt(s, j)) = Len(s) - 1
    BY <1>1, <2>1, RemovedAt
  <2>3. w = [routes |-> [e.routes EXCEPT ![f] = WithoutAt(s, j)],
             captures |-> IF s[j].capture THEN (e.captures + CounterSize - 1) % CounterSize ELSE e.captures]
    BY ZenonT(60), <1>3 DEF WithoutRoute
  <2>4. (e.captures + CounterSize - 1) % CounterSize \in Nat
    BY <1>1, RibAssumption
  <2> HIDE DEF w, J, j, s
  <2>5. w \in Entry /\ w.routes = [e.routes EXCEPT ![f] = WithoutAt(s, j)]
    BY <1>1, <2>2, <2>3, <2>4 DEF Entry
  <2>6. s # <<>>
    BY <2>1
  <2>7. getNRoutes(e) # 0
    BY <2>6, NoRoutesLeft DEF s
  <2>8. ASSUME getNRoutes(e) # 1 PROVE getNRoutes(w) # 0
    <3>1. PICK x \in Slots(e) : x # <<f, j>>
      <4>1. Slots(e) # {} /\ ~ \E x : Slots(e) = {x}
        BY ZenonT(60), <2>7, <2>8, SlotsFinite, FS_EmptySet, FS_Singleton
      <4> QED BY <4>1
    <3>2. PICK g \in Face : x \in {g} \X DOMAIN e.routes[g]
      BY ZenonT(60), <3>1 DEF Slots
    <3>3. CASE g # f
      <4>1. w.routes[g] = e.routes[g] /\ e.routes[g] # <<>>
        BY <1>1, <2>5, <3>2, <3>3
      <4> QED BY ZenonT(60), <2>5, <4>1, NoRoutesLeft
    <3>4. CASE g = f
      <4>1. x[2] \in 1 .. Len(s) /\ x[2] # j
        BY <1>1, <3>1, <3>2, <3>4, LenProperties DEF s
      <4>2. Len(s) \in Nat /\ Len(s) >= 2
        BY <1>1, <2>1, <4>1, LenProperties
      <4>3. WithoutAt(s, j) # <<>>
        BY <2>2, <4>2, EmptySeq
      <4>4. w.routes[f] # <<>>
        BY <1>1, <2>5, <4>3
      <4> QED BY ZenonT(60), <2>5, <4>4, NoRoutesLeft
    <3> QED BY <3>3, <3>4
  <2>9. ASSUME getNRoutes(e) = 1 PROVE getNRoutes(w) = 0
    <3>1. PICK x : Slots(e) = {x}
      BY ZenonT(60), <2>9, SlotsFinite, FS_Singleton
    <3>2. ASSUME NEW g \in Face, NEW k \in DOMAIN e.routes[g] PROVE <<g, k>> = x
      <4>1. <<g, k>> \in {g} \X DOMAIN e.routes[g]
        BY <3>2
      <4>2. <<g, k>> \in Slots(e)
        BY ZenonT(60), <3>2, <4>1 DEF Slots
      <4> QED BY <3>1, <4>2
    <3>3. DOMAIN s = 1 .. Len(s) /\ Len(s) \in Nat
      BY <1>1, LenProperties
    <3>4. x = <<f, j>>
      BY ZenonT(60), <2>1, <3>2, <3>3 DEF s
    <3>5. Len(s) = 1
      <4>1. ASSUME NEW k \in 1 .. Len(s) PROVE k = j
        <5>1. <<f, k>> = x
          BY ZenonT(60), <3>2, <3>3 DEF s
        <5> QED BY <3>4, <5>1
      <4>2. Len(s) >= 2 => 1 \in 1 .. Len(s) /\ 2 \in 1 .. Len(s)
        BY <3>3
      <4> QED BY <2>1, <3>3, <4>1, <4>2
    <3>6. WithoutAt(s, j) = <<>>
      BY <2>2, <3>5, EmptySeq
    <3>7. ASSUME NEW g \in Face, g # f PROVE e.routes[g] = <<>>
      <4>1. e.routes[g] \in Seq(Route) /\ DOMAIN e.routes[g] = {}
        BY <1>1, <3>2, <3>4, <3>7
      <4>2. DOMAIN e.routes[g] = 1 .. Len(e.routes[g])
        BY ZenonT(60), <4>1, LenProperties
      <4>3. e.routes[g] # <<>> => Len(e.routes[g]) \in Nat \ {0}
        BY <4>1, EmptySeq
      <4>4. \A m \in Nat \ {0} : 1 \in 1 .. m
        OBVIOUS
      <4> QED BY ZenonT(60), <4>1, <4>2, <4>3, <4>4
    <3>8. \A g \in Face : w.routes[g] = <<>>
      BY <1>1, <2>5, <3>6, <3>7
    <3> QED BY ZenonT(60), <2>5, <3>8, NoRoutesLeft
  <2> QED BY <1>3, <2>5, <2>7, <2>8, <2>9 DEF w, J
<1> QED BY <1>2, <1>3

\* A second-lowest route is not the only one of its entry.
LEMMA SecondIsNotOnly ==
    ASSUME NEW e \in Entry, NEW f \in Face, SecondLowest(e, f) # {}
    PROVE  getNRoutes(e) # 1
<1> SUFFICES ASSUME getNRoutes(e) = 1 PROVE FALSE
  OBVIOUS
<1>1. PICK x : Slots(e) = {x}
  BY ZenonT(60), SlotsFinite, FS_Singleton
<1>2. PICK r \in SecondLowest(e, f) : TRUE
  OBVIOUS
<1> DEFINE K == {j \in DOMAIN e.routes[f] : e.routes[f][j].cost =< r.cost}
<1>3. Cardinality(K) >= 2
  BY <1>2 DEF SecondLowest
<1>4. ASSUME NEW k \in K PROVE k = x[2]
  <2>1. <<f, k>> \in {f} \X DOMAIN e.routes[f]
    BY <1>4
  <2>2. <<f, k>> \in Slots(e)
    BY ZenonT(60), <2>1 DEF Slots
  <2> QED BY <1>1, <2>2
<1>5. K \in SUBSET {x[2]}
  BY <1>4
<1> HIDE DEF K
<1>6. IsFiniteSet({x[2]}) /\ Cardinality({x[2]}) = 1
  BY ZenonT(60), FS_Singleton
<1>7. Cardinality(K) =< 1 /\ Cardinality(K) \in Nat
  BY <1>5, <1>6, FS_Subset, FS_CardinalityType
<1> QED BY <1>3, <1>7

-----------------------------------------------------------------------------
\* The RIB

RibTyped == rib \in [Name -> Entry]
TreeInv == RibTyped /\ ParentIsLongestPrefix

\* ParentIsLongestPrefix says that the links are right for the entries.
LEMMA TreeLinked ==
    /\ ParentIsLongestPrefix <=> Linked(Entries, parent)
    /\ \A n : findParent(n) = Among(n, Entries)
BY DEF ParentIsLongestPrefix, Linked, findParent, Among, Top

\* Nothing has an entry at first.
LEMMA TreeInit == RibInit => TreeInv
<1> SUFFICES ASSUME RibInit PROVE TreeInv
  OBVIOUS
<1>1. \A n \in Name : rib[n] = NoEntry
  BY DEF RibInit
<1>2. Entries = {}
  BY <1>1, NoEntryEmpty DEF Entries
<1> QED BY <1>2, NoEntryEmpty DEF RibInit, TreeInv, RibTyped, ParentIsLongestPrefix

\* Rib::insert keeps the tree.
LEMMA InsertKeepsTree ==
    ASSUME TreeInv, NEW n \in Name, NEW f \in Face, NEW r \in Route, insert(n, f, r)
    PROVE  TreeInv' /\ Entries' = Entries \cup {n}
<1>1. rib[n] \in Entry
  BY DEF TreeInv, RibTyped
<1>2. WithRoute(rib[n], f, r) \in Entry /\ getNRoutes(WithRoute(rib[n], f, r)) # 0
  BY <1>1, RouteInserted
<1>3. rib' = [rib EXCEPT ![n] = WithRoute(rib[n], f, r)]
  BY DEF insert
<1>4. rib' \in [Name -> Entry]
  BY <1>2, <1>3 DEF TreeInv, RibTyped
<1>5. \A m \in Name : getNRoutes(rib'[m]) # 0 <=> m = n \/ getNRoutes(rib[m]) # 0
  BY <1>2, <1>3 DEF TreeInv, RibTyped
<1>6. Entries' = Entries \cup {n}
  BY <1>5 DEF Entries
<1>7. Linked(Entries, parent) /\ findParent(n) = Among(n, Entries)
  BY TreeLinked DEF TreeInv
<1>8. Linked(Entries \cup {n}, parent')
  <2>1. CASE n \in Entries
    <3>1. \A m \in Name : parent'[m] = parent[m]
      BY <2>1 DEF insert
    <3>2. Entries \cup {n} = Entries /\ Entries \subseteq Name
      BY <2>1 DEF Entries
    <3> QED BY <1>7, <3>1, <3>2 DEF Linked
  <2>2. CASE n \notin Entries
    <3>1. parent' = [m \in Name |->
                       CASE m = n -> Among(n, Entries)
                         [] m # n /\ n \in PrefixOf[m] /\ parent[m] = Among(n, Entries) /\ m \in Entries -> n
                         [] OTHER -> parent[m]]
      <4>1. parent' = [m \in Name |->
                     CASE n \notin Entries /\ m = n -> findParent(n)
                       [] n \notin Entries /\ n \in PrefixOf[m] /\ parent[m] = findParent(n) /\ m \in Entries -> n
                       [] OTHER -> parent[m]]
        BY DEF insert
      <4> HIDE DEF Entries, findParent
      <4> QED BY <1>7, <2>2, <4>1, RibAssumption
    <3>2. Entries \in SUBSET Name /\ n \in Name \ Entries
      BY <2>2 DEF Entries
    <3> QED BY <1>7, <3>1, <3>2, LinksAfterInsert
  <2> QED BY <2>1, <2>2
<1>9. ParentIsLongestPrefix'
  BY <1>6, <1>8 DEF ParentIsLongestPrefix, Linked, findParent, Among, Top
<1> QED BY <1>4, <1>6, <1>9 DEF TreeInv, RibTyped

\* Rib::erase and Rib::eraseEntry keep the tree.
LEMMA EraseKeepsTree ==
    ASSUME TreeInv, NEW n \in Name, NEW f \in Face, NEW origin, erase(n, f, origin)
    PROVE  TreeInv' /\ Entries' = Entries \ ErasedEntries(n, f, origin)
<1>1. rib[n] \in Entry
  BY DEF TreeInv, RibTyped
<1>2. Linked(Entries, parent)
  BY TreeLinked DEF TreeInv
<1>3. CASE Position(rib[n], f, origin) # {} /\ getNRoutes(rib[n]) = 1
  <2>1. rib' = [rib EXCEPT ![n] = NoEntry] /\ ErasedEntries(n, f, origin) = {n}
    BY <1>3 DEF erase, ErasedEntries
  <2>2. rib' \in [Name -> Entry]
    BY <2>1, NoEntryEmpty DEF TreeInv, RibTyped
  <2>3. \A m \in Name : getNRoutes(rib'[m]) # 0 <=> m # n /\ getNRoutes(rib[m]) # 0
    BY <2>1, NoEntryEmpty DEF TreeInv, RibTyped
  <2>4. Entries' = Entries \ {n}
    BY <2>3 DEF Entries
  <2>5. n \in Entries /\ Entries \in SUBSET Name
    BY <1>3 DEF Entries
  <2>6. parent' = [m \in Name |-> IF m = n THEN None ELSE IF parent[m] = n THEN parent[n] ELSE parent[m]]
    BY <1>3 DEF erase
  <2>7. Linked(Entries \ {n}, parent')
    BY <1>2, <2>5, <2>6, LinksAfterErase
  <2>8. ParentIsLongestPrefix'
    BY <2>4, <2>7 DEF ParentIsLongestPrefix, Linked, findParent, Among, Top
  <2> QED BY <2>1, <2>2, <2>4, <2>8 DEF TreeInv, RibTyped
<1>4. CASE ~ (Position(rib[n], f, origin) # {} /\ getNRoutes(rib[n]) = 1)
  <2> DEFINE w == WithoutRoute(rib[n], f, origin)
  <2>1. rib' = [rib EXCEPT ![n] = w] /\ parent' = parent /\ ErasedEntries(n, f, origin) = {}
    BY <1>4 DEF erase, ErasedEntries
  <2>2. w \in Entry /\ (getNRoutes(w) = 0 <=> getNRoutes(rib[n]) = 0)
    BY <1>1, <1>4, RouteErased
  <2> HIDE DEF w
  <2>3. rib' \in [Name -> Entry] /\ \A m \in Name : getNRoutes(rib'[m]) # 0 <=> getNRoutes(rib[m]) # 0
    BY <2>1, <2>2 DEF TreeInv, RibTyped
  <2>4. Entries' = Entries
    BY <2>3 DEF Entries
  <2>5. ParentIsLongestPrefix'
    BY <1>2, <2>1, <2>4 DEF ParentIsLongestPrefix, Linked, findParent, Among, Top
  <2> QED BY <2>1, <2>3, <2>4, <2>5 DEF TreeInv, RibTyped
<1> QED BY <1>3, <1>4

\* The tree stays right under any sequence of registrations and removals: every
\* entry's parent is the longest of its prefixes that have an entry.
THEOREM RibTreeIsRight == RibSpec => []ParentIsLongestPrefix
<1>1. TreeInv /\ [RibNext]_ribVars => TreeInv'
  <2> SUFFICES ASSUME TreeInv, [RibNext]_ribVars PROVE TreeInv'
    OBVIOUS
  <2>1. CASE UNCHANGED ribVars
    BY <2>1 DEF TreeInv, RibTyped, ParentIsLongestPrefix, findParent, Entries, ribVars
  <2>2. CASE RibNext
    <3>1. PICK o \in Offer : Register(o.name, o.face, o.route) \/ Unregister(o.name, o.face, o.route.origin)
      BY <2>2 DEF RibNext
    <3>2. o.name \in Name /\ o.face \in Face /\ o.route \in Route
      BY RibAssumption DEF Route
    <3>3. insert(o.name, o.face, o.route) \/ erase(o.name, o.face, o.route.origin)
      BY <3>1 DEF Register, Unregister
    <3> QED BY <3>2, <3>3, InsertKeepsTree, EraseKeepsTree
  <2> QED BY <2>1, <2>2
<1>2. TreeInv => ParentIsLongestPrefix
  BY DEF TreeInv
<1> QED BY <1>1, <1>2, TreeInit, PTL DEF RibSpec

-----------------------------------------------------------------------------
\* The entries that the inherited routes of an update are meant for

Meant(inh, D) == \A x \in Pair : inh[x] # None => x[1] \in D

\* The helpers change the inherited routes of the pairs they are given.
LEMMA MeantInherit ==
    ASSUME NEW u, NEW D, Meant(u.inherited, D), NEW S, \A x \in S : x[1] \in D, NEW routes
    PROVE  Meant(Inherit(u, S, routes).inherited, D) /\ Meant(Disinherit(u, S).inherited, D)
<1>1. \A x \in Pair : Inherit(u, S, routes).inherited[x] = IF x \in S THEN "add" ELSE u.inherited[x]
  BY DEF Inherit
<1>2. \A x \in Pair : Disinherit(u, S).inherited[x] = IF x \in S THEN "remove" ELSE u.inherited[x]
  BY DEF Disinherit
<1> QED BY <1>1, <1>2 DEF Meant

\* An update of the FIB alone leaves them as they are.
LEMMA MeantFib ==
    ASSUME NEW u, NEW n, NEW f, NEW update
    PROVE  addFibUpdate(u, n, f, update).inherited = u.inherited
BY DEF addFibUpdate

\* At first there are none.
LEMMA MeantNone == ASSUME NEW D PROVE Meant(NoUpdates.inherited, D)
BY DEF Meant, NoUpdates

\* modifyChildrensInheritedRoutes is for the entries it reaches.
LEMMA MeantModify ==
    ASSUME NEW u, NEW D, Meant(u.inherited, D), NEW children, \A f \in Face : Reached(children, f) \subseteq D,
           NEW routes, NEW F \in SUBSET Face
    PROVE  Meant(modifyChildrensInheritedRoutes(u, children, routes, F).inherited, D)
<1> DEFINE reached == [f \in Face |-> Reached(children, f)]
           removed == {x \in Name \X F : x[1] \in reached[x[2]] /\ x[2] \in inherited[x[1]]}
           added == {x \in Name \X FacesOf(routes) : x[1] \in reached[x[2]] /\ ~hasFaceId(rib[x[1]], x[2])}
           v == Disinherit(u, removed)
<1>1. modifyChildrensInheritedRoutes(u, children, routes, F) = Inherit(v, added, routes)
  BY ZenonT(60) DEF modifyChildrensInheritedRoutes
<1>2. FacesOf(routes) \subseteq Face
  BY DEF FacesOf
<1>3. \A f \in Face : reached[f] \subseteq D
  OBVIOUS
<1> HIDE DEF reached
<1>4. \A x \in removed : x[1] \in D
  BY <1>3
<1>5. \A x \in added : x[1] \in D
  BY <1>2, <1>3
<1> HIDE DEF removed, added
<1>6. Meant(v.inherited, D)
  BY <1>4, MeantInherit
<1> HIDE DEF v
<1>7. Meant(Inherit(v, added, routes).inherited, D)
  BY <1>5, <1>6, MeantInherit
<1> QED BY <1>1, <1>7

\* What is reached has an entry.
LEMMA ReachedEntries == ASSUME NEW children, NEW f PROVE Reached(children, f) \subseteq Entries
BY DEF Reached

\* Going down from its children one does not come back to an entry.
LEMMA ReachedBelow ==
    ASSUME TreeInv, NEW n \in Name, NEW f
    PROVE  Reached(Children(n), f) \subseteq Entries \ {n}
<1> DEFINE open == {x \in Entries : ~hasCapture(rib[x]) /\ ~hasChildInheritOnFaceId(rib[x], f)}
           S == {x \in open : n \in PrefixOf[x]}
<1>1. Linked(Entries, parent)
  BY TreeLinked DEF TreeInv
<1>2. \A x \in open : x \in Entries /\ x \in Name
  BY DEF Entries
<1>3. ASSUME NEW x \in open, parent[x] \in Name PROVE parent[x] \in PrefixOf[x]
  <2>1. parent[x] = Among(x, Entries) /\ x \in Name
    BY <1>1, <1>2, <1>3 DEF Linked
  <2>2. PrefixOf[x] \cap Entries = {} => Among(x, Entries) = None
    BY ZenonT(60), <2>1, FindParent
  <2>3. PrefixOf[x] \cap Entries # {} => Among(x, Entries) \in PrefixOf[x]
    BY <2>1, FindParent DEF Longest
  <2> QED BY <1>3, <2>1, <2>2, <2>3, RibAssumption
<1>4. ASSUME NEW x \in open, x \in Children(n) \/ parent[x] \in S PROVE x \in S
  <2>1. CASE x \in Children(n)
    BY <1>3, <1>4, <2>1 DEF Children
  <2>2. CASE parent[x] \in S
    <3>1. parent[x] \in Name /\ n \in PrefixOf[parent[x]]
      BY <1>2, <2>2
    <3>2. parent[x] \in PrefixOf[x] /\ x \in Name
      BY <1>2, <1>3, <3>1
    <3> QED BY <3>1, <3>2, RibAssumption
  <2> QED BY <1>4, <2>1, <2>2
<1>5. S \in SUBSET open /\ n \notin S
  BY RibAssumption
<1>6. Reached(Children(n), f) \subseteq S
  <2>1. Reached(Children(n), f) = {x \in open : \A T \in SUBSET open :
            (\A y \in open : y \in Children(n) \/ parent[y] \in T => y \in T) => x \in T}
    BY ZenonT(60) DEF Reached
  <2> HIDE DEF S, open
  <2> QED BY <1>4, <1>5, <2>1
<1> QED BY <1>2, <1>5, <1>6

\* The updates for one entry n stay with the entries D, when what is reached from
\* its children does.
Kept(n, D) ==
    /\ \A u, routes, F : Meant(u.inherited, D) /\ F \in SUBSET Face
           => Meant(modifyChildrensInheritedRoutes(u, Children(n), routes, F).inherited, D)
    /\ \A u, F, routes : Meant(u.inherited, D) => Meant(Inherit(u, {n} \X F, routes).inherited, D)
    /\ \A u, F : Meant(u.inherited, D) => Meant(Disinherit(u, {n} \X F).inherited, D)
    /\ \A u, g, update : Meant(u.inherited, D) => Meant(addFibUpdate(u, n, g, update).inherited, D)

\* That is so for every entry in D.
LEMMA KeptHolds ==
    ASSUME NEW n, NEW D, n \in D, \A g \in Face : Reached(Children(n), g) \subseteq D
    PROVE  Kept(n, D)
<1>1. \A F : \A x \in {n} \X F : x[1] \in D
  OBVIOUS
<1>2. \A u, routes, F : Meant(u.inherited, D) /\ F \in SUBSET Face
          => Meant(modifyChildrensInheritedRoutes(u, Children(n), routes, F).inherited, D)
  BY MeantModify
<1>3. \A u, F, routes : Meant(u.inherited, D) => Meant(Inherit(u, {n} \X F, routes).inherited, D)
  BY ZenonT(60), <1>1, MeantInherit
<1>4. \A u, F : Meant(u.inherited, D) => Meant(Disinherit(u, {n} \X F).inherited, D)
  BY <1>1, MeantInherit
<1>5. \A u, g, update : Meant(u.inherited, D) => Meant(addFibUpdate(u, n, g, update).inherited, D)
  BY MeantFib
<1> QED BY ZenonT(60), <1>2, <1>3, <1>4, <1>5 DEF Kept

\* FacesOf gives faces.
LEMMA FacesOfType == \A routes : FacesOf(routes) \in SUBSET Face
BY DEF FacesOf

\* A new entry is created with inherited routes for entries and itself.
LEMMA MeantNewEntry ==
    ASSUME NEW n, NEW f, NEW r, NEW c
    PROVE  Meant(createFibUpdatesForNewRibEntry(n, f, r, c).inherited, Entries \cup {n})
<1> DEFINE D == Entries \cup {n}
           u == addFibUpdate(NoUpdates, n, f, AddNextHop(r.cost))
           ancestors == AncestorRoutes[findParent(n)]
           self == Inherit(u, {n} \X (FacesOf(ancestors) \ {f}), ancestors)
           x1 == modifyChildrensInheritedRoutes(u, c, Only(f, r.cost), FacesOf(ancestors))
           x2 == modifyChildrensInheritedRoutes(self, c, [ancestors EXCEPT ![f] = r.cost], {})
           x3 == modifyChildrensInheritedRoutes(u, c, NoRoutes, FacesOf(ancestors))
<1>1. \A g \in Face : Reached(c, g) \subseteq D
  BY ReachedEntries
<1>2. \A F : \A x \in {n} \X F : x[1] \in D
  OBVIOUS
<1>3. FacesOf(ancestors) \in SUBSET Face /\ {} \in SUBSET Face
  BY FacesOfType
<1> HIDE DEF D
<1>4. Meant(u.inherited, D)
  BY MeantNone, MeantFib
<1> HIDE DEF u, ancestors
<1>5. Meant(self.inherited, D)
  BY ZenonT(60), <1>2, <1>4, MeantInherit
<1> HIDE DEF self
<1>6. Meant(x1.inherited, D)
  BY <1>1, <1>3, <1>4, MeantModify
<1>7. Meant(x2.inherited, D)
  BY <1>1, <1>3, <1>5, MeantModify
<1>8. Meant(x3.inherited, D)
  BY <1>1, <1>3, <1>4, MeantModify
<1>9. createFibUpdatesForNewRibEntry(n, f, r, c)
        = CASE ~r.inherit /\ ~r.capture -> self [] r.inherit /\ r.capture -> x1
            [] r.inherit /\ ~r.capture -> x2 [] ~r.inherit /\ r.capture -> x3
  BY ZenonT(60) DEF createFibUpdatesForNewRibEntry, self, u, ancestors
<1> HIDE DEF x1, x2, x3
<1> QED BY <1>5, <1>6, <1>7, <1>8, <1>9 DEF D

\* A new route of an entry in D.
LEMMA MeantNewRoute ==
    ASSUME NEW n, NEW D, Kept(n, D), NEW u, Meant(u.inherited, D), NEW e, NEW f, NEW r, NEW c
    PROVE  Meant(createFibUpdatesForNewRoute(u, n, e, f, r, c).inherited, D)
<1> DEFINE prev == LowestInheritCost(e, f)
           ancestors == AncestorRoutes[parent[n]]
           add == IF r.inherit /\ (prev = None \/ r.cost =< prev) THEN Only(f, r.cost) ELSE NoRoutes
           v == removeInheritedRoutes(u, n, ancestors)
           x1 == modifyChildrensInheritedRoutes(v, Children(n), add, FacesOf(ancestors))
           x2 == modifyChildrensInheritedRoutes(u, Children(n), add, {})
           below == IF c THEN x1 ELSE x2
<1>1. FacesOf(ancestors) \in SUBSET Face /\ {} \in SUBSET Face
  BY FacesOfType
<1>2. createFibUpdatesForNewRoute(u, n, e, f, r, c)
        = IF ~hasFaceId(e, f) \/ r.cost =< LowestCost(e, f)
          THEN addFibUpdate(below, n, f, AddNextHop(r.cost)) ELSE below
  BY ZenonT(60) DEF createFibUpdatesForNewRoute
<1> HIDE DEF prev, ancestors, add
<1>3. Meant(v.inherited, D)
  BY ZenonT(60) DEF Kept, removeInheritedRoutes
<1> HIDE DEF v
<1>4. Meant(x1.inherited, D) /\ Meant(x2.inherited, D)
  BY <1>1, <1>3 DEF Kept
<1> HIDE DEF x1, x2
<1>5. Meant(below.inherited, D)
  BY <1>4
<1> HIDE DEF below
<1>6. Meant(addFibUpdate(below, n, f, AddNextHop(r.cost)).inherited, D)
  BY <1>5 DEF Kept
<1> QED BY <1>2, <1>5, <1>6

\* A route of an entry in D that is updated.
LEMMA MeantUpdatedRoute ==
    ASSUME NEW n, NEW D, Kept(n, D), NEW e, NEW f \in Face, NEW r, NEW old
    PROVE  Meant(createFibUpdatesForUpdatedRoute(n, e, f, r, old).inherited, D)
<1> DEFINE prev == LowestInheritCost(e, f)
           ancestors == AncestorRoutes[parent[n]]
           isBest == prev = None \/ r.cost =< prev
           sameFlags == r.inherit = old.inherit /\ r.capture = old.capture
           Modify(u, add, remove) == modifyChildrensInheritedRoutes(u, Children(n), add, remove)
           own == CASE r.cost = old.cost -> NoUpdates
                    [] r.cost # old.cost /\ r.cost =< LowestCost(e, f) ->
                          addFibUpdate(NoUpdates, n, f, AddNextHop(r.cost))
                    [] r.cost # old.cost /\ old.cost < LowestCost(e, f) /\ LowestCost(e, f) < r.cost ->
                          addFibUpdate(NoUpdates, n, f, AddNextHop(prev))
                    [] OTHER -> NoUpdates
           ChildInherit(u) ==
               CASE ~old.inherit /\ r.inherit /\ isBest -> Modify(u, Only(f, r.cost), {})
                 [] old.inherit /\ ~r.inherit ->
                       Modify(u, Only(f, IF prev # None THEN prev ELSE ancestors[f]), {f})
                 [] OTHER -> u
           Capture(u) ==
               CASE ~old.capture /\ r.capture ->
                       Modify(removeInheritedRoutes(u, n, ancestors), NoRoutes, FacesOf(ancestors))
                 [] old.capture /\ ~r.capture ->
                       Modify(addInheritedRoutes(u, n, e, ancestors), ancestors, {})
                 [] OTHER -> u
<1>1. createFibUpdatesForUpdatedRoute(n, e, f, r, old)
        = IF sameFlags /\ r.cost # old.cost /\ isBest /\ r.inherit
          THEN Modify(own, Only(f, r.cost), {}) ELSE Capture(ChildInherit(own))
  BY ZenonT(60) DEF createFibUpdatesForUpdatedRoute
<1>2. FacesOf(ancestors) \in SUBSET Face /\ {} \in SUBSET Face /\ {f} \in SUBSET Face
  BY FacesOfType
<1> HIDE DEF prev, ancestors, isBest
<1>3. Meant(own.inherited, D)
  <2>1. Meant(NoUpdates.inherited, D)
    BY MeantNone
  <2>2. \A update : Meant(addFibUpdate(NoUpdates, n, f, update).inherited, D)
    BY <2>1 DEF Kept
  <2> QED BY <2>1, <2>2
<1> HIDE DEF own
<1>4. \A u, add, F : Meant(u.inherited, D) /\ F \in SUBSET Face => Meant(Modify(u, add, F).inherited, D)
  BY DEF Kept
<1> HIDE DEF Modify
<1>5. ASSUME NEW u, Meant(u.inherited, D) PROVE Meant(ChildInherit(u).inherited, D)
  <2>1. \A add : Meant(Modify(u, add, {}).inherited, D) /\ Meant(Modify(u, add, {f}).inherited, D)
    BY <1>2, <1>4, <1>5
  <2> QED BY <1>5, <2>1
<1>6. ASSUME NEW u, Meant(u.inherited, D) PROVE Meant(Capture(u).inherited, D)
  <2> DEFINE a == removeInheritedRoutes(u, n, ancestors)
             b == addInheritedRoutes(u, n, e, ancestors)
  <2>1. Meant(a.inherited, D) /\ Meant(b.inherited, D)
    BY ZenonT(60), <1>6 DEF Kept, removeInheritedRoutes, addInheritedRoutes
  <2> HIDE DEF a, b
  <2>2. Meant(Modify(a, NoRoutes, FacesOf(ancestors)).inherited, D)
    BY <1>2, <1>4, <2>1
  <2>3. Meant(Modify(b, ancestors, {}).inherited, D)
    BY <1>2, <1>4, <2>1
  <2> QED BY <1>6, <2>2, <2>3 DEF a, b
<1>7. Meant(Modify(own, Only(f, r.cost), {}).inherited, D)
  BY <1>2, <1>3, <1>4
<1> HIDE DEF ChildInherit, Capture
<1>8. Meant(Capture(ChildInherit(own)).inherited, D)
  BY <1>3, <1>5, <1>6
<1> QED BY <1>1, <1>7, <1>8

\* A registration's inherited routes are for entries and the name registered.
LEMMA MeantRegistration ==
    ASSUME NEW n, NEW f \in Face, NEW r
    PROVE  Meant(computeUpdatesForRegistration(n, f, r).inherited, Entries \cup {n})
<1> DEFINE D == Entries \cup {n}
           J == Position(rib[n], f, r.origin)
           e == [rib[n] EXCEPT !.routes[f] = [j \in DOMAIN @ |-> IF j \in J THEN r ELSE @[j]]]
           x1 == createFibUpdatesForNewRibEntry(n, f, r, childrenOfNewEntry(n))
           x2 == createFibUpdatesForNewRoute(NoUpdates, n, rib[n], f, r, ~hasCapture(rib[n]) /\ r.capture)
           x3 == createFibUpdatesForUpdatedRoute(n, e, f, r, rib[n].routes[f][Least(J)])
<1>1. Kept(n, D)
  BY ReachedEntries, KeptHolds
<1>2. Meant(x1.inherited, D)
  BY ZenonT(60), MeantNewEntry
<1> HIDE DEF D, e
<1>3. Meant(x2.inherited, D)
  BY <1>1, MeantNone, MeantNewRoute
<1>4. Meant(x3.inherited, D)
  BY <1>1, MeantUpdatedRoute
<1>5. computeUpdatesForRegistration(n, f, r) = IF n \notin Entries THEN x1 ELSE IF J = {} THEN x2 ELSE x3
  BY ZenonT(60) DEF computeUpdatesForRegistration, e
<1> HIDE DEF x1, x2, x3
<1> QED BY <1>2, <1>3, <1>4, <1>5 DEF D

\* A route that is erased: the entry itself is among those meant only when it is
\* left with other routes.
LEMMA MeantErasedRoute ==
    ASSUME NEW n, NEW D, \A g \in Face : Reached(Children(n), g) \subseteq D,
           NEW e, getNRoutes(e) # 0 => n \in D, NEW f \in Face, NEW r, NEW c
    PROVE  Meant(createFibUpdatesForErasedRoute(n, e, f, r, c).inherited, D)
<1> DEFINE u == addFibUpdate(NoUpdates, n, f, RemoveNextHop)
           ancestors == AncestorRoutes[parent[n]]
           opened == r.capture /\ c /\ getNRoutes(e) # 0
           self == IF opened THEN addInheritedRoutes(u, n, e, ancestors) ELSE u
           add == IF opened \/ (r.inherit /\ ~r.capture /\ ~hasCapture(e)) THEN ancestors ELSE NoRoutes
           F == IF r.inherit THEN {f} ELSE {}
           below == IF r.inherit \/ r.capture
                    THEN modifyChildrensInheritedRoutes(self, Children(n), add, F) ELSE u
<1>1. createFibUpdatesForErasedRoute(n, e, f, r, c)
        = IF ~hasCapture(e) /\ getNRoutes(e) # 0 /\ ancestors[f] # None
          THEN Inherit(below, {<<n, f>>}, ancestors) ELSE below
  BY ZenonT(60) DEF createFibUpdatesForErasedRoute
<1>2. F \in SUBSET Face
  OBVIOUS
<1> HIDE DEF ancestors, add, F
<1>3. Meant(u.inherited, D)
  BY MeantNone, MeantFib
<1> HIDE DEF u
<1>4. Meant(self.inherited, D)
  <2>1. ASSUME opened PROVE Meant(addInheritedRoutes(u, n, e, ancestors).inherited, D)
    <3>1. n \in D
      BY <2>1
    <3>2. \A G : \A x \in {n} \X G : x[1] \in D
      BY <3>1
    <3> QED BY ZenonT(60), <1>3, <3>2, MeantInherit DEF addInheritedRoutes
  <2> QED BY <1>3, <2>1
<1> HIDE DEF self, opened
<1>5. Meant(modifyChildrensInheritedRoutes(self, Children(n), add, F).inherited, D)
  BY <1>2, <1>4, MeantModify
<1>6. Meant(below.inherited, D)
  BY <1>3, <1>5
<1> HIDE DEF below
<1>7. ASSUME getNRoutes(e) # 0 PROVE Meant(Inherit(below, {<<n, f>>}, ancestors).inherited, D)
  <2>1. \A x \in {<<n, f>>} : x[1] \in D
    BY <1>7
  <2> QED BY ZenonT(60), <1>6, <2>1, MeantInherit
<1> QED BY <1>1, <1>6, <1>7

\* A removal's inherited routes are for entries that outlive it.
LEMMA MeantUnregistration ==
    ASSUME TreeInv, NEW n \in Name, NEW f \in Face, NEW origin,
           NEW v \in computeUpdatesForUnregistration(n, f, origin)
    PROVE  Meant(v.inherited, Entries \ ErasedEntries(n, f, origin))
<1> DEFINE D == Entries \ ErasedEntries(n, f, origin)
           J == Position(rib[n], f, origin)
           e == WithoutRoute(rib[n], f, origin)
           u == createFibUpdatesForErasedRoute(n, e, f, rib[n].routes[f][Least(J)],
                                               hasCapture(rib[n]) /\ ~hasCapture(e))
           next == SecondLowest(rib[n], f)
<1>1. computeUpdatesForUnregistration(n, f, origin)
        = IF J = {} THEN {NoUpdates}
          ELSE IF next # {} THEN {createFibUpdatesForNewRoute(u, n, e, f, r, FALSE) : r \in next}
          ELSE IF getNRoutes(rib[n]) = 1 THEN {createFibUpdatesForErasedRibEntry(u, n)} ELSE {u}
  BY ZenonT(60) DEF computeUpdatesForUnregistration
<1>2. rib[n] \in Entry
  BY DEF TreeInv, RibTyped
<1>3. Meant(NoUpdates.inherited, D)
  BY MeantNone
<1>4. CASE J = {}
  BY <1>1, <1>3, <1>4
<1>5. CASE J # {}
  <2>1. getNRoutes(rib[n]) # 0 /\ (getNRoutes(rib[n]) = 1 => getNRoutes(e) = 0)
    BY <1>2, <1>5, RouteErased
  <2>2. n \in Entries
    BY <2>1 DEF Entries
  <2>3. ErasedEntries(n, f, origin) = IF getNRoutes(rib[n]) = 1 THEN {n} ELSE {}
    BY <1>5 DEF ErasedEntries
  <2>4. \A g \in Face : Reached(Children(n), g) \subseteq D
    BY <2>3, ReachedBelow
  <2>5. (getNRoutes(rib[n]) # 1 => n \in D) /\ (getNRoutes(e) # 0 => n \in D)
    BY <2>1, <2>2, <2>3
  <2> HIDE DEF D, e, J
  <2>6. Meant(u.inherited, D)
    BY ZenonT(60), <2>4, <2>5, MeantErasedRoute
  <2> HIDE DEF u
  <2>7. Meant(createFibUpdatesForErasedRibEntry(u, n).inherited, D)
    BY <2>6 DEF createFibUpdatesForErasedRibEntry
  <2>8. ASSUME NEW r, next # {} PROVE Meant(createFibUpdatesForNewRoute(u, n, e, f, r, FALSE).inherited, D)
    <3>1. n \in D
      BY <1>2, <2>5, <2>8, SecondIsNotOnly
    <3>2. Kept(n, D)
      BY <2>4, <3>1, KeptHolds
    <3> QED BY ZenonT(60), <2>6, <3>2, MeantNewRoute
  <2> HIDE DEF next
  <2> QED BY ZenonT(60), <1>1, <1>5, <2>6, <2>7, <2>8 DEF D
<1> QED BY <1>4, <1>5

-----------------------------------------------------------------------------
\* Lists of commands

IsSeq(s) == \E S : s \in Seq(S)
IsCommand(c) ==
    /\ DOMAIN c = {"batch", "update", "sent", "nTimeouts", "reply", "current"}
    /\ c.batch \in Batch /\ c.current \in BOOLEAN
Alike(c, d) ==
    DOMAIN c = DOMAIN d /\ c.batch = d.batch /\ c.update = d.update /\ c.current = d.current
ComesFrom(s, t) == IsSeq(s) /\ \A i \in DOMAIN s : \E k \in DOMAIN t : Alike(s[i], t[k])

\* s has one command for each update in W and no other.
Carries(s, W) ==
    /\ \A i \in DOMAIN s : s[i].update \in W
    /\ \A w \in W : \E i \in DOMAIN s : s[i].update = w
    /\ \A i, k \in DOMAIN s : s[i].update = s[k].update => i = k

\* The first command is answered.
LEMMA TailCarries ==
    ASSUME NEW s, IsSeq(s), s # <<>>
    PROVE  /\ ComesFrom(Tail(s), s) /\ 1 \in DOMAIN s /\ Head(s) = s[1]
           /\ \A W : Carries(s, W) => Carries(Tail(s), W \ {Head(s).update}) /\ Head(s).update \in W
<1>1. PICK S : s \in Seq(S)
  BY DEF IsSeq
<1>2. /\ Tail(s) \in Seq(S) /\ Len(Tail(s)) = Len(s) - 1
      /\ \A i \in 1 .. Len(Tail(s)) : Tail(s)[i] = s[i + 1]
  BY <1>1, HeadTailProperties
<1>3. DOMAIN s = 1 .. Len(s) /\ Len(s) \in Nat \ {0}
  BY <1>1, LenProperties, EmptySeq
<1>4. DOMAIN Tail(s) = 1 .. Len(s) - 1
  BY <1>2, LenProperties
<1>5. Head(s) = s[1] /\ 1 \in DOMAIN s
  BY <1>1, <1>3 DEF Head
<1>6. \A i \in DOMAIN Tail(s) : i + 1 \in DOMAIN s /\ i + 1 # 1 /\ Tail(s)[i] = s[i + 1]
  BY <1>2, <1>3, <1>4
<1>7. \A i \in DOMAIN s : i # 1 => i - 1 \in DOMAIN Tail(s) /\ Tail(s)[i - 1] = s[i]
  <2> SUFFICES ASSUME NEW i \in DOMAIN s, i # 1 PROVE i - 1 \in DOMAIN Tail(s) /\ Tail(s)[i - 1] = s[i]
    OBVIOUS
  <2>1. i - 1 \in DOMAIN Tail(s) /\ (i - 1) + 1 = i
    BY <1>3, <1>4
  <2> QED BY <1>6, <2>1
<1>8. ComesFrom(Tail(s), s)
  BY <1>2, <1>6 DEF ComesFrom, IsSeq, Alike
<1>9. ASSUME NEW W, Carries(s, W) PROVE Carries(Tail(s), W \ {Head(s).update}) /\ Head(s).update \in W
  <2>1. \A i \in DOMAIN Tail(s) : Tail(s)[i].update \in W \ {Head(s).update}
    BY <1>5, <1>6, <1>9 DEF Carries
  <2>2. ASSUME NEW w \in W \ {Head(s).update} PROVE \E i \in DOMAIN Tail(s) : Tail(s)[i].update = w
    <3>1. PICK i \in DOMAIN s : s[i].update = w
      BY <1>9, <2>2 DEF Carries
    <3>2. i # 1
      BY <1>5, <2>2, <3>1
    <3>3. i - 1 \in DOMAIN Tail(s) /\ Tail(s)[i - 1] = s[i]
      BY <1>7, <3>2
    <3> QED BY <3>1, <3>3
  <2>3. ASSUME NEW i \in DOMAIN Tail(s), NEW k \in DOMAIN Tail(s), Tail(s)[i].update = Tail(s)[k].update
        PROVE  i = k
    <3>1. i + 1 = k + 1 /\ i \in Int /\ k \in Int
      BY <1>4, <1>6, <1>9, <2>3 DEF Carries
    <3> QED BY <3>1
  <2> QED BY <1>5, <1>9, <2>1, <2>2, <2>3 DEF Carries
<1> QED BY <1>5, <1>8, <1>9

\* Where the i-th of N elements was before the j-th was moved to the end.
Before(i, j, N) == IF i = N THEN j ELSE IF i < j THEN i ELSE i + 1

\* Moving an element to the end permutes the places.
LEMMA BeforePermutes ==
    ASSUME NEW N \in Nat, NEW j \in 1 .. N
    PROVE  /\ \A i \in 1 .. N : Before(i, j, N) \in 1 .. N
           /\ \A i, k \in 1 .. N : Before(i, j, N) = Before(k, j, N) => i = k
           /\ \A k \in 1 .. N : \E i \in 1 .. N : Before(i, j, N) = k
<1>1. \A i \in 1 .. N : Before(i, j, N) \in 1 .. N
  BY DEF Before
<1>2. \A i, k \in 1 .. N : Before(i, j, N) = Before(k, j, N) => i = k
  BY DEF Before
<1>3. ASSUME NEW k \in 1 .. N PROVE \E i \in 1 .. N : Before(i, j, N) = k
  <2>1. CASE k = j
    <3>1. N \in 1 .. N /\ Before(N, j, N) = k
      BY <2>1 DEF Before
    <3> QED BY <3>1
  <2>2. CASE k < j
    <3>1. Before(k, j, N) = k
      BY <1>3, <2>2 DEF Before
    <3> QED BY <3>1
  <2>3. CASE k > j
    <3>1. k - 1 \in 1 .. N /\ Before(k - 1, j, N) = k
      BY <1>3, <2>3 DEF Before
    <3> QED BY <3>1
  <2> QED BY <2>1, <2>2, <2>3
<1> QED BY <1>1, <1>2, <1>3

\* A command is sent again, behind the others.
LEMMA MovedCarries ==
    ASSUME NEW s, IsSeq(s), NEW j \in DOMAIN s, NEW c, Alike(c, s[j])
    PROVE  /\ ComesFrom(Append(WithoutAt(s, j), c), s)
           /\ \A W : Carries(s, W) => Carries(Append(WithoutAt(s, j), c), W)
<1>1. PICK S0 : s \in Seq(S0)
  BY DEF IsSeq
<1> DEFINE S == S0 \cup {c}
           N == Len(s)
           t == WithoutAt(s, j)
           a == Append(t, c)
<1>2. s \in Seq(S) /\ c \in S
  BY <1>1, SeqMonotonic
<1> HIDE DEF S
<1>3. DOMAIN s = 1 .. N /\ N \in Nat /\ j \in 1 .. N
  BY <1>2, LenProperties
<1>4. /\ t \in Seq(S) /\ Len(t) = N - 1
      /\ \A k \in 1 .. N - 1 : t[k] = IF k < j THEN s[k] ELSE s[k + 1]
  BY ZenonT(60), <1>2, <1>3, RemovedAt
<1> HIDE DEF t, N
<1>5. /\ a \in Seq(S) /\ Len(a) = Len(t) + 1 /\ a[Len(t) + 1] = c
      /\ \A i \in 1 .. Len(t) : a[i] = t[i]
  BY <1>2, <1>4, AppendProperties
<1> HIDE DEF a
<1>6. DOMAIN a = 1 .. N
  <2>1. DOMAIN a = 1 .. Len(a)
    BY <1>5, LenProperties
  <2>2. Len(a) = N
    BY <1>3, <1>4, <1>5
  <2> QED BY <2>1, <2>2
<1>7. ASSUME NEW i \in 1 .. N PROVE Alike(a[i], s[Before(i, j, N)])
  <2>1. CASE i = N
    <3>1. a[i] = c
      BY <1>3, <1>4, <1>5, <2>1
    <3> QED BY <2>1, <3>1 DEF Before
  <2>2. CASE i # N
    <3>1. i \in 1 .. N - 1
      BY <1>3, <1>7, <2>2
    <3>2. a[i] = IF i < j THEN s[i] ELSE s[i + 1]
      BY <1>3, <1>4, <1>5, <3>1
    <3> QED BY <2>2, <3>2 DEF Alike, Before
  <2> QED BY <2>1, <2>2
<1>8. /\ \A i \in 1 .. N : Before(i, j, N) \in 1 .. N
      /\ \A i, k \in 1 .. N : Before(i, j, N) = Before(k, j, N) => i = k
      /\ \A k \in 1 .. N : \E i \in 1 .. N : Before(i, j, N) = k
  BY ZenonT(60), <1>3, BeforePermutes
<1>9. ComesFrom(a, s)
  BY ZenonT(60), <1>3, <1>5, <1>6, <1>7, <1>8 DEF ComesFrom, IsSeq
<1>10. ASSUME NEW W, Carries(s, W) PROVE Carries(a, W)
  <2>1. \A i \in 1 .. N : a[i].update = s[Before(i, j, N)].update
    BY <1>7 DEF Alike
  <2>2. \A i \in 1 .. N : a[i].update \in W
    BY ZenonT(60), <1>3, <1>8, <1>10, <2>1 DEF Carries
  <2>3. ASSUME NEW w \in W PROVE \E i \in 1 .. N : a[i].update = w
    <3>1. PICK k \in 1 .. N : s[k].update = w
      BY <1>3, <1>10, <2>3 DEF Carries
    <3> QED BY <1>8, <2>1, <3>1
  <2>4. ASSUME NEW i \in 1 .. N, NEW k \in 1 .. N, a[i].update = a[k].update PROVE i = k
    <3>1. s[Before(i, j, N)].update = s[Before(k, j, N)].update
      BY <2>1, <2>4
    <3>2. Before(i, j, N) \in DOMAIN s /\ Before(k, j, N) \in DOMAIN s
      BY <1>3, <1>8
    <3>3. \A x, y \in DOMAIN s : s[x].update = s[y].update => x = y
      BY <1>10 DEF Carries
    <3>4. Before(i, j, N) = Before(k, j, N)
      BY <3>1, <3>2, <3>3
    <3> QED BY <1>8, <3>4
  <2> QED BY <1>6, <2>2, <2>3, <2>4 DEF Carries
<1> QED BY <1>9, <1>10 DEF a, t

\* What is sent for the updates U: one command each.
LEMMA SentCarries ==
    ASSUME NEW U, IsFiniteSet(U), NEW t \in Listings(U), NEW batch \in Batch, NEW own \in BOOLEAN, NEW s,
           s = [j \in DOMAIN t |-> Command(batch, own, t[j])]
    PROVE  /\ IsSeq(s) /\ Carries(s, U)
           /\ \A i \in DOMAIN s : IsCommand(s[i]) /\ s[i].batch = batch /\ s[i].current = own
<1> DEFINE N == Cardinality(U)
<1>1. N \in Nat
  BY FS_CardinalityType
<1>2. t \in [1 .. N -> U] /\ \A i, j \in 1 .. N : i # j => t[i] # t[j]
  BY DEF Listings
<1>3. t \in Surjection(1 .. N, U)
  <2>1. t \in Injection(1 .. N, U)
    BY <1>2 DEF Injection, IsInjective
  <2>2. IsFiniteSet(1 .. N) /\ Cardinality(1 .. N) = N
    BY <1>1, FS_Interval
  <2> HIDE DEF N
  <2> QED BY <2>1, <2>2, FS_Injection DEF N
<1> HIDE DEF N
<1>4. \A w \in U : \E i \in 1 .. N : t[i] = w
  BY <1>3 DEF Surjection
<1>5. DOMAIN s = 1 .. N
  BY <1>2
<1>6. \A i \in 1 .. N : s[i] = Command(batch, own, t[i])
  BY <1>2
<1>7. s \in Seq({Command(batch, own, u) : u \in U})
  <2>1. s \in [1 .. N -> {Command(batch, own, u) : u \in U}]
    BY <1>2
  <2> HIDE DEF N
  <2> QED BY <1>1, <2>1, SeqDef
<1>8. ASSUME NEW i \in 1 .. N
      PROVE  IsCommand(s[i]) /\ s[i].batch = batch /\ s[i].current = own /\ s[i].update = t[i]
  <2> DEFINE c == Command(batch, own, t[i])
  <2>1. DOMAIN c = {"batch", "update", "sent", "nTimeouts", "reply", "current"}
    BY DEF Command
  <2>2. c.batch = batch /\ c.current = own /\ c.update = t[i]
    BY DEF Command
  <2>3. s[i] = c
    BY <1>6, <1>8
  <2> HIDE DEF c
  <2> QED BY <2>1, <2>2, <2>3 DEF IsCommand
<1>9. Carries(s, U)
  <2>1. \A i \in DOMAIN s : s[i].update \in U
    BY <1>2, <1>5, <1>8
  <2>2. \A w \in U : \E i \in DOMAIN s : s[i].update = w
    BY <1>4, <1>5, <1>8
  <2>3. ASSUME NEW i \in DOMAIN s, NEW k \in DOMAIN s, s[i].update = s[k].update PROVE i = k
    <3>1. t[i] = t[k]
      BY <1>5, <1>8, <2>3
    <3> QED BY <1>2, <1>5, <3>1
  <2> QED BY <2>1, <2>2, <2>3 DEF Carries
<1> QED BY ZenonT(60), <1>5, <1>7, <1>8, <1>9 DEF IsSeq

\* r holds what s and then t hold.
Joined(r, s, t) ==
    /\ IsSeq(r)
    /\ \A i \in DOMAIN r : \/ \E k \in DOMAIN s : r[i] = s[k]
                           \/ \E k \in DOMAIN t : r[i] = t[k]
    /\ s = <<>> => r = t

\* Two lists of commands, one behind the other.
LEMMA JoinedLists ==
    ASSUME NEW s, IsSeq(s), NEW t, IsSeq(t)
    PROVE  /\ IsSeq(s \o t)
           /\ \A i \in DOMAIN (s \o t) : \/ \E k \in DOMAIN s : (s \o t)[i] = s[k]
                                         \/ \E k \in DOMAIN t : (s \o t)[i] = t[k]
           /\ s = <<>> => s \o t = t
<1>1. PICK S : s \in Seq(S)
  BY DEF IsSeq
<1>2. PICK T : t \in Seq(T)
  BY DEF IsSeq
<1> DEFINE R == S \cup T
<1>3. s \in Seq(R) /\ t \in Seq(R)
  BY <1>1, <1>2, SeqMonotonic
<1> HIDE DEF R
<1>4. /\ s \o t \in Seq(R) /\ Len(s \o t) = Len(s) + Len(t)
      /\ \A i \in 1 .. Len(s) + Len(t) : (s \o t)[i] = IF i =< Len(s) THEN s[i] ELSE t[i - Len(s)]
  BY <1>3, ConcatProperties
<1>5. /\ DOMAIN s = 1 .. Len(s) /\ DOMAIN t = 1 .. Len(t) /\ DOMAIN (s \o t) = 1 .. Len(s \o t)
      /\ Len(s) \in Nat /\ Len(t) \in Nat
  BY <1>3, <1>4, LenProperties
<1>6. ASSUME NEW i \in DOMAIN (s \o t)
      PROVE  (\E k \in DOMAIN s : (s \o t)[i] = s[k]) \/ \E k \in DOMAIN t : (s \o t)[i] = t[k]
  <2> DEFINE a == Len(s)
             b == Len(t)
  <2>1. i \in 1 .. a + b /\ a \in Nat /\ b \in Nat
    BY <1>4, <1>5, <1>6
  <2>2. (s \o t)[i] = IF i =< a THEN s[i] ELSE t[i - a]
    BY <1>4, <2>1
  <2> HIDE DEF a, b
  <2>3. i =< a => i \in 1 .. a
    BY <2>1
  <2>4. ~ (i =< a) => i - a \in 1 .. b
    BY <2>1
  <2> QED BY <1>5, <2>2, <2>3, <2>4 DEF a, b
<1>7. s = <<>> => s \o t = t
  BY <1>3, ConcatEmptySeq
<1> QED BY <1>4, <1>6, <1>7 DEF IsSeq

\* The same of a list known to be the two joined.
LEMMA JoinedIs ==
    ASSUME NEW s, IsSeq(s), NEW t, IsSeq(t), NEW r, r = s \o t
    PROVE  Joined(r, s, t)
<1>1. Joined(s \o t, s, t)
  BY ZenonT(60), SMTT(60), JoinedLists DEF Joined
<1> QED BY ZenonT(60), SMTT(60), <1>1

\* A finite set in some order is a sequence over it.
LEMMA InSomeOrder == ASSUME NEW S, IsFiniteSet(S) PROVE Listing(S) \in Seq(S)
<1> DEFINE N == Cardinality(S)
<1>1. N \in Nat /\ ExistsBijection(1 .. N, S)
  BY FS_CardinalityType
<1>2. \E g \in [1 .. N -> S] : g \in Listings(S)
  BY <1>1 DEF ExistsBijection, Bijection, Injection, IsInjective, Listings
<1>3. Listing(S) \in [1 .. N -> S]
  BY ZenonT(60), <1>2 DEF Listing, Listings
<1> HIDE DEF N
<1> QED BY <1>1, <1>3, SeqDef

\* The updates computed for the FIB are finitely many.
LEMMA FibUpdatesFinite ==
    ASSUME NEW u, NEW F
    PROVE  IsFiniteSet(FibUpdates(u, F)) /\ \A w \in FibUpdates(u, F) : w.face \in F
<1> DEFINE X == {y \in Pair : u.fib[y] # None /\ y[2] \in F}
           rec(x) == [name |-> x[1], face |-> x[2], action |-> u.fib[x].action, cost |-> u.fib[x].cost]
           Y == {rec(x) : x \in X}
           g == [x \in X |-> rec(x)]
<1>1. IsFiniteSet(Pair)
  BY RibAssumption, FS_Product DEF Pair
<1>2. IsFiniteSet(X)
  BY <1>1, FS_Subset
<1>3. g \in Surjection(X, Y)
  <2> HIDE DEF X, rec
  <2> QED BY DEF Surjection
<1>4. IsFiniteSet(Y)
  <2> HIDE DEF X, Y, g
  <2> QED BY <1>2, <1>3, FS_Surjection
<1>5. FibUpdates(u, F) = Y
  BY ZenonT(60) DEF FibUpdates
<1>6. \A x \in X : rec(x).face = x[2] /\ x[2] \in F
  OBVIOUS
<1>7. \A w \in Y : w.face \in F
  <2> HIDE DEF X, rec
  <2> QED BY <1>6
<1> QED BY <1>4, <1>5, <1>7

\* The removals enqueued for faces are finitely many.
LEMMA RemovalsTyped ==
    ASSUME RibTyped, NEW F \in SUBSET Face
    PROVE  RoutesOfFaces(F) \in SUBSET Batch /\ Listing(RoutesOfFaces(F)) \in Seq(RoutesOfFaces(F))
<1> DEFINE rec(n, f, r) == [action |-> "REMOVE_FACE", name |-> n, face |-> f, route |-> r]
           A(n, f) == {rec(n, f, r) : r \in RoutesOn(rib[n], f)}
           B(f) == {A(n, f) : n \in Name}
           C == {UNION B(f) : f \in F}
<1>1. RoutesOfFaces(F) = UNION C
  BY ZenonT(60) DEF RoutesOfFaces
<1>2. ASSUME NEW n \in Name, NEW f \in F PROVE IsFiniteSet(A(n, f)) /\ A(n, f) \subseteq Batch
  <2> DEFINE s == rib[n].routes[f]
             g == [j \in DOMAIN s |-> rec(n, f, s[j])]
  <2>1. s \in Seq(Route)
    BY DEF RibTyped, Entry
  <2>2. DOMAIN s = 1 .. Len(s) /\ Len(s) \in Nat /\ \A j \in DOMAIN s : s[j] \in Route
    BY <2>1, LenProperties, ElementOfSeq
  <2>3. A(n, f) = {rec(n, f, s[j]) : j \in DOMAIN s}
    BY DEF RoutesOn
  <2>4. \A j \in DOMAIN s : rec(n, f, s[j]) \in Batch
    BY <2>2 DEF Batch, Route
  <2> HIDE DEF s, rec
  <2>5. A(n, f) \subseteq Batch
    BY <2>3, <2>4
  <2>6. IsFiniteSet(DOMAIN s)
    <3>1. IsFiniteSet(1 .. Len(s))
      BY <2>2, FS_Interval
    <3> QED BY <2>2, <3>1
  <2>7. g \in Surjection(DOMAIN s, A(n, f))
    <3> HIDE DEF A
    <3> QED BY <2>3 DEF Surjection
  <2> HIDE DEF A, g
  <2> QED BY <2>5, <2>6, <2>7, FS_Surjection
<1> HIDE DEF A
<1>3. ASSUME NEW f \in F PROVE IsFiniteSet(UNION B(f)) /\ UNION B(f) \subseteq Batch
  <2> DEFINE g == [n \in Name |-> A(n, f)]
  <2>1. g \in Surjection(Name, B(f))
    BY DEF Surjection
  <2>2. \A T \in B(f) : IsFiniteSet(T) /\ T \subseteq Batch
    BY <1>2, <1>3
  <2> HIDE DEF B, g
  <2>3. IsFiniteSet(B(f))
    BY <2>1, RibAssumption, FS_Surjection
  <2>4. IsFiniteSet(UNION B(f))
    BY <2>2, <2>3, FS_UNION
  <2> QED BY <2>2, <2>4
<1> HIDE DEF B
<1>4. IsFiniteSet(C)
  <2> DEFINE g == [f \in F |-> UNION B(f)]
  <2>1. g \in Surjection(F, C)
    BY ZenonT(60) DEF Surjection
  <2>2. IsFiniteSet(F)
    BY RibAssumption, FS_Subset
  <2> HIDE DEF C, g
  <2> QED BY <2>1, <2>2, FS_Surjection
<1>5. \A T \in C : IsFiniteSet(T) /\ T \subseteq Batch
  BY <1>3
<1> HIDE DEF C
<1>6. IsFiniteSet(UNION C)
  BY <1>4, <1>5, FS_UNION
<1>7. UNION C \subseteq Batch
  BY <1>5
<1>8. Listing(UNION C) \in Seq(UNION C)
  BY <1>6, InSomeOrder
<1> QED BY <1>1, <1>7, <1>8

-----------------------------------------------------------------------------
\* The invariant

Calls == [to : Function, batch : Batch \cup {None}, own : BOOLEAN]
CallTyped == call \in Calls \cup {None} /\ (Ending => call.batch \in Batch)
UpdatesTyped ==
    /\ IsFiniteSet(m_updatesForBatchFaceId) /\ IsFiniteSet(m_updatesForNonBatchFaceId)
    /\ \A w \in m_updatesForBatchFaceId : w.face = m_batchFaceId
    /\ \A w \in m_updatesForNonBatchFaceId : w.face # m_batchFaceId
CommandsTyped == IsSeq(commands) /\ \A i \in DOMAIN commands : IsCommand(commands[i])
Typed == TreeInv /\ m_updateBatches \in Seq(Batch) /\ CallTyped /\ UpdatesTyped /\ CommandsTyped

\* The updates that the commands on their way are for
Outstanding ==
    IF m_updatesForBatchFaceId # {} THEN m_updatesForBatchFaceId ELSE m_updatesForNonBatchFaceId
CommandsCurrent == \A i \in DOMAIN commands : commands[i].current /\ EntriesExist(commands[i].batch)
Succeeding == call # None /\ call.to = "onFibUpdateSuccess"
InOrder ==
    /\ CommandsCurrent
    /\ ~m_isUpdateInProgress => commands = <<>> /\ ~Ending
    /\ m_isUpdateInProgress /\ ~Ending => Carries(commands, Outstanding)
    /\ Ending => call.own
    /\ Succeeding => commands = <<>> /\ EntriesExist(call.batch)
FuInv == Typed /\ (~strayed => InOrder)

\* The entries there are when the batch b has been applied
Targets(b) ==
    IF b.action = "REGISTER" THEN Entries \cup {b.name}
    ELSE Entries \ ErasedEntries(b.name, b.face, b.route.origin)

\* The assertion of modifyInheritedRoutes in terms of Meant.
LEMMA AssertionMeant == \A b : EntriesExist(b) <=> Meant(m_inheritedRoutes, Targets(b))
BY DEF EntriesExist, Meant, Targets

\* The calls that are made are calls, and not None.
LEMMA CallsTyped ==
    /\ SendBatch \in Calls /\ SendBatch # None /\ SendBatch.to = "sendBatchFromQueue"
    /\ \A batch \in Batch, own \in BOOLEAN, function \in Function :
          /\ Call(function, batch, own) \in Calls /\ Call(function, batch, own) # None
          /\ Call(function, batch, own).to = function /\ Call(function, batch, own).batch = batch
          /\ Call(function, batch, own).own = own
<1>1. SendBatch \in Calls /\ SendBatch.to = "sendBatchFromQueue"
  BY DEF SendBatch, Call, Calls, Function
<1>2. ASSUME NEW batch \in Batch, NEW own \in BOOLEAN, NEW function \in Function
      PROVE  /\ Call(function, batch, own) \in Calls
             /\ Call(function, batch, own).to = function /\ Call(function, batch, own).batch = batch
             /\ Call(function, batch, own).own = own
  BY DEF Call, Calls
<1>3. None \notin Calls
  BY FibUpdaterAssumption DEF Calls
<1> QED BY <1>1, <1>2, <1>3

\* It holds at first.
LEMMA FuInvInit == FuInit => FuInv
<1> SUFFICES ASSUME FuInit PROVE FuInv
  OBVIOUS
<1>1. TreeInv
  BY TreeInit DEF FuInit
<1>2. m_updateBatches \in Seq(Batch) /\ commands \in Seq({}) /\ commands = <<>> /\ DOMAIN commands = {}
  BY DEF FuInit
<1>3. call = None /\ ~Ending /\ ~Succeeding
  BY DEF FuInit, Ending, Succeeding
<1>4. UpdatesTyped
  BY FS_EmptySet DEF FuInit, UpdatesTyped
<1>5. CommandsTyped /\ CommandsCurrent
  BY <1>2 DEF CommandsTyped, CommandsCurrent, IsSeq
<1>6. ~m_isUpdateInProgress
  BY DEF FuInit
<1> QED BY <1>1, <1>2, <1>3, <1>4, <1>5, <1>6 DEF FuInv, Typed, CallTyped, InOrder

\* A step that leaves the entries and their parents alone.
LEMMA TreeAside == ASSUME TreeInv, rib' = rib, parent' = parent PROVE TreeInv'
<1>1. Entries' = Entries
  BY DEF Entries
<1>2. ParentIsLongestPrefix'
  BY <1>1 DEF TreeInv, ParentIsLongestPrefix, findParent
<1> QED BY <1>2 DEF TreeInv, RibTyped

\* A step that touches neither RIB nor batch in progress, while nothing is ending.
LEMMA FuInvAside ==
    ASSUME FuInv, ~Ending, ~Ending', UNCHANGED <<rib, parent, m_isUpdateInProgress, updates, commands, strayed>>,
           m_updateBatches' \in Seq(Batch), call' \in Calls \cup {None}
    PROVE  FuInv'
<1>1. TreeInv'
  BY TreeAside DEF FuInv, Typed
<1>2. CallTyped' /\ ~Succeeding'
  BY DEF CallTyped, Ending, Succeeding
<1>3. UpdatesTyped'
  BY DEF FuInv, Typed, UpdatesTyped, updates
<1>4. CommandsTyped'
  BY DEF FuInv, Typed, CommandsTyped
<1>5. \A b : EntriesExist(b)' <=> EntriesExist(b)
  BY DEF EntriesExist, Entries, ErasedEntries, updates
<1>6. ASSUME ~strayed' PROVE InOrder'
  <2>1. InOrder
    BY <1>6 DEF FuInv
  <2>2. CommandsCurrent'
    BY <1>5, <2>1 DEF InOrder, CommandsCurrent
  <2>3. Outstanding' = Outstanding
    BY DEF Outstanding, updates
  <2> QED BY <1>2, <2>1, <2>2, <2>3 DEF InOrder
<1> QED BY <1>1, <1>2, <1>3, <1>4, <1>6 DEF FuInv, Typed

\* What comes in only waits.
LEMMA IncomingKeeps ==
    ASSUME FuInv,
           \/ \E o \in Offer, action \in {"REGISTER", "UNREGISTER"} : beginApplyUpdate(o, action)
           \/ \E f \in Face : onNotification(f) \/ DestroyFace(f)
           \/ fetchActiveFaces
    PROVE  FuInv'
<1>0. m_updateBatches \in Seq(Batch) /\ RibTyped
  BY DEF FuInv, Typed, TreeInv
<1>1. ASSUME NEW o \in Offer, NEW action \in {"REGISTER", "UNREGISTER"}, beginApplyUpdate(o, action) PROVE FuInv'
  <2> DEFINE b == [action |-> action, name |-> o.name, face |-> o.face, route |-> o.route]
  <2>1. b \in Batch
    BY RibAssumption DEF Batch
  <2>2. m_updateBatches' = Append(m_updateBatches, b) /\ call = None /\ call' = SendBatch
    BY <1>1 DEF beginApplyUpdate
  <2> HIDE DEF b
  <2>3. m_updateBatches' \in Seq(Batch)
    BY <1>0, <2>1, <2>2, AppendProperties
  <2>4. ~Ending /\ ~Ending' /\ call' \in Calls \cup {None}
    BY <2>2, CallsTyped DEF Ending
  <2>5. UNCHANGED <<rib, parent, m_isUpdateInProgress, updates, commands, strayed>>
    BY <1>1 DEF beginApplyUpdate, ribVars, history
  <2> QED BY <2>3, <2>4, <2>5, FuInvAside
<1>2. ASSUME NEW F \in SUBSET Face, call = None, enqueueRemoveFaces(F) PROVE FuInv'
  <2>1. RoutesOfFaces(F) \in SUBSET Batch /\ Listing(RoutesOfFaces(F)) \in Seq(RoutesOfFaces(F))
    BY <1>0, RemovalsTyped
  <2>2. Listing(RoutesOfFaces(F)) \in Seq(Batch)
    BY <2>1, SeqMonotonic
  <2>3. m_updateBatches' \in Seq(Batch)
    BY <1>0, <1>2, <2>2, ConcatProperties DEF enqueueRemoveFaces
  <2>4. ~Ending /\ ~Ending' /\ call' \in Calls \cup {None}
    BY <1>2, CallsTyped DEF Ending, enqueueRemoveFaces
  <2>5. UNCHANGED <<rib, parent, m_isUpdateInProgress, updates, commands, strayed>>
    BY <1>2 DEF enqueueRemoveFaces, ribVars, history
  <2> QED BY <2>3, <2>4, <2>5, FuInvAside
<1>3. ASSUME NEW f \in Face, onNotification(f) PROVE FuInv'
  BY <1>2, <1>3 DEF onNotification
<1>4. ASSUME fetchActiveFaces PROVE FuInv'
  BY <1>2, <1>4 DEF fetchActiveFaces
<1>5. ASSUME NEW f \in Face, DestroyFace(f) PROVE FuInv'
  <2>1. ~Ending /\ ~Ending' /\ call' \in Calls \cup {None} /\ m_updateBatches' \in Seq(Batch)
    BY <1>0, <1>5 DEF DestroyFace, Ending
  <2>2. UNCHANGED <<rib, parent, m_isUpdateInProgress, updates, commands, strayed>>
    BY <1>5 DEF DestroyFace, history
  <2> QED BY <2>1, <2>2, FuInvAside
<1> QED BY <1>1, <1>3, <1>4, <1>5

\* Commands that come from those of before are as good.
LEMMA ComingFromKeeps ==
    ASSUME CommandsTyped, ComesFrom(commands', commands), UNCHANGED <<rib, m_inheritedRoutes>>
    PROVE  CommandsTyped' /\ (CommandsCurrent => CommandsCurrent')
<1>1. \A b : EntriesExist(b)' <=> EntriesExist(b)
  BY DEF EntriesExist, Entries, ErasedEntries
<1>2. ASSUME NEW i \in DOMAIN commands'
      PROVE  /\ IsCommand(commands'[i])
             /\ CommandsCurrent => /\ commands'[i].current
                                   /\ \A b : b = commands'[i].batch => EntriesExist(b)'
  <2>1. PICK k \in DOMAIN commands : Alike(commands'[i], commands[k])
    BY <1>2 DEF ComesFrom
  <2>2. IsCommand(commands[k])
    BY DEF CommandsTyped
  <2>3. IsCommand(commands'[i])
    BY <2>1, <2>2 DEF IsCommand, Alike
  <2>4. CommandsCurrent => commands'[i].current /\ EntriesExist(commands[k].batch)
    BY <2>1 DEF CommandsCurrent, Alike
  <2>5. CommandsCurrent => \A b : b = commands'[i].batch => EntriesExist(b)'
    BY <1>1, <2>1, <2>4 DEF Alike
  <2> QED BY <2>3, <2>4, <2>5
<1>3. CommandsTyped'
  BY <1>2 DEF CommandsTyped, ComesFrom
<1>4. CommandsCurrent => CommandsCurrent'
  BY <1>2 DEF CommandsCurrent
<1> QED BY <1>3, <1>4

\* A command that is seen, or sent again, is still on its way.
LEMMA OnItsWayKeeps ==
    ASSUME FuInv, call = None, ComesFrom(commands', commands), \A W : Carries(commands, W) => Carries(commands', W),
           UNCHANGED <<rib, parent, m_updateBatches, m_isUpdateInProgress, updates, call, strayed>>
    PROVE  FuInv'
<1>1. TreeInv'
  BY TreeAside DEF FuInv, Typed
<1>2. CallTyped' /\ ~Succeeding' /\ ~Ending' /\ ~Ending
  BY DEF CallTyped, Ending, Succeeding
<1>3. UpdatesTyped'
  BY DEF FuInv, Typed, UpdatesTyped, updates
<1>4. CommandsTyped' /\ (CommandsCurrent => CommandsCurrent')
  BY ComingFromKeeps DEF FuInv, Typed, updates
<1>5. Outstanding' = Outstanding
  BY DEF Outstanding, updates
<1>6. commands = <<>> => commands' = <<>>
  <2> SUFFICES ASSUME commands = <<>> PROVE commands' = <<>>
    OBVIOUS
  <2>0. DOMAIN commands = {}
    OBVIOUS
  <2>1. DOMAIN commands' = {}
    BY ZenonT(60), <2>0 DEF ComesFrom
  <2>2. PICK S : commands' \in Seq(S)
    BY DEF ComesFrom, IsSeq
  <2>3. DOMAIN commands' = 1 .. Len(commands')
    BY <2>2, LenProperties
  <2>4. commands' # <<>> => Len(commands') \in Nat \ {0}
    BY <2>2, EmptySeq
  <2>5. \A m \in Nat \ {0} : 1 \in 1 .. m
    OBVIOUS
  <2> QED BY <2>1, <2>3, <2>4, <2>5
<1>7. ASSUME ~strayed' PROVE InOrder'
  <2>1. InOrder
    BY <1>7 DEF FuInv
  <2> QED BY <1>2, <1>4, <1>5, <1>6, <2>1 DEF InOrder
<1> QED BY <1>1, <1>2, <1>3, <1>4, <1>7 DEF FuInv, Typed

\* The FIB manager executes a command.
LEMMA ExecuteKeeps == ASSUME FuInv, Execute PROVE FuInv'
<1>0. PICK j \in DOMAIN commands : \E reply : commands' = [commands EXCEPT ![j].reply = reply]
  BY ZenonT(60) DEF Execute
<1>1. PICK reply : commands' = [commands EXCEPT ![j].reply = reply]
  BY ZenonT(60), <1>0
<1>2. PICK S : commands \in Seq(S)
  BY DEF FuInv, Typed, CommandsTyped, IsSeq
<1> DEFINE c == [commands[j] EXCEPT !.reply = reply]
<1>3. IsCommand(commands[j])
  BY DEF FuInv, Typed, CommandsTyped
<1>4. Alike(c, commands[j])
  BY <1>3 DEF Alike, IsCommand
<1>5. commands' = [commands EXCEPT ![j] = c]
  BY <1>1
<1> HIDE DEF c
<1>6. DOMAIN commands' = DOMAIN commands /\ \A i \in DOMAIN commands : Alike(commands'[i], commands[i])
  BY <1>4, <1>5 DEF Alike
<1>7. IsSeq(commands')
  <2>1. commands \in Seq(S \cup {c}) /\ c \in S \cup {c}
    BY <1>2, SeqMonotonic
  <2>2. j \in 1 .. Len(commands)
    BY <1>2, LenProperties
  <2>3. [commands EXCEPT ![j] = c] \in Seq(S \cup {c})
    BY <2>1, <2>2, ExceptSeq
  <2> QED BY <1>5, <2>3 DEF IsSeq
<1>8. ComesFrom(commands', commands)
  BY <1>6, <1>7 DEF ComesFrom
<1>9. \A W : Carries(commands, W) => Carries(commands', W)
  BY <1>6 DEF Carries, Alike
<1>10. call = None /\ UNCHANGED <<rib, parent, m_updateBatches, m_isUpdateInProgress, updates, call, strayed>>
  BY ZenonT(60) DEF Execute, history
<1> QED BY <1>8, <1>9, <1>10, OnItsWayKeeps

\* A command times out and is sent again.
LEMMA TimeoutKeeps == ASSUME FuInv, onTimeout PROVE FuInv'
<1>1. PICK j \in DOMAIN commands :
          commands' = Append(WithoutAt(commands, j), [commands[j] EXCEPT !.sent = "add", !.nTimeouts = @ + 1,
                                                                        !.reply = None])
  BY ZenonT(60) DEF onTimeout
<1> DEFINE c == [commands[j] EXCEPT !.sent = "add", !.nTimeouts = @ + 1, !.reply = None]
<1>2. IsSeq(commands) /\ IsCommand(commands[j])
  BY DEF FuInv, Typed, CommandsTyped
<1>3. Alike(c, commands[j])
  BY <1>2 DEF Alike, IsCommand
<1>4. commands' = Append(WithoutAt(commands, j), c)
  BY <1>1
<1> HIDE DEF c
<1>5. ComesFrom(commands', commands) /\ \A W : Carries(commands, W) => Carries(commands', W)
  BY <1>2, <1>3, <1>4, MovedCarries
<1>6. call = None /\ UNCHANGED <<rib, parent, m_updateBatches, m_isUpdateInProgress, updates, call, strayed>>
  BY DEF onTimeout, ribVars
<1> QED BY <1>5, <1>6, OnItsWayKeeps

\* What sending the updates W of a batch behind the commands before leaves: either
\* they are on their way, or there were none and the batch succeeds.
SentOff(W, batch, own, before) ==
    /\ CommandsTyped' /\ CallTyped'
    /\ W # {} => /\ call' = None
                 /\ before = <<>> =>
                        Carries(commands', W) /\ \A i \in DOMAIN commands' : commands'[i].batch = batch
                                                                             /\ commands'[i].current = own
    /\ W = {} => commands' = before /\ call' = Call("onFibUpdateSuccess", batch, own)

\* sendUpdates sends one command for each update.
LEMMA UpdatesSent ==
    ASSUME NEW U, IsFiniteSet(U), U # {}, NEW batch \in Batch, NEW own \in BOOLEAN,
           NEW before, IsSeq(before), \A i \in DOMAIN before : IsCommand(before[i]),
           sendUpdates(U, batch, own, before), call' = None
    PROVE  SentOff(U, batch, own, before)
<1>1. PICK t \in Listings(U) : commands' = before \o [j \in DOMAIN t |-> Command(batch, own, t[j])]
  BY ZenonT(60) DEF sendUpdates
<1> DEFINE s == [j \in DOMAIN t |-> Command(batch, own, t[j])]
<1>2. /\ IsSeq(s) /\ Carries(s, U)
      /\ \A i \in DOMAIN s : IsCommand(s[i]) /\ s[i].batch = batch /\ s[i].current = own
  <2>1. s = [j \in DOMAIN t |-> Command(batch, own, t[j])]
    OBVIOUS
  <2> HIDE DEF s
  <2> QED BY <2>1, SentCarries
<1>3. commands' = before \o s
  BY <1>1
<1> HIDE DEF s
<1>4. /\ IsSeq(commands')
      /\ \A i \in DOMAIN commands' : \/ \E k \in DOMAIN before : commands'[i] = before[k]
                                     \/ \E k \in DOMAIN s : commands'[i] = s[k]
      /\ before = <<>> => commands' = s
  <2>1. Joined(commands', before, s)
    BY ZenonT(60), SMTT(60), <1>2, <1>3, JoinedIs
  <2> QED BY ZenonT(60), SMTT(60), <2>1 DEF Joined
<1>5. \A i \in DOMAIN commands' : IsCommand(commands'[i])
  BY ZenonT(60), SMTT(60), <1>2, <1>4
<1>6. CallTyped'
  BY DEF CallTyped, Ending
<1> QED BY <1>2, <1>4, <1>5, <1>6 DEF SentOff, CommandsTyped

\* The second round of a batch.
LEMMA SecondRoundSent ==
    ASSUME NEW V, IsFiniteSet(V), NEW batch \in Batch, NEW own \in BOOLEAN,
           NEW before, IsSeq(before), \A i \in DOMAIN before : IsCommand(before[i]),
           sendUpdatesForNonBatchFaceId(V, batch, own, before)
    PROVE  SentOff(V, batch, own, before)
<1>1. CASE V # {}
  BY <1>1, UpdatesSent DEF sendUpdatesForNonBatchFaceId
<1>2. CASE V = {}
  <2>1. commands' = before /\ call' = Call("onFibUpdateSuccess", batch, own)
    BY <1>2 DEF sendUpdatesForNonBatchFaceId
  <2>2. call' \in Calls /\ call'.batch = batch
    BY <2>1, CallsTyped DEF Function
  <2>3. CallTyped'
    BY <2>2 DEF CallTyped
  <2> QED BY <1>2, <2>1, <2>3 DEF SentOff, CommandsTyped
<1> QED BY <1>1, <1>2

\* The first round, or the second when there is nothing for the first.
LEMMA FirstRoundSent ==
    ASSUME NEW U, IsFiniteSet(U), NEW V, IsFiniteSet(V), NEW batch \in Batch,
           NEW before, IsSeq(before), \A i \in DOMAIN before : IsCommand(before[i]),
           sendUpdatesForBatchFaceId(U, V, batch, before)
    PROVE  SentOff(IF U # {} THEN U ELSE V, batch, TRUE, before)
<1>1. CASE U # {}
  BY ZenonT(60), <1>1, UpdatesSent DEF sendUpdatesForBatchFaceId
<1>2. CASE U = {}
  BY ZenonT(60), <1>2, SecondRoundSent DEF sendUpdatesForBatchFaceId
<1> QED BY ZenonT(60), <1>1, <1>2

\* Sent off in order, with nothing before: the batch goes on, or succeeds.
LEMMA SentInOrder ==
    ASSUME NEW W, NEW batch \in Batch, SentOff(W, batch, TRUE, <<>>), W = Outstanding', m_isUpdateInProgress',
           EntriesExist(batch)'
    PROVE  InOrder'
<1>1. CASE W # {}
  <2>1. /\ call' = None /\ Carries(commands', W)
        /\ \A i \in DOMAIN commands' : commands'[i].batch = batch /\ commands'[i].current = TRUE
    BY <1>1 DEF SentOff
  <2>2. CommandsCurrent'
    BY <2>1 DEF CommandsCurrent
  <2>3. ~Ending' /\ ~Succeeding'
    BY <2>1 DEF Ending, Succeeding
  <2> QED BY <2>1, <2>2, <2>3 DEF InOrder
<1>2. CASE W = {}
  <2>1. commands' = <<>> /\ call' = Call("onFibUpdateSuccess", batch, TRUE)
    BY <1>2 DEF SentOff
  <2>2. call' # None /\ call'.to = "onFibUpdateSuccess" /\ call'.batch = batch /\ call'.own = TRUE
    BY ZenonT(60), <2>1, CallsTyped DEF Function
  <2>3. Ending' /\ Succeeding'
    BY <2>2 DEF Ending, Succeeding
  <2>4. DOMAIN commands' = {}
    BY <2>1
  <2>5. CommandsCurrent'
    BY <2>4 DEF CommandsCurrent
  <2> QED BY ZenonT(60), <2>1, <2>2, <2>3, <2>5 DEF InOrder
<1> QED BY <1>1, <1>2

\* A batch is taken from the queue.
LEMMA SendBatchKeeps == ASSUME FuInv, sendBatchFromQueue PROVE FuInv'
<1>0. call # None /\ call.to = "sendBatchFromQueue" /\ ~Ending /\ m_updateBatches \in Seq(Batch)
  BY DEF sendBatchFromQueue, Ending, FuInv, Typed
<1>1. rib' = rib /\ parent' = parent /\ strayed' = strayed
  BY DEF sendBatchFromQueue, ribVars, history
<1>2. ASSUME call' = None, UNCHANGED <<m_updateBatches, m_isUpdateInProgress, updates, commands>> PROVE FuInv'
  <2>1. ~Ending'
    BY <1>2 DEF Ending
  <2> QED BY <1>0, <1>1, <1>2, <2>1, FuInvAside
<1>3. ASSUME m_updateBatches # <<>>, ~m_isUpdateInProgress, m_isUpdateInProgress' = TRUE,
             m_updateBatches' = Tail(m_updateBatches), computeAndSendFibUpdates(Head(m_updateBatches))
      PROVE  FuInv'
  <2> DEFINE before == [j \in DOMAIN commands |-> [commands[j] EXCEPT !.current = FALSE]]
  <2>0. Head(m_updateBatches) \in Batch /\ m_updateBatches' \in Seq(Batch)
    BY <1>0, <1>3, HeadTailProperties
  <2>1. PICK b \in Batch : b = Head(m_updateBatches)
    BY <2>0
  <2>2. PICK u \in computeUpdates(b) :
           /\ m_batchFaceId' = b.face
           /\ m_inheritedRoutes' = u.inherited
           /\ m_updatesForBatchFaceId' = IF b.action = "REMOVE_FACE" THEN {} ELSE FibUpdates(u, {b.face})
           /\ m_updatesForNonBatchFaceId' = FibUpdates(u, Face \ {b.face})
           /\ sendUpdatesForBatchFaceId(m_updatesForBatchFaceId', m_updatesForNonBatchFaceId', b, before)
    BY ZenonT(60), <1>3, <2>1 DEF computeAndSendFibUpdates
  <2>3. TreeInv'
    BY <1>1, TreeAside DEF FuInv, Typed
  <2>4. UpdatesTyped'
    <3>1. /\ IsFiniteSet(FibUpdates(u, {b.face})) /\ \A w \in FibUpdates(u, {b.face}) : w.face \in {b.face}
          /\ IsFiniteSet(FibUpdates(u, Face \ {b.face}))
          /\ \A w \in FibUpdates(u, Face \ {b.face}) : w.face \in Face \ {b.face}
      BY FibUpdatesFinite
    <3>2. IsFiniteSet({})
      BY FS_EmptySet
    <3> QED BY ZenonT(60), <2>2, <3>1, <3>2 DEF UpdatesTyped
  <2>5. EntriesExist(b)'
    <3>1. b.name \in Name /\ b.face \in Face /\ TreeInv
      BY <2>1 DEF Batch, FuInv, Typed
    <3>2. CASE b.action = "REGISTER"
      <4>1. u = computeUpdatesForRegistration(b.name, b.face, b.route)
        BY <2>2, <3>2 DEF computeUpdates
      <4>2. Meant(u.inherited, Entries \cup {b.name})
        BY ZenonT(60), <3>1, <4>1, MeantRegistration
      <4> QED BY <1>1, <2>2, <3>2, <4>2 DEF EntriesExist, Meant, Entries
    <3>3. CASE b.action # "REGISTER"
      <4>1. u \in computeUpdatesForUnregistration(b.name, b.face, b.route.origin)
        BY <2>2, <3>3 DEF computeUpdates
      <4>2. Meant(u.inherited, Entries \ ErasedEntries(b.name, b.face, b.route.origin))
        BY ZenonT(60), <3>1, <4>1, MeantUnregistration
      <4> QED BY <1>1, <2>2, <3>3, <4>2 DEF EntriesExist, Meant, Entries, ErasedEntries
    <3> QED BY <3>2, <3>3
  <2>6. IsSeq(before) /\ \A i \in DOMAIN before : IsCommand(before[i])
    <3>1. \A i \in DOMAIN commands : IsCommand([commands[i] EXCEPT !.current = FALSE])
      BY DEF FuInv, Typed, CommandsTyped, IsCommand
    <3>2. PICK S : commands \in Seq(S)
      BY DEF FuInv, Typed, CommandsTyped, IsSeq
    <3>3. DOMAIN commands = 1 .. Len(commands) /\ Len(commands) \in Nat
      BY <3>2, LenProperties
    <3> DEFINE T == {[commands[i] EXCEPT !.current = FALSE] : i \in DOMAIN commands}
    <3>4. before \in [1 .. Len(commands) -> T]
      BY ZenonT(60), <3>3
    <3>5. before \in Seq(T)
      <4> HIDE DEF before, T
      <4> QED BY <3>3, <3>4, SeqDef
    <3> QED BY ZenonT(60), <3>1, <3>5 DEF IsSeq
  <2>7. commands = <<>> => before = <<>>
    OBVIOUS
  <2> HIDE DEF before
  <2>8. IsFiniteSet(m_updatesForBatchFaceId') /\ IsFiniteSet(m_updatesForNonBatchFaceId')
    BY <2>4 DEF UpdatesTyped
  <2>9. SentOff(Outstanding', b, TRUE, before)
    BY ZenonT(60), <2>1, <2>2, <2>6, <2>8, FirstRoundSent DEF Outstanding
  <2>10. ASSUME ~strayed' PROVE InOrder'
    <3>1. before = <<>>
      BY <1>1, <1>3, <2>7, <2>10 DEF FuInv, InOrder
    <3> QED BY ZenonT(60), <1>3, <2>1, <2>5, <2>9, <3>1, SentInOrder
  <2> QED BY <2>0, <2>3, <2>4, <2>9, <2>10 DEF FuInv, Typed, SentOff
<1> QED BY ZenonT(60), <1>2, <1>3 DEF sendBatchFromQueue

\* The command whose answer comes in.
LEMMA AnsweredCommand ==
    ASSUME FuInv, call = None, commands # <<>>
    PROVE  /\ IsCommand(Head(commands)) /\ ComesFrom(Tail(commands), commands)
           /\ ~strayed => /\ m_isUpdateInProgress /\ Head(commands).current = TRUE
                          /\ EntriesExist(Head(commands).batch) /\ Head(commands).update \in Outstanding
                          /\ Carries(Tail(commands), Outstanding \ {Head(commands).update})
<1>1. /\ ComesFrom(Tail(commands), commands) /\ 1 \in DOMAIN commands /\ Head(commands) = commands[1]
      /\ \A W : Carries(commands, W) => Carries(Tail(commands), W \ {Head(commands).update})
                                        /\ Head(commands).update \in W
  BY TailCarries DEF FuInv, Typed, CommandsTyped
<1>2. IsCommand(Head(commands))
  BY <1>1 DEF FuInv, Typed, CommandsTyped
<1>3. ASSUME ~strayed
      PROVE  /\ m_isUpdateInProgress /\ Head(commands).current = TRUE
             /\ EntriesExist(Head(commands).batch) /\ Carries(commands, Outstanding)
  <2>1. InOrder /\ ~Ending
    BY <1>3 DEF FuInv, Ending
  <2>2. m_isUpdateInProgress /\ Carries(commands, Outstanding)
    BY <2>1 DEF InOrder
  <2>3. Head(commands).current /\ EntriesExist(Head(commands).batch)
    BY <1>1, <2>1 DEF InOrder, CommandsCurrent
  <2> QED BY <1>2, <2>2, <2>3 DEF IsCommand
<1> QED BY ZenonT(60), <1>1, <1>2, <1>3

\* A list that carries nothing is empty.
LEMMA NothingCarried == ASSUME NEW s, IsSeq(s), Carries(s, {}) PROVE s = <<>>
<1>1. PICK S : s \in Seq(S)
  BY DEF IsSeq
<1>2. DOMAIN s = 1 .. Len(s)
  BY <1>1, LenProperties
<1>3. s # <<>> => Len(s) \in Nat \ {0}
  BY <1>1, EmptySeq
<1>4. \A m \in Nat \ {0} : 1 \in 1 .. m
  OBVIOUS
<1>5. DOMAIN s = {}
  BY ZenonT(60) DEF Carries
<1> QED BY <1>2, <1>3, <1>4, <1>5

\* The answer to a command of the second round.
LEMMA SecondRoundAnswered ==
    ASSUME FuInv, call = None, commands # <<>>, Head(commands).update.face # m_batchFaceId,
           m_updatesForNonBatchFaceId' = m_updatesForNonBatchFaceId \ {Head(commands).update},
           commands' = Tail(commands),
           call' = IF m_updatesForNonBatchFaceId \ {Head(commands).update} = {}
                   THEN Call("onFibUpdateSuccess", Head(commands).batch, Head(commands).current) ELSE None,
           UNCHANGED <<rib, parent, m_updateBatches, m_isUpdateInProgress, m_batchFaceId,
                       m_updatesForBatchFaceId, m_inheritedRoutes, strayed>>
    PROVE  FuInv'
<1>1. PICK c : c = Head(commands)
  OBVIOUS
<1> DEFINE V == m_updatesForNonBatchFaceId \ {c.update}
<1>2. /\ IsCommand(c) /\ ComesFrom(Tail(commands), commands)
      /\ ~strayed => /\ m_isUpdateInProgress /\ c.current = TRUE /\ EntriesExist(c.batch)
                     /\ c.update \in Outstanding /\ Carries(Tail(commands), Outstanding \ {c.update})
  BY ZenonT(60), <1>1, AnsweredCommand
<1>3. c.batch \in Batch /\ c.current \in BOOLEAN
  BY <1>2 DEF IsCommand
<1>4. TreeInv'
  BY TreeAside DEF FuInv, Typed
<1>5. IsFiniteSet(V)
  BY ZenonT(60), FS_Difference DEF FuInv, Typed, UpdatesTyped
<1>6. UpdatesTyped'
  BY ZenonT(60), <1>1, <1>5 DEF FuInv, Typed, UpdatesTyped
<1>7. CommandsTyped' /\ (CommandsCurrent => CommandsCurrent')
  BY <1>2, ComingFromKeeps DEF FuInv, Typed
<1>8. \A b : EntriesExist(b)' <=> EntriesExist(b)
  BY ZenonT(60) DEF EntriesExist, Entries, ErasedEntries
<1>9. CASE V # {}
  <2>1. call' = None /\ CallTyped' /\ ~Ending' /\ ~Succeeding'
    BY <1>1, <1>9 DEF CallTyped, Ending, Succeeding
  <2>2. ASSUME ~strayed' PROVE InOrder'
    <3>1. m_updatesForBatchFaceId = {} /\ Outstanding = m_updatesForNonBatchFaceId
      BY ZenonT(60), <1>1, <1>2, <2>2 DEF Outstanding, FuInv, Typed, UpdatesTyped
    <3>2. Carries(commands', Outstanding')
      BY ZenonT(60), SMTT(60), <1>1, <1>2, <2>2, <3>1 DEF Outstanding
    <3>3. CommandsCurrent'
      BY ZenonT(60), SMTT(60), <1>7, <2>2 DEF FuInv, InOrder
    <3> QED BY ZenonT(60), <1>2, <2>1, <2>2, <3>2, <3>3 DEF InOrder
  <2> QED BY <1>4, <1>6, <1>7, <2>1, <2>2 DEF FuInv, Typed
<1>10. CASE V = {}
  <2>1. call' = Call("onFibUpdateSuccess", c.batch, c.current)
    BY <1>1, <1>10
  <2>2. /\ call' \in Calls /\ call' # None /\ call'.to = "onFibUpdateSuccess" /\ call'.batch = c.batch
        /\ call'.own = c.current
    BY <1>3, <2>1, CallsTyped DEF Function
  <2>3. CallTyped' /\ Ending' /\ Succeeding'
    BY <1>3, <2>2 DEF CallTyped, Ending, Succeeding
  <2>4. ASSUME ~strayed' PROVE InOrder'
    <3>1. m_updatesForBatchFaceId = {} /\ Outstanding = m_updatesForNonBatchFaceId
      BY ZenonT(60), <1>1, <1>2, <2>4 DEF Outstanding, FuInv, Typed, UpdatesTyped
    <3>2. Carries(commands', {})
      BY ZenonT(60), <1>1, <1>2, <1>10, <2>4, <3>1
    <3>3. commands' = <<>>
      BY ZenonT(60), <1>7, <3>2, NothingCarried DEF CommandsTyped
    <3>4. CommandsCurrent'
      BY ZenonT(60), SMTT(60), <1>7, <2>4 DEF FuInv, InOrder
    <3>5. \A b : b = c.batch => EntriesExist(b)'
      BY ZenonT(60), <1>2, <1>8, <2>4
    <3>6. m_isUpdateInProgress' /\ call'.own
      BY ZenonT(60), SMTT(60), <1>2, <2>2, <2>4
    <3>7. EntriesExist(call.batch)'
      BY ZenonT(60), <2>2, <3>5 DEF EntriesExist
    <3> QED BY ZenonT(60), <2>3, <3>3, <3>4, <3>6, <3>7 DEF InOrder
  <2> QED BY <1>4, <1>6, <1>7, <2>3, <2>4 DEF FuInv, Typed
<1> QED BY <1>9, <1>10

\* A command succeeded.
LEMMA UpdateSuccessKeeps == ASSUME FuInv, onUpdateSuccess PROVE FuInv'
<1>0. call = None /\ commands # <<>>
  BY ZenonT(60) DEF onUpdateSuccess, Answered
<1>1. UNCHANGED <<rib, parent, m_updateBatches, m_isUpdateInProgress, m_batchFaceId, m_inheritedRoutes, strayed>>
  BY ZenonT(60) DEF onUpdateSuccess, ribVars, history
<1>2. CASE Head(commands).update.face # m_batchFaceId
  BY ZenonT(60), SMTT(60), <1>0, <1>1, <1>2, SecondRoundAnswered DEF onUpdateSuccess
<1>3. CASE Head(commands).update.face = m_batchFaceId
  <2>1. PICK c : c = Head(commands)
    OBVIOUS
  <2> DEFINE U == m_updatesForBatchFaceId \ {c.update}
  <2>2. /\ IsCommand(c) /\ ComesFrom(Tail(commands), commands)
        /\ ~strayed => /\ m_isUpdateInProgress /\ c.current = TRUE /\ EntriesExist(c.batch)
                       /\ c.update \in Outstanding /\ Carries(Tail(commands), Outstanding \ {c.update})
    BY ZenonT(60), <1>0, <2>1, AnsweredCommand
  <2>3. c.batch \in Batch /\ c.current \in BOOLEAN
    BY <2>2 DEF IsCommand
  <2>4. TreeInv'
    BY <1>1, TreeAside DEF FuInv, Typed
  <2>5. /\ m_updatesForBatchFaceId' = U /\ m_updatesForNonBatchFaceId' = m_updatesForNonBatchFaceId
        /\ IF U = {} THEN sendUpdatesForNonBatchFaceId(m_updatesForNonBatchFaceId, c.batch, c.current, Tail(commands))
           ELSE commands' = Tail(commands) /\ call' = call
    BY ZenonT(60), <1>3, <2>1 DEF onUpdateSuccess
  <2>6. UpdatesTyped'
    <3>1. IsFiniteSet(U)
      BY ZenonT(60), FS_Difference DEF FuInv, Typed, UpdatesTyped
    <3> QED BY <1>1, <2>5, <3>1 DEF FuInv, Typed, UpdatesTyped
  <2>7. ASSUME ~strayed PROVE Outstanding = m_updatesForBatchFaceId /\ Carries(Tail(commands), U)
    BY ZenonT(60), <1>3, <2>1, <2>2, <2>7 DEF Outstanding, FuInv, Typed, UpdatesTyped
  <2>8. CASE U # {}
    <3>1. commands' = Tail(commands) /\ call' = None /\ CallTyped' /\ ~Ending' /\ ~Succeeding'
      BY <1>0, <2>5, <2>8 DEF CallTyped, Ending, Succeeding
    <3>2. CommandsTyped' /\ (CommandsCurrent => CommandsCurrent')
      BY <1>1, <2>2, <3>1, ComingFromKeeps DEF FuInv, Typed
    <3>3. ASSUME ~strayed' PROVE InOrder'
      <4>1. Carries(commands', Outstanding')
        BY <1>1, <2>5, <2>7, <2>8, <3>1, <3>3 DEF Outstanding
      <4>2. CommandsCurrent' /\ m_isUpdateInProgress'
        BY ZenonT(60), <1>1, <2>2, <3>2, <3>3 DEF FuInv, InOrder
      <4> QED BY <3>1, <4>1, <4>2 DEF InOrder
    <3> QED BY <1>1, <2>4, <2>6, <3>1, <3>2, <3>3 DEF FuInv, Typed
  <2>9. CASE U = {}
    <3>1. \A i \in DOMAIN Tail(commands) : IsCommand(Tail(commands)[i])
      <4>1. \A i \in DOMAIN Tail(commands) : \E k \in DOMAIN commands : Alike(Tail(commands)[i], commands[k])
        BY ZenonT(60), <2>2 DEF ComesFrom
      <4> QED BY <4>1 DEF FuInv, Typed, CommandsTyped, IsCommand, Alike
    <3>2. IsSeq(Tail(commands)) /\ IsFiniteSet(m_updatesForNonBatchFaceId)
      BY <2>2 DEF ComesFrom, FuInv, Typed, UpdatesTyped
    <3>3. SentOff(m_updatesForNonBatchFaceId, c.batch, c.current, Tail(commands))
      BY ZenonT(60), <2>3, <2>5, <2>9, <3>1, <3>2, SecondRoundSent
    <3>4. ASSUME ~strayed' PROVE InOrder'
      <4>1. Tail(commands) = <<>> /\ c.current = TRUE /\ m_isUpdateInProgress'
        BY ZenonT(60), <1>1, <2>2, <2>7, <2>9, <3>2, <3>4, NothingCarried
      <4>2. m_updatesForNonBatchFaceId = Outstanding'
        BY <2>5, <2>9 DEF Outstanding
      <4>3. \A b : b = c.batch => EntriesExist(b)'
        BY ZenonT(60), <1>1, <2>2, <3>4 DEF EntriesExist, Entries, ErasedEntries
      <4>4. PICK b \in Batch : b = c.batch
        BY <2>3
      <4> QED BY ZenonT(60), <3>3, <4>1, <4>2, <4>3, <4>4, SentInOrder
    <3> QED BY <1>1, <2>4, <2>6, <3>3, <3>4 DEF FuInv, Typed, SentOff
  <2> QED BY <2>8, <2>9
<1> QED BY <1>2, <1>3

\* A command was for a face that is gone.
LEMMA FaceNotFoundKeeps == ASSUME FuInv, onFaceNotFound PROVE FuInv'
<1>0. call = None /\ commands # <<>> /\ commands' = Tail(commands)
  BY ZenonT(60) DEF onFaceNotFound, Answered
<1>1. UNCHANGED <<rib, parent, m_updateBatches, m_isUpdateInProgress, m_batchFaceId, m_updatesForBatchFaceId,
                  m_inheritedRoutes, strayed>>
  BY ZenonT(60) DEF onFaceNotFound, ribVars, history
<1>2. CASE Head(commands).update.face # m_batchFaceId
  BY ZenonT(60), <1>0, <1>1, <1>2, SecondRoundAnswered DEF onFaceNotFound
<1>3. CASE Head(commands).update.face = m_batchFaceId
  <2>1. PICK c : c = Head(commands)
    OBVIOUS
  <2>2. /\ IsCommand(c) /\ ComesFrom(Tail(commands), commands)
        /\ ~strayed => m_isUpdateInProgress /\ c.current = TRUE
    BY ZenonT(60), <1>0, <2>1, AnsweredCommand
  <2>3. c.batch \in Batch /\ c.current \in BOOLEAN
    BY <2>2 DEF IsCommand
  <2>4. TreeInv'
    BY <1>1, TreeAside DEF FuInv, Typed
  <2>5. m_updatesForNonBatchFaceId' = m_updatesForNonBatchFaceId
        /\ call' = Call("onFibUpdateFailure", c.batch, c.current)
    BY ZenonT(60), <1>3, <2>1 DEF onFaceNotFound
  <2>6. UpdatesTyped'
    BY <1>1, <2>5 DEF FuInv, Typed, UpdatesTyped
  <2>7. CommandsTyped' /\ (CommandsCurrent => CommandsCurrent')
    BY <1>0, <1>1, <2>2, ComingFromKeeps DEF FuInv, Typed
  <2>8. /\ call' \in Calls /\ call' # None /\ call'.to = "onFibUpdateFailure" /\ call'.batch = c.batch
        /\ call'.own = c.current
    BY <2>3, <2>5, CallsTyped DEF Function
  <2>9. CallTyped' /\ Ending' /\ ~Succeeding'
    BY <2>3, <2>8 DEF CallTyped, Ending, Succeeding
  <2>10. ASSUME ~strayed' PROVE InOrder'
    <3>1. CommandsCurrent' /\ m_isUpdateInProgress' /\ call'.own
      BY <1>1, <2>2, <2>7, <2>8, <2>10 DEF FuInv, InOrder
    <3> QED BY <2>9, <3>1 DEF InOrder
  <2> QED BY <1>1, <2>4, <2>6, <2>7, <2>9, <2>10 DEF FuInv, Typed
<1> QED BY <1>2, <1>3

\* The end of a batch, when no command is left.
LEMMA EndKeeps ==
    ASSUME FuInv, TreeInv', m_isUpdateInProgress' = FALSE, call' = SendBatch, ~strayed' => commands = <<>>,
           UNCHANGED <<m_updateBatches, updates, commands>>
    PROVE  FuInv'
<1>1. CallTyped' /\ ~Ending' /\ ~Succeeding'
  BY CallsTyped DEF CallTyped, Ending, Succeeding
<1>2. UpdatesTyped' /\ CommandsTyped'
  BY DEF FuInv, Typed, UpdatesTyped, CommandsTyped, updates
<1>3. ASSUME ~strayed' PROVE InOrder'
  <2>1. commands' = <<>> /\ DOMAIN commands' = {}
    BY <1>3
  <2>2. CommandsCurrent'
    BY <2>1 DEF CommandsCurrent
  <2> QED BY <1>1, <2>1, <2>2 DEF InOrder
<1> QED BY <1>1, <1>2, <1>3 DEF FuInv, Typed

\* A batch has succeeded and the RIB changes.
LEMMA BatchSuccessKeeps == ASSUME FuInv, onFibUpdateSuccess PROVE FuInv'
<1>1. call # None /\ call.to = "onFibUpdateSuccess" /\ Ending /\ Succeeding
  BY DEF onFibUpdateSuccess, Ending, Succeeding
<1>2. PICK b \in Batch : b = call.batch
  BY <1>1 DEF FuInv, Typed, CallTyped
<1>3. b.name \in Name /\ b.face \in Face /\ b.route \in Route
  BY DEF Batch, Route
<1>4. insert(b.name, b.face, b.route) \/ erase(b.name, b.face, b.route.origin)
  BY ZenonT(60), <1>2 DEF onFibUpdateSuccess
<1>5. TreeInv'
  BY <1>3, <1>4, InsertKeepsTree, EraseKeepsTree DEF FuInv, Typed
<1>6. /\ m_isUpdateInProgress' = FALSE /\ call' = SendBatch /\ strayed' = strayed
      /\ UNCHANGED <<m_updateBatches, updates, commands>>
  BY DEF onFibUpdateSuccess, history
<1>7. ~strayed' => commands = <<>>
  BY <1>1, <1>6 DEF FuInv, InOrder
<1> QED BY ZenonT(60), <1>5, <1>6, <1>7, EndKeeps

\* A batch has failed.
LEMMA BatchFailureKeeps == ASSUME FuInv, onFibUpdateFailure PROVE FuInv'
<1>1. /\ m_isUpdateInProgress' = FALSE /\ call' = SendBatch /\ strayed' = (strayed \/ commands # <<>>)
      /\ rib' = rib /\ parent' = parent /\ UNCHANGED <<m_updateBatches, updates, commands>>
  BY DEF onFibUpdateFailure, ribVars
<1>2. TreeInv'
  BY <1>1, TreeAside DEF FuInv, Typed
<1>3. ~strayed' => commands = <<>>
  BY ZenonT(60), <1>1
<1> QED BY ZenonT(60), <1>1, <1>2, <1>3, EndKeeps

\* The invariant is kept by every step.
LEMMA FuInvStep == FuInv /\ [FuNext]_fuVars => FuInv'
<1> SUFFICES ASSUME FuInv, [FuNext]_fuVars PROVE FuInv'
  OBVIOUS
<1>1. CASE UNCHANGED fuVars
  <2>1. /\ rib' = rib /\ parent' = parent /\ m_updateBatches' = m_updateBatches /\ call' = call
        /\ m_isUpdateInProgress' = m_isUpdateInProgress /\ UNCHANGED updates
        /\ commands' = commands /\ strayed' = strayed
    BY <1>1 DEF fuVars, ribVars, history
  <2>2. TreeInv'
    BY <2>1, TreeAside DEF FuInv, Typed
  <2>3. (Ending' <=> Ending) /\ (Succeeding' <=> Succeeding) /\ Outstanding' = Outstanding
    BY <2>1 DEF Ending, Succeeding, Outstanding, updates
  <2>4. CallTyped' /\ CommandsTyped' /\ UpdatesTyped'
    BY <2>1, <2>3 DEF FuInv, Typed, CallTyped, CommandsTyped, UpdatesTyped, updates
  <2>5. \A b : EntriesExist(b)' <=> EntriesExist(b)
    BY <2>1 DEF EntriesExist, Entries, ErasedEntries, updates
  <2>6. InOrder => InOrder'
    BY <2>1, <2>3, <2>5 DEF InOrder, CommandsCurrent
  <2> QED BY <2>1, <2>2, <2>4, <2>6 DEF FuInv, Typed
<1>2. CASE FuNext
  BY <1>2, IncomingKeeps, SendBatchKeeps, ExecuteKeeps, UpdateSuccessKeeps, FaceNotFoundKeeps, TimeoutKeeps,
     BatchSuccessKeeps, BatchFailureKeeps DEF FuNext
<1> QED BY <1>1, <1>2

\* In order, a batch is ended by its own commands and the entries exist.
LEMMA FuInvImplies == FuInv => BatchEndsInOrder /\ ParentIsLongestPrefix
<1> SUFFICES ASSUME FuInv PROVE BatchEndsInOrder /\ ParentIsLongestPrefix
  OBVIOUS
<1>1. ~strayed => BatchEndsItself
  BY DEF FuInv, InOrder, BatchEndsItself
<1>2. ~strayed => ~Aborted
  BY DEF FuInv, InOrder, Succeeding, Aborted
<1> QED BY <1>1, <1>2 DEF BatchEndsInOrder, FuInv, Typed, TreeInv

\* For every set of names, faces and routes, any number of requests and time-outs
\* and any faces destroyed: unless a batch has failed with commands still
\* unanswered (onFibUpdateFailure does not wait for them), each batch is ended
\* once, by the answers to its own commands, and every entry that its inherited
\* routes are meant for exists then (the assertion of modifyInheritedRoutes).
THEOREM BatchesEndInOrder == FuSpec => []BatchEndsInOrder
BY FuInvInit, FuInvStep, FuInvImplies, PTL DEF FuSpec

\* The tree of the RIB also stays right when updates wait in the queue, fail or
\* are applied late.
THEOREM TreeIsRight == FuSpec => []ParentIsLongestPrefix
BY FuInvInit, FuInvStep, FuInvImplies, PTL DEF FuSpec
=============================================================================
