------------------------------ MODULE CallForest ------------------------------
(***************************************************************************)
(* Calls that user code makes from inside other calls: parent[c] is the    *)
(* call in whose handler c was made, or something that is no call.  A call *)
(* is made in a call that runs and is made once, so the calls form a       *)
(* forest, and of any calls one has none of the others inside.             *)
(***************************************************************************)
EXTENDS Naturals, WellFoundedInduction, TLAPS

\* The calls C nest without cycles: a call ranks below the one it is made in.
Ranks(rank, parent, C) ==
    /\ rank \in [C -> Nat]
    /\ \A c \in C : parent[c] \in C => rank[c] < rank[parent[c]]

IsForest(parent, C) == \E rank : Ranks(rank, parent, C)

\* Calls made from outside are a forest.
LEMMA ForestInit ==
    ASSUME NEW C, NEW parent, \A c \in C : parent[c] \notin C
    PROVE  IsForest(parent, C)
<1>1. Ranks([c \in C |-> 0], parent, C)
  BY DEF Ranks
<1>2. QED
  BY <1>1 DEF IsForest

\* A call that has none inside may be made anywhere but in itself.
LEMMA ForestStart ==
    ASSUME NEW C, NEW D, NEW parent \in [C -> D], NEW c \in C, NEW f \in D,
           IsForest(parent, C),
           f # c,
           \A d \in C : parent[d] # c
    PROVE  IsForest([parent EXCEPT ![c] = f], C)
<1>1. PICK rank : Ranks(rank, parent, C)
  BY DEF IsForest
<1> DEFINE new == [parent EXCEPT ![c] = f]
           r == [d \in C |-> IF d = c THEN 0 ELSE rank[d] + 1]
<1>2. rank \in [C -> Nat]
  BY <1>1 DEF Ranks
<1>3. r \in [C -> Nat]
  BY <1>2
<1>4. ASSUME NEW d \in C, new[d] \in C
      PROVE  r[d] < r[new[d]]
  <2>1. CASE d = c
    <3>1. new[d] = f /\ r[d] = 0 /\ r[f] = rank[f] + 1
      BY <1>4, <2>1
    <3>2. QED
      BY <1>2, <1>4, <3>1
  <2>2. CASE d # c
    <3>1. new[d] = parent[d] /\ parent[d] # c
      BY <2>2
    <3>2. r[d] = rank[d] + 1 /\ r[parent[d]] = rank[parent[d]] + 1
      BY <1>4, <2>2, <3>1
    <3>3. rank[d] < rank[parent[d]]
      BY <1>1, <1>4, <3>1 DEF Ranks
    <3>4. QED
      BY <1>2, <1>4, <3>1, <3>2, <3>3
  <2>3. QED
    BY <2>1, <2>2
<1>5. Ranks(r, new, C)
  BY <1>3, <1>4 DEF Ranks
<1>6. QED
  BY <1>5 DEF IsForest

\* A set of numbers has a least one.
LEMMA LeastNumber ==
    ASSUME NEW T, T \subseteq Nat, T # {}
    PROVE  \E m \in T : \A n \in T : m <= n
<1> DEFINE R == OpToRel(<, Nat)
<1>1. IsWellFoundedOn(R, Nat)
  BY NatLessThanWellFounded
<1>2. \A m, n \in Nat : n < m => <<n, m>> \in R
  BY DEF OpToRel
<1> HIDE DEF R
<1>3. PICK m \in T : \A n \in T : <<n, m>> \notin R
  BY <1>1, WFMin
<1>4. ASSUME NEW n \in T
      PROVE  m <= n
  <2>1. m \in Nat /\ n \in Nat /\ ~(n < m)
    BY <1>2, <1>3
  <2>2. QED
    BY <2>1
<1>5. QED
  BY <1>4

\* Of some calls of a forest one has none of the others inside.
LEMMA InnermostCall ==
    ASSUME NEW C, NEW parent, IsForest(parent, C),
           NEW V, V \subseteq C, V # {}
    PROVE  \E c \in V : \A d \in V : parent[d] # c
<1>1. PICK rank : Ranks(rank, parent, C)
  BY DEF IsForest
<1>2. rank \in [C -> Nat]
  BY <1>1 DEF Ranks
<1> DEFINE T == {rank[c] : c \in V}
<1>3. T \subseteq Nat /\ T # {}
  BY <1>2
<1>4. PICK m \in T : \A n \in T : m <= n
  BY <1>3, LeastNumber
<1>5. PICK c \in V : rank[c] = m
  OBVIOUS
<1>6. ASSUME NEW d \in V, parent[d] = c
      PROVE  FALSE
  <2>1. rank[d] < rank[c]
    BY <1>1, <1>6 DEF Ranks
  <2>2. rank[c] <= rank[d]
    BY <1>4, <1>5
  <2>3. QED
    BY <1>2, <2>1, <2>2
<1>7. QED
  BY <1>6

=============================================================================
