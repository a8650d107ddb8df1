------------------------------ MODULE MCRegistry ------------------------------
(***************************************************************************)
(* Registry for TLC: the topics other than the empty one, the types and    *)
(* the calls that no handler makes are interchangeable.                    *)
(***************************************************************************)
EXTENDS Registry, TLC

Symmetry ==
    Permutations(Topics \ {EmptyTopic}) \cup Permutations(Types) \cup Permutations(BusCalls \ Nested)

=============================================================================
