------------------------------ MODULE MCServer ------------------------------
(***************************************************************************)
(* Bounded instances of Server.                                            *)
(***************************************************************************)
EXTENDS Server

MCNodes == 1..3

MCBounds == {[requests |-> 3, late |-> 1, crashes |-> 1]}

\* The smallest instances of the two violations.
DeathBounds == {[requests |-> 3, late |-> 0, crashes |-> 1]}
DeleteBounds == {[requests |-> 1, late |-> 0, crashes |-> 0]}

\* Values are only stored, compared and handed back.
ValueSymmetry == Permutations(Values)
=============================================================================
