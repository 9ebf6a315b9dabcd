----------------------------- MODULE MCTreeFile -----------------------------
(***************************************************************************)
(* A bounded instance of TreeFile.                                         *)
(***************************************************************************)
EXTENDS TreeFile

\* Nine keys are the fewest with which an internal node is split; values of two
\* lengths, so that a leaf has room for three of the one, not of the other.
MCBounds == { [keys |-> 1..9, values |-> {1}],
              [keys |-> 1..4, values |-> {1, 14}] }
=============================================================================
