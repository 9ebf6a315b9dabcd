------------------------------- MODULE MCRaft -------------------------------
(***************************************************************************)
(* Bounded instances of RaftCluster.                                       *)
(***************************************************************************)
EXTENDS RaftCluster

MCNodes == 1..3

\* Three terms are what it takes for the leader of an old term to come back
\* and spread its entry while another node holds a newer one; two entries, for
\* logs that differ at one index and agree at another.
MCBounds == { [term |-> 3, log |-> 1, faults |-> 0],
              [term |-> 2, log |-> 2, faults |-> 1] }

\* The smallest instance in which a follower fails to persist.
SmallBounds == {[term |-> 1, log |-> 1, faults |-> 1]}
=============================================================================
