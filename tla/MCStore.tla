------------------------------ MODULE MCStore ------------------------------
(***************************************************************************)
(* The store for TLC, with recovery stated a second time in the order the  *)
(* code works.                                                             *)
(***************************************************************************)
EXTENDS Store, SequencesExt

\* One command applied to the tree.
Apply(m, record) ==
  IF record.tag = "mutation" THEN [m EXCEPT ![record.key] = record.value]
                             ELSE m

\* The records up to the first damaged one, taken one at a time.
ReplayStep(acc, record) ==
  IF acc.stopped \/ record.tag = "torn"
    THEN [acc EXCEPT !.stopped = TRUE]
    ELSE [acc EXCEPT !.map = Apply(@, record)]

\* Replaying any log the disk may hold over any snapshot it may hold gives
\* what Store::open computes by applying the intact records one by one, and
\* replaying a log over a snapshot that already contains it changes nothing
\* (the idempotence that store.rs relies on after a checkpoint).
RecoveryAppliesInOrder ==
  \A d \in dirs, l \in logs :
    CanOpen(d, l) =>
      LET recovered == Recovered(d, l)
          inOrder == FoldLeft(ReplayStep,
                              [map |-> Load(d).data, stopped |-> FALSE], l)
      IN  /\ recovered = inOrder.map
          /\ ApplyAll(recovered, Replay(l)) = recovered
=============================================================================
