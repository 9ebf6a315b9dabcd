------------------------------- MODULE MCMvcc -------------------------------
(***************************************************************************)
(* The transaction layer for TLC.                                          *)
(***************************************************************************)
EXTENDS Mvcc, TLC

Limits(txn, writes, errs, stops) ==
  [txn |-> txn, writes |-> writes, errors |-> errs, crashes |-> stops]

\* Three transactions and a crash, for conflicts and garbage collection; two
\* transactions with an I/O error between two crashes, for recovery.
MCBounds == {Limits(3, 2, 0, 1), Limits(2, 2, 1, 2)}

\* The least that an append after a failed commit needs.
TimestampBounds == {Limits(2, 1, 1, 1)}

\* Keys are interchangeable, and no liveness property is checked.
KeySymmetry == Permutations(Keys)
=============================================================================
