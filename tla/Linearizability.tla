-------------------------- MODULE Linearizability --------------------------
(***************************************************************************)
(* The checker of register histories (linearizability.rs).  A history is a *)
(* sequence of entries [invoke, complete, op, value, outcome]; op is       *)
(* "write" or "read", value what was written or observed, and outcome is   *)
(* "ok", "fail" or "info".                                                 *)
(***************************************************************************)
EXTENDS Integers, Sequences, FiniteSets

CONSTANT Nil     \* the value of a register that was never written

\* Mutant of has_unordered_predecessor: it compares the wrong end.
has_overlapping_predecessor(history, used, i) ==
  \E j \in DOMAIN history \ (used \cup {i}) : history[j].invoke < history[i].invoke

has_unordered_predecessor(history, used, i) ==
  \E j \in DOMAIN history \ (used \cup {i}) : history[j].complete < history[i].invoke

\* The states that a used entry can leave; an observation that differs from the
\* state leaves none.
After(entry, state) ==
  CASE entry.outcome = "fail"                         -> {state}
    [] entry.outcome = "ok" /\ entry.op = "write"     -> {entry.value}
    [] entry.outcome = "ok" /\ entry.op = "read"      -> {state} \cap {entry.value}
    [] entry.outcome = "info" /\ entry.op = "write"   -> {state, entry.value}
    [] entry.outcome = "info" /\ entry.op = "read"    -> {state}

RECURSIVE search(_, _, _)
search(history, used, state) ==
  \/ used = DOMAIN history
  \/ \E i \in DOMAIN history \ used :
       /\ ~has_unordered_predecessor(history, used, i)
       /\ \E next \in After(history[i], state) : search(history, used \cup {i}, next)

is_linearizable(history) == search(history, {}, Nil)

-----------------------------------------------------------------------------
(* What it decides: Linearizability, without a search.                     *)

Effective(entry) == entry.outcome = "ok"
Optional(entry) == entry.outcome = "info" /\ entry.op = "write"

\* The value of the register after the first n entries in this order.
RegisterAt(history, order, n) ==
  LET writes == {m \in 1..n : history[order[m]].op = "write"}
  IN  IF writes = {} THEN Nil
      ELSE history[order[CHOOSE m \in writes : \A k \in writes : k <= m]].value

\* Some order of the entries that took effect, and of some of those that may
\* have, keeps to real time, and each read sees the latest write before it.
Linearizable(history) ==
  \E chosen \in SUBSET {i \in DOMAIN history : Optional(history[i])} :
    LET S == chosen \cup {i \in DOMAIN history : Effective(history[i])}
        n == Cardinality(S)
    IN  \E order \in [1..n -> S] :
          /\ \A m, k \in 1..n : m # k => order[m] # order[k]
          /\ \A m, k \in 1..n :
               history[order[m]].complete < history[order[k]].invoke => m < k
          /\ \A m \in 1..n : history[order[m]].op = "read" =>
               history[order[m]].value = RegisterAt(history, order, m)
=============================================================================
