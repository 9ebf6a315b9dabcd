------------------------------ MODULE MCClient ------------------------------
(***************************************************************************)
(* Bounded instances of Client.                                            *)
(***************************************************************************)
EXTENDS Client

MCNodes == 1..3

\* Intervals of which some follow one another and some overlap.
Intervals == {<<1, 2>>, <<3, 4>>, <<1, 4>>}

Entry(interval, call, value, result) ==
  [invoke |-> interval[1], complete |-> interval[2], op |-> call,
   value |-> value, outcome |-> result]

MadeUp ==
  {Entry(i, "write", v, o) : i \in Intervals, v \in {1, 2}, o \in {"ok", "fail", "info"}}
  \cup {Entry(i, "read", v, "ok") : i \in Intervals, v \in {1, 2, Nil}}
  \cup {Entry(i, "read", Nil, o) : i \in Intervals, o \in {"fail", "info"}}

Limits(led, delayed, stops, attempts, calls, kinds, entries) ==
  [requests |-> led, late |-> delayed, crashes |-> stops,
   attempts |-> attempts, calls |-> calls, kinds |-> kinds, entries |-> entries]

MCBounds ==
  { Limits(2, 0, 1, 1, 2, {"put", "get"}, {}),
    Limits(2, 0, 0, 2, 2, {"put", "get"}, {}),
    Limits(2, 1, 0, 1, 1, {"put", "delete"}, {}),
    Limits(1, 1, 1, 1, 1, {"put", "get"}, {}),
    Limits(0, 0, 0, 1, 3, {}, MadeUp) }
=============================================================================
