----------------------------- MODULE PageArray -----------------------------
(***************************************************************************)
(* What a pager promises: an array of pages that grows at its end, of      *)
(* which a crash can only touch what has changed since the last flush.     *)
(***************************************************************************)
EXTENDS Naturals, Sequences

VARIABLES pages,    \* the content of each page
          changed   \* the pages that have changed since the last flush

vars == <<pages, changed>>

Init == pages = <<>> /\ changed = {}

\* The file is created, or emptied.
Create == pages' = <<>> /\ changed' = {}

\* One page is written, or added behind the last.
Write(id) ==
  /\ Len(pages') = IF id <= Len(pages) THEN Len(pages) ELSE id
  /\ \A i \in DOMAIN pages \ {id} : pages'[i] = pages[i]
  /\ changed' = changed \union {id}

Flush == UNCHANGED pages /\ changed' = {}

\* The memory of the pager is lost.  A page that has not changed since the last
\* flush is still there.
Crash ==
  /\ Len(pages') <= Len(pages)
  /\ \A i \in DOMAIN pages \ changed : i \in DOMAIN pages' /\ pages'[i] = pages[i]
  /\ changed' = changed \intersect DOMAIN pages'

Next ==
  \/ Create \/ Flush \/ Crash
  \/ \E id \in 1..(Len(pages) + 1) : Write(id)

Spec == Init /\ [][Next]_vars
=============================================================================
