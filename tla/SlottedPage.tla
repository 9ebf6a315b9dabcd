----------------------------- MODULE SlottedPage -----------------------------
(***************************************************************************)
(* The slotted page of page.rs: a header, slots that grow forward from it  *)
(* and cells that grow backward from the end.  A cell is a record whose    *)
(* field size is its length in bytes; what it says is kept as fields.      *)
(***************************************************************************)
EXTENDS Integers, Sequences, SequencesExt

CONSTANTS PageSize,  \* PAGE_SIZE
          Zero,      \* a page of zero bytes
          Torn,      \* a page of which only a part was written
          NoRoom     \* insert failed: the page has no free space

HeaderSize == 16

NewPage(kind) ==
  [kind |-> kind, cells |-> <<>>, front |-> HeaderSize, back |-> PageSize]

\* The bytes a cell takes: its slot, its length and itself.
Needed(cell) == 2 + 2 + cell.size

\* Mutant of HasRoom: a cell that would fill the page exactly is refused.
HasRoomToSpare(page, cell) == page.back - page.front > Needed(cell)

HasRoom(page, cell) == page.back - page.front >= Needed(cell)

\* SlottedPage::insert.
insert_cell(page, cell) ==
  IF page = NoRoom \/ ~HasRoom(page, cell) THEN NoRoom
  ELSE [page EXCEPT !.cells = Append(@, cell),
                    !.front = @ + 2,
                    !.back = @ - 2 - cell.size]

\* A new page with these cells, or NoRoom.
Filled(kind, cells) == FoldLeft(insert_cell, NewPage(kind), cells)

\* from_bytes succeeds.  A page of zeros has no magic, a torn one not the
\* right checksum.
from_bytes(page) ==
  /\ page \notin {Zero, Torn}
  /\ page.front = HeaderSize + 2 * Len(page.cells)
  /\ page.front <= page.back
=============================================================================
