------------------------------- MODULE Pager -------------------------------
(***************************************************************************)
(* The pager (pager.rs): pages of one file behind a bounded cache that     *)
(* evicts the page used least recently, writing it first when it is dirty. *)
(* Writing and truncating the file can fail, a page half written, and the  *)
(* process can end with pages still in the cache.                          *)
(***************************************************************************)
EXTENDS Naturals, Sequences, FiniteSets

CONSTANTS
  Capacity,   \* pages the cache holds
  Contents,   \* what a caller writes into a page
  Zero,       \* the content of an allocated page
  Torn,       \* a page that was written in part
  MaxPages,   \* bound: pages of the file
  MaxClock,   \* bound: calls between two openings
  MaxErrors   \* bound: failing I/O calls and crashes

ASSUME PagerAssumption ==
  /\ Capacity \in Nat \ {0}      \* open refuses 0
  /\ MaxPages \in Nat /\ MaxClock \in Nat /\ MaxErrors \in Nat

VARIABLES
  file,       \* the file: a sequence of pages
  unsynced,   \* the pages of the file that a power loss may tear
  cache,      \* id -> [bytes, dirty, touched]
  clock,      \* calls so far: touched is the clock at the last use
  pages,      \* the number of pages
  changed,    \* history: the pages written since the last flush
  errors      \* failures so far

pagerVars == <<file, unsynced, cache, clock, pages, changed, errors>>

Larger(m, n) == IF m > n THEN m ELSE n

NoCache == [id \in {} |-> Zero]

Init ==
  /\ file = <<>> /\ unsynced = {} /\ cache = NoCache
  /\ clock = 0 /\ pages = 0 /\ changed = {} /\ errors = 0

Error == errors < MaxErrors /\ errors' = errors + 1

-----------------------------------------------------------------------------
(* The file.                                                               *)

\* The file after the pages in the domain of new are written; a write behind
\* the end fills the gap with zeros.
Written(f, new) ==
  LET end == CHOOSE n \in {Len(f)} \union DOMAIN new :
               n >= Len(f) /\ \A id \in DOMAIN new : id <= n
  IN  [id \in 1..end |-> IF id \in DOMAIN new THEN new[id]
                         ELSE IF id <= Len(f) THEN f[id] ELSE Zero]

\* A power loss may tear the pages written, and take back what was added.
Unsynced(written) ==
  unsynced \union {id \in DOMAIN file' : id \in written \/ id > Len(file)}

Dirty == {id \in DOMAIN cache : cache[id].dirty}

Bytes(ids) == [id \in ids |-> cache[id].bytes]

\* Mutant of flush_one: the page is not written.
flush_one_forgets(id) == UNCHANGED <<file, unsynced>>

\* flush_one, of a page that then leaves the cache.
flush_one(id) ==
  IF cache[id].dirty
    THEN /\ file' = Written(file, Bytes({id}))
         /\ unsynced' = Unsynced({id})
    ELSE UNCHANGED <<file, unsynced>>

\* write_all fails: nothing or part of the page has been written, and the page
\* stays dirty.
flush_one_fails(id) ==
  /\ cache[id].dirty /\ Error
  /\ \/ UNCHANGED <<file, unsynced>>
     \/ /\ file' = Written(file, [i \in {id} |-> Torn])
        /\ unsynced' = Unsynced({id})

-----------------------------------------------------------------------------
(* The cache.                                                              *)

\* The page evict_if_needed picks, among equals any.
Victims ==
  {v \in DOMAIN cache : \A id \in DOMAIN cache : cache[v].touched <= cache[id].touched}

\* Mutant of FullCache: one page too many.
FullCacheLate == Cardinality(DOMAIN cache) > Capacity

FullCache == Cardinality(DOMAIN cache) >= Capacity

\* evict_if_needed has made room: keep are the pages that stay.
evict_if_needed(keep) ==
  IF FullCache
    THEN \E v \in Victims : flush_one(v) /\ keep = DOMAIN cache \ {v}
    ELSE keep = DOMAIN cache /\ UNCHANGED <<file, unsynced>>

evict_fails ==
  /\ FullCache
  /\ \E v \in Victims : flush_one_fails(v)
  /\ UNCHANGED cache

Entry(bytes, dirty, touched) ==
  [bytes |-> bytes, dirty |-> dirty, touched |-> touched]

\* The cache with the entry of id, of the others those in keep.
Insert(keep, id, entry) ==
  cache' = [i \in keep \union {id} |-> IF i = id THEN entry ELSE cache[i]]

-----------------------------------------------------------------------------
(* The calls.                                                              *)

\* write; allocate is a write of zeros to the page behind the last.
write(id, bytes) ==
  /\ id \in 1..(pages + 1)
  /\ pages' = Larger(pages, id)
  /\ \E keep \in SUBSET DOMAIN cache :
       /\ IF id \in DOMAIN cache
            THEN keep = DOMAIN cache /\ UNCHANGED <<file, unsynced>>
            ELSE evict_if_needed(keep)
       /\ Insert(keep, id, Entry(bytes, TRUE, clock + 1))
  /\ clock' = clock + 1
  /\ changed' = changed \union {id}
  /\ UNCHANGED errors

\* The eviction fails and write returns the error.  The page that was to be
\* added has been counted already.
write_fails(id) ==
  /\ id \in (1..(pages + 1)) \ DOMAIN cache
  /\ pages' = Larger(pages, id)
  /\ evict_fails
  /\ changed' = changed \union {id}
  /\ UNCHANGED clock

\* read, of a page that is there.
read(id) ==
  /\ id \in 1..pages
  /\ IF id \in DOMAIN cache
       THEN /\ cache' = [cache EXCEPT ![id].touched = clock + 1]
            /\ UNCHANGED <<file, unsynced>>
       ELSE \E keep \in SUBSET DOMAIN cache :
              /\ evict_if_needed(keep)
              /\ id <= Len(file')
              /\ Insert(keep, id, Entry(file'[id], FALSE, clock + 1))
  /\ clock' = clock + 1
  /\ UNCHANGED <<pages, changed, errors>>

\* read returns an error: the eviction fails, or read_exact does after the
\* victim has left the cache, which it always does behind the end of the file.
read_fails(id) ==
  /\ id \in (1..pages) \ DOMAIN cache
  /\ \/ evict_fails
     \/ /\ \E keep \in SUBSET DOMAIN cache :
             /\ evict_if_needed(keep)
             /\ cache' = [i \in keep |-> cache[i]]
        /\ IF id > Len(file') THEN UNCHANGED errors ELSE Error
  /\ UNCHANGED <<clock, pages, changed>>

\* set_len, which adds the pages that are counted and were never written.
SetLen(f) ==
  IF Len(f) < pages THEN Written(f, [id \in {pages} |-> Zero]) ELSE f

\* Mutant of FlushFile: sync_all comes before the last page is written.
FlushFileSyncsFirst ==
  /\ file' = SetLen(Written(file, Bytes(Dirty)))
  /\ unsynced' = Dirty
  /\ changed' = {}
  /\ UNCHANGED errors

\* What flush does to the file: every dirty page, set_len and sync_all.
FlushFile ==
  /\ file' = SetLen(Written(file, Bytes(Dirty)))
  /\ unsynced' = {}
  /\ changed' = {}
  /\ UNCHANGED errors

\* A flush that fails: the pages of done have been written and one more in
\* part, or set_len or sync_all fails when all have been.
FlushFileFails(done) ==
  /\ Error
  /\ \E torn \in {{}} \union {{id} : id \in Dirty \ done} :
       LET after == Written(file, [id \in done \union torn |->
                                     IF id \in torn THEN Torn ELSE cache[id].bytes])
       IN  file' \in {after} \union (IF done = Dirty THEN {SetLen(after)} ELSE {})
  /\ unsynced' = Unsynced(Dirty)

\* The cache when the pages of done are no longer dirty.
Cleaned(done) ==
  [id \in DOMAIN cache |-> IF id \in done THEN [cache[id] EXCEPT !.dirty = FALSE]
                                          ELSE cache[id]]

flush ==
  /\ FlushFile /\ cache' = Cleaned(Dirty)
  /\ UNCHANGED <<clock, pages>>

flush_fails ==
  /\ \E done \in SUBSET Dirty : FlushFileFails(done) /\ cache' = Cleaned(done)
  /\ UNCHANGED <<clock, pages, changed>>

-----------------------------------------------------------------------------
\* The file is opened with what it holds.
open_inner == cache' = NoCache /\ clock' = 0 /\ pages' = Len(file')

\* Pages that the file does not hold are gone.
Shrink == changed' = changed \intersect DOMAIN file'

\* The pager is dropped, which flushes it and ignores the result, and the file
\* is opened again.
Reopen ==
  /\ \/ FlushFile
     \/ (\E done \in SUBSET Dirty : FlushFileFails(done)) /\ Shrink
  /\ open_inner

\* The process ends without dropping the pager.
ProcessCrash ==
  /\ Error
  /\ UNCHANGED <<file, unsynced>>
  /\ Shrink /\ open_inner

\* The machine loses power: what was not synced is kept, torn or lost.
PowerLoss ==
  /\ Error
  /\ \E torn \in SUBSET unsynced : \E end \in 0..Len(file) :
       /\ (end + 1)..Len(file) \subseteq unsynced
       /\ file' = [id \in 1..end |-> IF id \in torn THEN Torn ELSE file[id]]
  /\ unsynced' = {}
  /\ Shrink /\ open_inner

Next ==
  \/ /\ clock < MaxClock
     /\ \E id \in (1..(pages + 1)) \intersect 1..MaxPages :
          \/ \E bytes \in Contents \union {Zero} : write(id, bytes)
          \/ write_fails(id) \/ read(id) \/ read_fails(id)
  \/ flush \/ flush_fails \/ Reopen \/ ProcessCrash \/ PowerLoss

Spec == Init /\ [][Next]_pagerVars

-----------------------------------------------------------------------------
(* Properties.                                                             *)

\* What a read of the page returns: the cached page, or the one in the file.
View(id) == IF id \in DOMAIN cache THEN cache[id].bytes
            ELSE IF id <= Len(file) THEN file[id] ELSE Zero

Array == INSTANCE PageArray WITH pages <- [id \in 1..pages |-> View(id)],
                                 changed <- changed

\* The pager is an array of pages: no eviction, failed call or reopening loses
\* or mixes up what was written, and a page that flush has returned Ok for
\* survives a power loss.
ImplementsPageArray == Array!Spec
=============================================================================
