---------------------------- MODULE PagerProofs ----------------------------
(***************************************************************************)
(* Proofs about the pager, for every capacity of the cache, every set of   *)
(* contents and all bounds: it implements an array of pages, and the cache *)
(* stays within its capacity.                                              *)
(***************************************************************************)
EXTENDS Pager, FiniteSetTheorems, WellFoundedInduction, TLAPS

Page == Contents \union {Zero, Torn}

CachedPage == [bytes : Page, dirty : BOOLEAN, touched : Nat]

TypeInv ==
  /\ file \in Seq(Page)
  /\ clock \in Nat /\ pages \in Nat /\ errors \in Nat
  /\ cache \in [DOMAIN cache -> CachedPage]
  /\ DOMAIN cache \subseteq 1..pages
  /\ Len(file) <= pages
  /\ unsynced \subseteq 1..Len(file)
  /\ changed \subseteq 1..pages

\* Where the cache and the file may differ from what the last flush left: only on
\* pages that have changed since.  A cached page that is not dirty is in the file.
AgreeInv ==
  /\ Dirty \subseteq changed
  /\ unsynced \subseteq changed
  /\ \A id \in 1..pages : id > Len(file) => id \in changed
  /\ \A id \in DOMAIN cache \ Dirty : id <= Len(file) /\ cache[id].bytes = file[id]

\* evict_if_needed makes room before a page is added.
CacheBounded == IsFiniteSet(DOMAIN cache) /\ Cardinality(DOMAIN cache) <= Capacity

IInv == TypeInv /\ AgreeInv

-----------------------------------------------------------------------------
\* Lemmas about the file.

\* A bounded set of naturals that is not empty has a largest element.
LEMMA NatMax ==
  ASSUME NEW k \in Nat, NEW T, T \subseteq 0..k, T # {}
  PROVE  \E x \in T : \A y \in T : y <= x
<1> DEFINE R == OpToRel(<, Nat)
           S == {k - y : y \in T}
<1>0. \A y \in T : y \in Nat /\ y <= k
  OBVIOUS
<1>1. S \subseteq Nat /\ S # {}
  <2>1. \A y \in T : k - y \in Nat
    BY <1>0
  <2>. QED  BY <2>1
<1>2. PICK z \in S : \A y \in S : ~(<<y, z>> \in R)
  BY <1>1, NatLessThanWellFounded, WFMin
<1>3. \A y \in S : ~(y < z)
  BY <1>1, <1>2 DEF OpToRel
<1>4. PICK x \in T : z = k - x
  BY DEF S
<1>5. \A y \in T : ~(k - y < k - x)
  BY <1>3, <1>4
<1> HIDE DEF R, S
<1>. QED  BY <1>0, <1>5

\* A file of n pages.
LEMMA PageSeq ==
  ASSUME NEW n \in Nat, NEW s \in [1..n -> Page]
  PROVE  s \in Seq(Page) /\ Len(s) = n
OBVIOUS

\* The pages of a file.
LEMMA FileIs ==
  ASSUME NEW f \in Seq(Page)
  PROVE  Len(f) \in Nat /\ DOMAIN f = 1..Len(f) /\ \A i \in 1..Len(f) : f[i] \in Page
OBVIOUS

\* Written keeps the file and puts in the new pages; a gap is filled with zeros.
LEMMA WrittenIs ==
  ASSUME NEW k \in Nat, NEW f \in Seq(Page), Len(f) <= k,
         NEW ids, ids \subseteq 1..k, NEW new \in [ids -> Page]
  PROVE  /\ Written(f, new) \in Seq(Page)
         /\ Len(f) <= Len(Written(f, new)) /\ Len(Written(f, new)) <= k
         /\ ids \subseteq 1..Len(Written(f, new))
         /\ \A i \in 1..Len(Written(f, new)) :
              Written(f, new)[i] = IF i \in ids THEN new[i]
                                   ELSE IF i <= Len(f) THEN f[i] ELSE Zero
<1> DEFINE T == {Len(f)} \union DOMAIN new
           Last(n) == n >= Len(f) /\ \A id \in DOMAIN new : id <= n
           end == CHOOSE n \in T : Last(n)
           page(id) == IF id \in DOMAIN new THEN new[id]
                       ELSE IF id <= Len(f) THEN f[id] ELSE Zero
           w == [id \in 1..end |-> page(id)]
<1>1. Len(f) \in Nat /\ DOMAIN new = ids
  OBVIOUS
<1>2. T \subseteq 0..k /\ T # {}
  <2>1. Len(f) \in 0..k /\ ids \subseteq 0..k
    BY <1>1
  <2>. QED  BY <1>1, <2>1
<1>3. PICK x \in T : \A y \in T : y <= x
  BY <1>2, NatMax
<1>4. x \in T /\ Last(x)
  BY <1>2, <1>3
<1>5. end \in T /\ Last(end)
  BY <1>4
<1>6. end \in Nat /\ end <= k
  BY <1>2, <1>5
<1>7. \A id \in 1..end : page(id) \in Page
  BY <1>1, FileIs DEF Page
<1>8. w \in [1..end -> Page]
  BY <1>7
<1>9. Written(f, new) = w
  BY DEF Written
<1> HIDE DEF end
<1>10. w \in Seq(Page) /\ Len(w) = end
  BY <1>6, <1>8, PageSeq
<1>11. ids \subseteq 1..end
  BY <1>1, <1>5, <1>6
<1>. QED  BY <1>1, <1>5, <1>6, <1>9, <1>10, <1>11

\* set_len brings the file to the length that the pager counts.
LEMMA SetLenIs ==
  ASSUME NEW f \in Seq(Page), pages \in Nat, Len(f) <= pages
  PROVE  /\ SetLen(f) \in Seq(Page) /\ Len(SetLen(f)) = pages
         /\ \A i \in 1..pages : SetLen(f)[i] = IF i <= Len(f) THEN f[i] ELSE Zero
<1>0. Len(f) \in Nat
  OBVIOUS
<1>1. CASE ~(Len(f) < pages)
  BY <1>0, <1>1 DEF SetLen
<1>2. CASE Len(f) < pages
  <2> DEFINE last == {pages}
             new == [id \in last |-> Zero]
             W == Written(f, new)
  <2>1. new \in [last -> Page] /\ last \subseteq 1..pages
    BY <1>0, <1>2 DEF Page
  <2>2. SetLen(f) = W
    BY <1>2 DEF SetLen
  <2>3. /\ W \in Seq(Page) /\ Len(W) <= pages /\ last \subseteq 1..Len(W)
        /\ \A i \in 1..Len(W) : W[i] = IF i \in last THEN new[i]
                                       ELSE IF i <= Len(f) THEN f[i] ELSE Zero
    <3> HIDE DEF last, new
    <3>. QED  BY <1>0, <2>1, WrittenIs
  <2>4. Len(W) = pages
    <3> HIDE DEF W
    <3>1. Len(W) \in Nat
      BY <2>3
    <3>. QED  BY <2>3, <3>1
  <2>. QED
    <3> HIDE DEF W
    <3>. QED  BY <1>0, <1>2, <2>2, <2>3, <2>4
<1>. QED  BY <1>1, <1>2


-----------------------------------------------------------------------------
\* Lemmas about the cache.

\* What the file alone shows of a page.
InFile(f, id) == IF id <= Len(f) THEN f[id] ELSE Zero

\* The facts about the state that the proofs use most.
LEMMA StateIs ==
  ASSUME IInv
  PROVE  /\ file \in Seq(Page) /\ Len(file) \in Nat /\ Len(file) <= pages
         /\ pages \in Nat /\ clock \in Nat /\ errors \in Nat
         /\ unsynced \subseteq 1..Len(file) /\ unsynced \subseteq changed
         /\ changed \subseteq 1..pages
         /\ DOMAIN cache \subseteq 1..pages
         /\ \A id \in DOMAIN cache :
              /\ cache[id] \in CachedPage /\ cache[id].bytes \in Page
              /\ cache[id].dirty => id \in changed
              /\ ~cache[id].dirty => id <= Len(file) /\ cache[id].bytes = file[id]
         /\ \A id \in 1..pages : id > Len(file) => id \in changed
         /\ Dirty \subseteq DOMAIN cache
<1>1. \A id \in DOMAIN cache : cache[id] \in CachedPage
  BY DEF IInv, TypeInv
<1>. QED  BY <1>1 DEF IInv, TypeInv, AgreeInv, Dirty, CachedPage

\* One page is written to the file, whole or in part.
LEMMA OneWritten ==
  ASSUME IInv, NEW v \in DOMAIN cache, NEW new \in [{v} -> Page],
         cache[v].dirty, file' = Written(file, new), unsynced' = Unsynced({v})
  PROVE  /\ file' \in Seq(Page) /\ Len(file') \in Nat
         /\ Len(file) <= Len(file') /\ Len(file') <= pages
         /\ v <= Len(file') /\ file'[v] = new[v]
         /\ unsynced' \subseteq 1..Len(file') /\ unsynced' \subseteq changed
         /\ \A i \in 1..pages : i # v => InFile(file', i) = InFile(file, i)
<1>0. /\ file \in Seq(Page) /\ Len(file) \in Nat /\ Len(file) <= pages
      /\ pages \in Nat /\ v \in 1..pages /\ v \in changed
      /\ unsynced \subseteq 1..Len(file) /\ unsynced \subseteq changed
      /\ \A id \in 1..pages : id > Len(file) => id \in changed
  BY StateIs
<1> DEFINE ids == {v}
<1>1. ids \subseteq 1..pages /\ new \in [ids -> Page]
  BY <1>0
<1>2. /\ file' \in Seq(Page)
      /\ Len(file) <= Len(file') /\ Len(file') <= pages /\ ids \subseteq 1..Len(file')
      /\ \A i \in 1..Len(file') :
           file'[i] = IF i \in ids THEN new[i]
                      ELSE IF i <= Len(file) THEN file[i] ELSE Zero
  <2> HIDE DEF ids
  <2>. QED  BY <1>0, <1>1, WrittenIs
<1>3. Len(file') \in Nat /\ DOMAIN file' = 1..Len(file')
  BY <1>2
<1>4. \A i \in 1..pages : i # v => InFile(file', i) = InFile(file, i)
  BY <1>0, <1>2, <1>3 DEF InFile
<1>5. unsynced' = unsynced \union {id \in 1..Len(file') : id \in {v} \/ id > Len(file)}
  BY <1>3 DEF Unsynced
<1>6. v \in 1..Len(file') /\ file'[v] = new[v]
  BY <1>2
<1>7. ASSUME NEW i \in unsynced'
      PROVE  i \in 1..Len(file') /\ i \in changed
  <2>1. CASE i \in unsynced
    BY <1>0, <1>2, <1>3, <2>1
  <2>2. CASE i \in 1..Len(file') /\ i > Len(file)
    <3>1. i \in 1..pages
      BY <1>0, <1>2, <1>3, <2>2
    <3>. QED  BY <1>0, <2>2, <3>1
  <2>. QED  BY <1>0, <1>5, <1>6, <1>7, <2>1, <2>2
<1>8. v <= Len(file')
  BY <1>6
<1>. QED  BY <1>2, <1>3, <1>4, <1>6, <1>7, <1>8

\* What holds of the file when room has been made, keep being the pages that
\* stay in the cache: no page that left the cache is lost.
Evicted(keep) ==
  /\ file' \in Seq(Page) /\ Len(file') \in Nat
  /\ Len(file) <= Len(file') /\ Len(file') <= pages
  /\ unsynced' \subseteq 1..Len(file') /\ unsynced' \subseteq changed
  /\ \A i \in keep : ~cache[i].dirty => i <= Len(file') /\ file'[i] = cache[i].bytes
  /\ \A i \in 1..pages : i \notin keep => InFile(file', i) = View(i)

\* With room in the cache nothing is written back.
LEMMA NothingEvicted ==
  ASSUME IInv, UNCHANGED <<file, unsynced>>
  PROVE  Evicted(DOMAIN cache)
BY StateIs DEF Evicted, View, InFile

\* evict_if_needed removes at most one page, after writing it back if dirty.
LEMMA EvictIs ==
  ASSUME IInv, NEW keep \in SUBSET DOMAIN cache, evict_if_needed(keep)
  PROVE  /\ Evicted(keep)
         /\ FullCache => \E v \in DOMAIN cache : keep = DOMAIN cache \ {v}
         /\ ~FullCache => keep = DOMAIN cache
<1>1. CASE ~FullCache
  BY <1>1, NothingEvicted DEF evict_if_needed
<1>2. CASE FullCache
  <2>1. PICK v \in DOMAIN cache : flush_one(v) /\ keep = DOMAIN cache \ {v}
    BY <1>2 DEF evict_if_needed, Victims
  <2>2. CASE ~cache[v].dirty
    <3>1. UNCHANGED <<file, unsynced>>
      BY <2>1, <2>2 DEF flush_one
    <3>2. Evicted(DOMAIN cache)
      BY <3>1, NothingEvicted
    <3>3. v <= Len(file) /\ cache[v].bytes = file[v]
      BY <2>2, StateIs
    <3>4. InFile(file', v) = View(v)
      BY <3>1, <3>3 DEF InFile, View
    <3>. QED  BY <1>2, <2>1, <3>2, <3>4 DEF Evicted
  <2>3. CASE cache[v].dirty
    <3> DEFINE new == Bytes({v})
    <3>1. file' = Written(file, new) /\ unsynced' = Unsynced({v})
      BY <2>1, <2>3 DEF flush_one
    <3>2. new \in [{v} -> Page] /\ new[v] = cache[v].bytes
      BY StateIs DEF Bytes
    <3> HIDE DEF new
    <3>3. /\ file' \in Seq(Page) /\ Len(file') \in Nat
          /\ Len(file) <= Len(file') /\ Len(file') <= pages
          /\ v <= Len(file') /\ file'[v] = cache[v].bytes
          /\ unsynced' \subseteq 1..Len(file') /\ unsynced' \subseteq changed
          /\ \A i \in 1..pages : i # v => InFile(file', i) = InFile(file, i)
      BY <2>3, <3>1, <3>2, OneWritten
    <3>4. ASSUME NEW i \in keep, ~cache[i].dirty
          PROVE  i <= Len(file') /\ file'[i] = cache[i].bytes
      <4>1. i \in 1..pages /\ i # v /\ i <= Len(file) /\ cache[i].bytes = file[i]
        BY <2>1, <3>4, StateIs
      <4>2. i <= Len(file')
        BY <3>3, <4>1, StateIs
      <4>. QED  BY <3>3, <4>1, <4>2 DEF InFile
    <3>5. ASSUME NEW i \in 1..pages, i \notin keep
          PROVE  InFile(file', i) = View(i)
      BY <2>1, <3>3, <3>5 DEF InFile, View
    <3>. QED  BY <1>2, <2>1, <3>3, <3>4, <3>5 DEF Evicted
  <2>. QED  BY <2>2, <2>3
<1>. QED  BY <1>1, <1>2


\* A page enters the cache.
LEMMA InsertKeeps ==
  ASSUME IInv, NEW keep \in SUBSET DOMAIN cache, Evicted(keep),
         NEW id, NEW entry \in CachedPage, Insert(keep, id, entry),
         pages' \in Nat, pages <= pages', id \in 1..pages',
         changed \subseteq changed', changed' \subseteq 1..pages',
         \A i \in 1..pages' : i > pages => i \in changed',
         clock' \in Nat, errors' \in Nat,
         entry.dirty => id \in changed',
         ~entry.dirty => id <= Len(file') /\ entry.bytes = file'[id]
  PROVE  IInv' /\ \A i \in 1..pages : i # id => View(i)' = View(i)
<1>0. /\ pages \in Nat /\ changed \subseteq 1..pages /\ DOMAIN cache \subseteq 1..pages
      /\ Len(file) \in Nat
      /\ \A i \in DOMAIN cache : /\ cache[i] \in CachedPage
                                 /\ cache[i].dirty => i \in changed
      /\ \A i \in 1..pages : i > Len(file) => i \in changed
  BY StateIs
<1>1. /\ file' \in Seq(Page) /\ Len(file') \in Nat
      /\ Len(file) <= Len(file') /\ Len(file') <= pages
      /\ unsynced' \subseteq 1..Len(file') /\ unsynced' \subseteq changed
      /\ \A i \in keep : ~cache[i].dirty => i <= Len(file') /\ file'[i] = cache[i].bytes
      /\ \A i \in 1..pages : i \notin keep => InFile(file', i) = View(i)
  BY DEF Evicted
<1>2. /\ DOMAIN cache' = keep \union {id} /\ cache'[id] = entry
      /\ \A i \in keep : i # id => cache'[i] = cache[i]
      /\ cache' \in [DOMAIN cache' -> CachedPage]
  BY <1>0 DEF Insert
<1>3. DOMAIN cache' \subseteq 1..pages' /\ Len(file') <= pages'
  BY <1>0, <1>1, <1>2
<1>4. TypeInv'
  BY <1>1, <1>2, <1>3 DEF TypeInv
<1>5. Dirty' \subseteq changed'
  BY <1>0, <1>2 DEF Dirty
<1>6. \A i \in 1..pages' : i > Len(file') => i \in changed'
  BY <1>0, <1>1
<1>7. \A i \in DOMAIN cache' \ Dirty' : i <= Len(file') /\ cache'[i].bytes = file'[i]
  BY <1>1, <1>2 DEF Dirty
<1>8. AgreeInv'
  BY <1>1, <1>5, <1>6, <1>7 DEF AgreeInv
<1>9. ASSUME NEW i \in 1..pages, i # id
      PROVE  View(i)' = View(i)
  <2>1. CASE i \in keep
    BY <1>2, <1>9, <2>1 DEF View
  <2>2. CASE i \notin keep
    BY <1>1, <1>2, <1>9, <2>2 DEF View, InFile
  <2>. QED  BY <2>1, <2>2
<1>. QED  BY <1>4, <1>8, <1>9 DEF IInv

-----------------------------------------------------------------------------
\* The steps, as those of an array of pages.

Keeps ==
  /\ UNCHANGED <<pages, changed>>
  /\ \A i \in 1..pages : View(i)' = View(i)

Writes(id) ==
  /\ id \in 1..(pages + 1) /\ pages' = Larger(pages, id)
  /\ \A i \in 1..pages : i # id => View(i)' = View(i)
  /\ changed' = changed \union {id}

Flushes ==
  /\ UNCHANGED pages /\ changed' = {}
  /\ \A i \in 1..pages : View(i)' = View(i)

Crashes ==
  /\ pages' <= pages /\ changed' = changed \intersect 1..pages'
  /\ \A i \in (1..pages) \ changed : i <= pages' /\ View(i)' = View(i)

\* Writing the page behind the last makes the file one page longer.
LEMMA LargerIs ==
  ASSUME NEW m \in Nat, NEW id \in 1..(m + 1)
  PROVE  /\ Larger(m, id) \in Nat /\ m <= Larger(m, id) /\ id \in 1..Larger(m, id)
         /\ \A i \in 1..Larger(m, id) : i > m => i = id
BY DEF Larger

\* write changes its page and no other.
LEMMA WriteStep ==
  ASSUME IInv, NEW id, NEW bytes \in Page, write(id, bytes)
  PROVE  IInv' /\ Writes(id)
<1>0. pages \in Nat /\ changed \subseteq 1..pages /\ clock \in Nat /\ errors \in Nat
  BY StateIs
<1>1. /\ id \in 1..(pages + 1) /\ pages' = Larger(pages, id)
      /\ clock' = clock + 1 /\ changed' = changed \union {id} /\ errors' = errors
  BY DEF write
<1> DEFINE entry == Entry(bytes, TRUE, clock + 1)
<1>2. PICK keep \in SUBSET DOMAIN cache : Evicted(keep) /\ Insert(keep, id, entry)
  <2>1. PICK keep \in SUBSET DOMAIN cache :
          /\ IF id \in DOMAIN cache
               THEN keep = DOMAIN cache /\ UNCHANGED <<file, unsynced>>
               ELSE evict_if_needed(keep)
          /\ Insert(keep, id, entry)
    BY DEF write
  <2>. QED  BY <2>1, EvictIs, NothingEvicted
<1>3. entry \in CachedPage /\ entry.dirty
  BY <1>0 DEF Entry, CachedPage
<1>4. /\ pages' \in Nat /\ pages <= pages' /\ id \in 1..pages'
      /\ \A i \in 1..pages' : i > pages => i \in changed'
  BY <1>0, <1>1, LargerIs
<1>5. changed \subseteq changed' /\ changed' \subseteq 1..pages' /\ id \in changed'
  BY <1>0, <1>1, <1>4
<1>6. clock' \in Nat /\ errors' \in Nat
  BY <1>0, <1>1
<1> HIDE DEF entry
<1>7. IInv' /\ \A i \in 1..pages : i # id => View(i)' = View(i)
  BY <1>2, <1>3, <1>4, <1>5, <1>6, InsertKeeps
<1>. QED  BY <1>1, <1>7 DEF Writes


\* An eviction fails: the file may hold a torn page, which is still cached.
LEMMA EvictFailsKeeps ==
  ASSUME IInv, evict_fails, pages' \in Nat, pages <= pages',
         changed \subseteq changed', changed' \subseteq 1..pages',
         \A i \in 1..pages' : i > pages => i \in changed', clock' \in Nat
  PROVE  IInv' /\ \A i \in 1..pages : View(i)' = View(i)
<1>0. /\ pages \in Nat /\ changed \subseteq 1..pages /\ DOMAIN cache \subseteq 1..pages
      /\ errors \in Nat /\ Len(file) \in Nat
      /\ \A i \in DOMAIN cache : /\ cache[i] \in CachedPage
                                 /\ cache[i].dirty => i \in changed
                                 /\ ~cache[i].dirty => i <= Len(file) /\ cache[i].bytes = file[i]
      /\ \A i \in 1..pages : i > Len(file) => i \in changed
  BY StateIs
<1>1. PICK v \in DOMAIN cache : flush_one_fails(v)
  BY DEF evict_fails, Victims
<1>2. cache[v].dirty /\ errors' \in Nat /\ UNCHANGED cache
  BY <1>0, <1>1 DEF evict_fails, flush_one_fails, Error
<1>3. /\ file' \in Seq(Page) /\ Len(file') \in Nat
      /\ Len(file) <= Len(file') /\ Len(file') <= pages
      /\ unsynced' \subseteq 1..Len(file') /\ unsynced' \subseteq changed
      /\ \A i \in 1..pages : i # v => InFile(file', i) = InFile(file, i)
  <2>1. CASE UNCHANGED <<file, unsynced>>
    BY <2>1, StateIs
  <2> DEFINE new == [i \in {v} |-> Torn]
  <2>2. CASE file' = Written(file, new) /\ unsynced' = Unsynced({v})
    <3>1. new \in [{v} -> Page]
      BY DEF Page
    <3> HIDE DEF new
    <3>. QED  BY <1>2, <2>2, <3>1, OneWritten
  <2>. QED  BY <1>1, <2>1, <2>2 DEF flush_one_fails
<1>4. /\ DOMAIN cache \subseteq 1..pages' /\ Len(file') <= pages'
      /\ cache \in [DOMAIN cache -> CachedPage]
  BY <1>0, <1>3 DEF IInv, TypeInv
<1>5. TypeInv'
  BY <1>2, <1>3, <1>4 DEF TypeInv
<1>6. ASSUME NEW i \in DOMAIN cache, ~cache[i].dirty
      PROVE  i <= Len(file') /\ cache[i].bytes = file'[i]
  <2>1. i \in 1..pages /\ i # v /\ i <= Len(file) /\ cache[i].bytes = file[i]
    BY <1>0, <1>2, <1>6
  <2>2. i <= Len(file')
    BY <1>0, <1>3, <2>1
  <2>. QED  BY <1>3, <2>1, <2>2 DEF InFile
<1>7. \A i \in 1..pages' : i > Len(file') => i \in changed'
  BY <1>0, <1>3
<1>8. AgreeInv'
  BY <1>0, <1>2, <1>3, <1>6, <1>7 DEF AgreeInv, Dirty
<1>9. \A i \in 1..pages : View(i)' = View(i)
  BY <1>2, <1>3 DEF View, InFile
<1>. QED  BY <1>5, <1>8, <1>9 DEF IInv

\* A write that fails changes no other page.
LEMMA WriteFailsStep ==
  ASSUME IInv, NEW id, write_fails(id)
  PROVE  IInv' /\ Writes(id)
<1>0. pages \in Nat /\ changed \subseteq 1..pages /\ clock \in Nat
  BY StateIs
<1>1. /\ id \in 1..(pages + 1) /\ pages' = Larger(pages, id)
      /\ changed' = changed \union {id} /\ clock' = clock /\ evict_fails
  BY DEF write_fails
<1>2. /\ pages' \in Nat /\ pages <= pages' /\ id \in 1..pages'
      /\ \A i \in 1..pages' : i > pages => i \in changed'
  BY <1>0, <1>1, LargerIs
<1>3. changed \subseteq changed' /\ changed' \subseteq 1..pages'
  BY <1>0, <1>1, <1>2
<1>4. IInv' /\ \A i \in 1..pages : View(i)' = View(i)
  BY <1>0, <1>1, <1>2, <1>3, EvictFailsKeeps
<1>. QED  BY <1>1, <1>4 DEF Writes

\* read changes no page.
LEMMA ReadStep ==
  ASSUME IInv, NEW id, read(id)
  PROVE  IInv' /\ Keeps
<1>0. /\ pages \in Nat /\ changed \subseteq 1..pages /\ clock \in Nat /\ errors \in Nat
      /\ \A i \in 1..pages : ~(i > pages)
  BY StateIs
<1>1. /\ id \in 1..pages /\ clock' = clock + 1
      /\ pages' = pages /\ changed' = changed /\ errors' = errors
  BY DEF read
<1>2. CASE id \in DOMAIN cache
  <2>1. /\ cache' = [cache EXCEPT ![id].touched = clock + 1]
        /\ UNCHANGED <<file, unsynced>>
    BY <1>2 DEF read
  <2>2. \A i \in DOMAIN cache : cache[i] \in CachedPage
    BY StateIs
  <2>3. /\ DOMAIN cache' = DOMAIN cache
        /\ \A i \in DOMAIN cache : /\ cache'[i].dirty = cache[i].dirty
                                   /\ cache'[i].bytes = cache[i].bytes
                                   /\ cache'[i] \in CachedPage
    BY <1>0, <1>2, <2>1, <2>2 DEF CachedPage
  <2>4. cache' \in [DOMAIN cache' -> CachedPage]
    BY <2>1, <2>3
  <2>5. TypeInv'
    BY <1>0, <1>1, <2>1, <2>3, <2>4 DEF IInv, TypeInv
  <2>6. AgreeInv'
    BY <1>1, <2>1, <2>3 DEF IInv, AgreeInv, Dirty
  <2>7. \A i \in 1..pages : View(i)' = View(i)
    BY <2>1, <2>3 DEF View
  <2>. QED  BY <1>1, <2>5, <2>6, <2>7 DEF IInv, Keeps
<1>3. CASE id \notin DOMAIN cache
  <2>1. PICK keep \in SUBSET DOMAIN cache :
          /\ evict_if_needed(keep) /\ id <= Len(file')
          /\ Insert(keep, id, Entry(file'[id], FALSE, clock + 1))
    BY <1>3 DEF read
  <2>2. Evicted(keep)
    BY <2>1, EvictIs
  <2> DEFINE entry == Entry(file'[id], FALSE, clock + 1)
  <2>3. entry \in CachedPage /\ ~entry.dirty /\ entry.bytes = file'[id]
    <3>1. file'[id] \in Page
      BY <1>1, <2>1, <2>2 DEF Evicted
    <3>. QED  BY <1>0, <3>1 DEF Entry, CachedPage
  <2>4. Insert(keep, id, entry)
    BY <2>1
  <2> HIDE DEF entry
  <2>5. IInv' /\ \A i \in 1..pages : i # id => View(i)' = View(i)
    BY <1>0, <1>1, <2>1, <2>2, <2>3, <2>4, InsertKeeps
  <2>6. View(id)' = View(id)
    <3>1. cache'[id] = entry /\ id \in DOMAIN cache'
      BY <2>4 DEF Insert
    <3>2. InFile(file', id) = View(id)
      BY <1>1, <1>3, <2>2 DEF Evicted
    <3>. QED  BY <2>1, <2>3, <3>1, <3>2 DEF View, InFile
  <2>. QED  BY <1>1, <2>5, <2>6 DEF Keeps
<1>. QED  BY <1>2, <1>3


\* A read that fails changes no page.
LEMMA ReadFailsStep ==
  ASSUME IInv, NEW id, read_fails(id)
  PROVE  IInv' /\ Keeps
<1>0. /\ pages \in Nat /\ changed \subseteq 1..pages /\ clock \in Nat /\ errors \in Nat
      /\ \A i \in 1..pages : ~(i > pages)
      /\ \A i \in DOMAIN cache : /\ cache[i] \in CachedPage
                                 /\ cache[i].dirty => i \in changed
      /\ \A i \in 1..pages : i > Len(file) => i \in changed
      /\ Len(file) \in Nat /\ DOMAIN cache \subseteq 1..pages
  BY StateIs
<1>1. clock' = clock /\ pages' = pages /\ changed' = changed
  BY DEF read_fails
<1>2. CASE evict_fails
  BY <1>0, <1>1, <1>2, EvictFailsKeeps DEF Keeps
<1>3. CASE ~evict_fails
  <2>1. PICK keep \in SUBSET DOMAIN cache :
          evict_if_needed(keep) /\ cache' = [i \in keep |-> cache[i]]
    BY <1>3 DEF read_fails
  <2>2. errors' \in Nat
    BY <1>0, <1>3 DEF read_fails, Error
  <2>3. Evicted(keep)
    BY <2>1, EvictIs
  <2>4. /\ file' \in Seq(Page) /\ Len(file') \in Nat
        /\ Len(file) <= Len(file') /\ Len(file') <= pages
        /\ unsynced' \subseteq 1..Len(file') /\ unsynced' \subseteq changed
        /\ \A i \in keep : ~cache[i].dirty => i <= Len(file') /\ file'[i] = cache[i].bytes
        /\ \A i \in 1..pages : i \notin keep => InFile(file', i) = View(i)
    BY <2>3 DEF Evicted
  <2>5. /\ DOMAIN cache' = keep /\ cache' \in [DOMAIN cache' -> CachedPage]
        /\ \A i \in keep : cache'[i] = cache[i]
    BY <1>0, <2>1
  <2>6. TypeInv'
    BY <1>0, <1>1, <2>2, <2>4, <2>5 DEF TypeInv
  <2>7. AgreeInv'
    <3>1. \A i \in 1..pages : i > Len(file') => i \in changed
      BY <1>0, <2>4
    <3>. QED  BY <1>0, <1>1, <2>4, <2>5, <3>1 DEF AgreeInv, Dirty
  <2>8. \A i \in 1..pages : View(i)' = View(i)
    BY <2>4, <2>5 DEF View, InFile
  <2>. QED  BY <1>1, <2>6, <2>7, <2>8 DEF IInv, Keeps
<1>. QED  BY <1>2, <1>3

-----------------------------------------------------------------------------
\* flush, and the ends of a pager.

\* The file f after the pages of ids are written to it: those of done whole.
Flushed(f, done, ids) ==
  /\ f \in Seq(Page) /\ Len(f) \in Nat /\ Len(file) <= Len(f) /\ Len(f) <= pages
  /\ \A i \in done : i <= Len(f) /\ f[i] = cache[i].bytes
  /\ \A i \in 1..pages : i \notin ids => InFile(f, i) = InFile(file, i)

\* Writing back dirty pages shows the same contents.
LEMMA DirtyWritten ==
  ASSUME IInv, NEW done, NEW ids, done \subseteq ids, ids \subseteq Dirty,
         NEW new \in [ids -> Page], \A i \in done : new[i] = cache[i].bytes
  PROVE  /\ Flushed(Written(file, new), done, ids)
         /\ Flushed(SetLen(Written(file, new)), done, ids)
         /\ Len(SetLen(Written(file, new))) = pages
<1> DEFINE w == Written(file, new)
           f == SetLen(w)
<1>0. /\ file \in Seq(Page) /\ Len(file) \in Nat /\ Len(file) <= pages /\ pages \in Nat
      /\ ids \subseteq 1..pages
  BY StateIs
<1>1. /\ w \in Seq(Page) /\ Len(file) <= Len(w) /\ Len(w) <= pages
      /\ ids \subseteq 1..Len(w)
      /\ \A i \in 1..Len(w) : w[i] = IF i \in ids THEN new[i]
                                     ELSE IF i <= Len(file) THEN file[i] ELSE Zero
  BY <1>0, WrittenIs
<1> HIDE DEF w
<1>2. Len(w) \in Nat
  BY <1>1
<1>3. Flushed(w, done, ids)
  BY <1>0, <1>1, <1>2 DEF InFile, Flushed
<1>4. /\ f \in Seq(Page) /\ Len(f) = pages
      /\ \A i \in 1..pages : f[i] = IF i <= Len(w) THEN w[i] ELSE Zero
  BY <1>0, <1>1, SetLenIs
<1> HIDE DEF f
<1>5. ASSUME NEW i \in done
      PROVE  i <= Len(f) /\ f[i] = cache[i].bytes
  <2>1. i \in 1..pages /\ i \in 1..Len(w) /\ i \in ids
    BY <1>0, <1>1
  <2>. QED  BY <1>1, <1>2, <1>4, <2>1
<1>6. ASSUME NEW i \in 1..pages, i \notin ids
      PROVE  InFile(f, i) = InFile(file, i)
  BY <1>0, <1>1, <1>2, <1>4, <1>6 DEF InFile
<1>7. Len(f) \in Nat /\ Len(file) <= Len(f) /\ Len(f) <= pages
  BY <1>0, <1>4
<1>8. Flushed(f, done, ids)
  BY <1>4, <1>5, <1>6, <1>7 DEF Flushed
<1>. QED  BY <1>3, <1>4, <1>8 DEF f, w

\* flush leaves in the file what reads see.
LEMMA FlushFileIs ==
  ASSUME IInv, FlushFile
  PROVE  /\ file' \in Seq(Page) /\ Len(file') = pages
         /\ unsynced' = {} /\ changed' = {} /\ errors' = errors
         /\ \A i \in 1..pages : file'[i] = View(i)
<1> DEFINE new == Bytes(Dirty)
           ids == Dirty
<1>1. /\ new \in [ids -> Page] /\ \A i \in ids : new[i] = cache[i].bytes
      /\ file' = SetLen(Written(file, new)) /\ ids \subseteq Dirty
  BY StateIs DEF Bytes, FlushFile
<1> HIDE DEF new, ids
<1>2. Flushed(file', ids, ids) /\ Len(file') = pages
  BY <1>1, DirtyWritten
<1>3. /\ file' \in Seq(Page)
      /\ \A i \in ids : i <= Len(file') /\ file'[i] = cache[i].bytes
      /\ \A i \in 1..pages : i \notin ids => InFile(file', i) = InFile(file, i)
  BY <1>2 DEF Flushed
<1>4. Len(file') = pages
  BY <1>2
<1>5. ASSUME NEW i \in 1..pages
      PROVE  file'[i] = View(i)
  <2>1. CASE i \in ids
    BY <1>3, <2>1 DEF View, ids, Dirty
  <2>2. CASE i \notin ids
    <3>1. file'[i] = InFile(file, i)
      BY <1>3, <1>4, <2>2 DEF InFile
    <3>2. CASE i \in DOMAIN cache
      <4>1. ~cache[i].dirty
        BY <2>2, <3>2 DEF ids, Dirty
      <4>. QED  BY <3>1, <3>2, <4>1, StateIs DEF View, InFile
    <3>3. CASE i \notin DOMAIN cache
      BY <3>1, <3>3 DEF View, InFile
    <3>. QED  BY <3>2, <3>3
  <2>. QED  BY <2>1, <2>2
<1>. QED  BY <1>3, <1>4, <1>5 DEF FlushFile


\* A flush that fails has written some dirty pages, at most one in part.
LEMMA FlushFileFailsIs ==
  ASSUME IInv, NEW done \in SUBSET Dirty, FlushFileFails(done)
  PROVE  /\ \E ids \in SUBSET Dirty : done \subseteq ids /\ Flushed(file', done, ids)
         /\ unsynced' \subseteq 1..Len(file') /\ unsynced' \subseteq changed
         /\ errors' \in Nat
<1>0. /\ Len(file) \in Nat /\ pages \in Nat /\ errors \in Nat
      /\ unsynced \subseteq 1..Len(file) /\ unsynced \subseteq changed
      /\ \A i \in DOMAIN cache : /\ cache[i].bytes \in Page
                                 /\ cache[i].dirty => i \in changed
      /\ \A i \in 1..pages : i > Len(file) => i \in changed
      /\ Dirty \subseteq DOMAIN cache
  BY StateIs
<1> DEFINE Mixed(torn) == [id \in done \union torn |->
                             IF id \in torn THEN Torn ELSE cache[id].bytes]
<1>1. PICK torn \in {{}} \union {{id} : id \in Dirty \ done} :
        file' \in {Written(file, Mixed(torn)), SetLen(Written(file, Mixed(torn)))}
  BY DEF FlushFileFails
<1>2. torn \subseteq Dirty \ done
  OBVIOUS
<1> DEFINE ids == done \union torn
           new == Mixed(torn)
<1>3. new \in [ids -> Page] /\ \A i \in done : new[i] = cache[i].bytes
  BY <1>0, <1>2 DEF Page
<1>4. done \subseteq ids /\ ids \subseteq Dirty
  BY <1>2
<1>5. file' \in {Written(file, new), SetLen(Written(file, new))}
  BY <1>1
<1> HIDE DEF ids, new, Mixed
<1>6. Flushed(file', done, ids)
  BY <1>3, <1>4, <1>5, DirtyWritten
<1>7. /\ file' \in Seq(Page) /\ Len(file') \in Nat /\ DOMAIN file' = 1..Len(file')
      /\ Len(file) <= Len(file') /\ Len(file') <= pages
  BY <1>6 DEF Flushed
<1>8. unsynced' = unsynced \union {id \in 1..Len(file') : id \in Dirty \/ id > Len(file)}
  BY <1>7 DEF FlushFileFails, Unsynced
<1>9. Dirty \subseteq changed
  BY <1>0 DEF Dirty
<1>10. ASSUME NEW i \in unsynced'
       PROVE  i \in 1..Len(file') /\ i \in changed
  <2>1. CASE i \in unsynced
    BY <1>0, <1>7, <2>1
  <2>2. CASE i \in 1..Len(file') /\ i > Len(file)
    <3>1. i \in 1..pages
      BY <1>0, <1>7, <2>2
    <3>. QED  BY <1>0, <2>2, <3>1
  <2>. QED  BY <1>8, <1>9, <1>10, <2>1, <2>2
<1>11. errors' \in Nat
  BY <1>0 DEF FlushFileFails, Error
<1>. QED  BY <1>4, <1>6, <1>10, <1>11

\* The cache when pages have been written: nothing else changes.
LEMMA CleanedIs ==
  ASSUME IInv, NEW done \in SUBSET Dirty, cache' = Cleaned(done)
  PROVE  /\ DOMAIN cache' = DOMAIN cache /\ cache' \in [DOMAIN cache' -> CachedPage]
         /\ \A i \in DOMAIN cache : cache'[i].bytes = cache[i].bytes
         /\ Dirty' = Dirty \ done
<1>1. \A i \in DOMAIN cache : cache[i] \in CachedPage
  BY StateIs
<1>2. DOMAIN cache' = DOMAIN cache
  BY DEF Cleaned
<1>3. \A i \in DOMAIN cache :
        /\ cache'[i] \in CachedPage /\ cache'[i].bytes = cache[i].bytes
        /\ cache'[i].dirty = (cache[i].dirty /\ i \notin done)
  BY <1>1 DEF Cleaned, CachedPage
<1>4. cache' \in [DOMAIN cache' -> CachedPage]
  BY <1>2, <1>3 DEF Cleaned
<1>. QED  BY <1>2, <1>3, <1>4 DEF Dirty

\* flush makes every page durable and changes none.
LEMMA FlushStep ==
  ASSUME IInv, flush
  PROVE  IInv' /\ Flushes
<1>0. pages \in Nat /\ clock \in Nat /\ errors \in Nat /\ DOMAIN cache \subseteq 1..pages
  BY StateIs
<1>1. FlushFile /\ cache' = Cleaned(Dirty) /\ clock' = clock /\ pages' = pages
  BY DEF flush
<1>2. /\ file' \in Seq(Page) /\ Len(file') = pages
      /\ unsynced' = {} /\ changed' = {} /\ errors' = errors
      /\ \A i \in 1..pages : file'[i] = View(i)
  BY <1>1, FlushFileIs
<1>3. /\ DOMAIN cache' = DOMAIN cache /\ cache' \in [DOMAIN cache' -> CachedPage]
      /\ \A i \in DOMAIN cache : cache'[i].bytes = cache[i].bytes
      /\ Dirty' = {}
  BY <1>1, CleanedIs
<1>4. TypeInv'
  BY <1>0, <1>1, <1>2, <1>3 DEF TypeInv
<1>5. AgreeInv'
  <2>1. \A i \in DOMAIN cache' : i \in 1..pages /\ cache'[i].bytes = file'[i]
    BY <1>0, <1>2, <1>3 DEF View
  <2>. QED  BY <1>0, <1>1, <1>2, <1>3, <2>1 DEF AgreeInv
<1>6. \A i \in 1..pages : View(i)' = View(i)
  BY <1>0, <1>2, <1>3 DEF View
<1>. QED  BY <1>1, <1>2, <1>4, <1>5, <1>6 DEF IInv, Flushes

\* A flush that fails changes no page.
LEMMA FlushFailsStep ==
  ASSUME IInv, flush_fails
  PROVE  IInv' /\ Keeps
<1>0. /\ pages \in Nat /\ clock \in Nat /\ DOMAIN cache \subseteq 1..pages
      /\ changed \subseteq 1..pages /\ Len(file) \in Nat
      /\ \A i \in DOMAIN cache : /\ cache[i].dirty => i \in changed
                                 /\ ~cache[i].dirty => i <= Len(file) /\ cache[i].bytes = file[i]
      /\ \A i \in 1..pages : i > Len(file) => i \in changed
  BY StateIs
<1>1. PICK done \in SUBSET Dirty : FlushFileFails(done) /\ cache' = Cleaned(done)
  BY DEF flush_fails
<1>2. clock' = clock /\ pages' = pages /\ changed' = changed
  BY DEF flush_fails
<1>3. PICK ids \in SUBSET Dirty : done \subseteq ids /\ Flushed(file', done, ids)
  BY <1>1, FlushFileFailsIs
<1>4. unsynced' \subseteq 1..Len(file') /\ unsynced' \subseteq changed /\ errors' \in Nat
  BY <1>1, FlushFileFailsIs
<1>5. /\ DOMAIN cache' = DOMAIN cache /\ cache' \in [DOMAIN cache' -> CachedPage]
      /\ \A i \in DOMAIN cache : cache'[i].bytes = cache[i].bytes
      /\ Dirty' = Dirty \ done
  BY <1>1, CleanedIs
<1>6. /\ file' \in Seq(Page) /\ Len(file') \in Nat
      /\ Len(file) <= Len(file') /\ Len(file') <= pages
      /\ \A i \in done : i <= Len(file') /\ file'[i] = cache[i].bytes
      /\ \A i \in 1..pages : i \notin ids => InFile(file', i) = InFile(file, i)
  BY <1>3 DEF Flushed
<1>7. TypeInv'
  BY <1>0, <1>2, <1>4, <1>5, <1>6 DEF TypeInv
<1>8. ASSUME NEW i \in DOMAIN cache, i \notin Dirty \ done
      PROVE  i <= Len(file') /\ cache'[i].bytes = file'[i]
  <2>1. CASE i \in done
    BY <1>5, <1>6, <2>1
  <2>2. CASE i \notin Dirty
    <3>1. i \in 1..pages /\ i \notin ids /\ i <= Len(file) /\ cache[i].bytes = file[i]
      BY <1>0, <2>2 DEF Dirty
    <3>2. i <= Len(file')
      BY <1>0, <1>6, <3>1
    <3>. QED  BY <1>5, <1>6, <3>1, <3>2 DEF InFile
  <2>. QED  BY <1>8, <2>1, <2>2
<1>9. AgreeInv'
  <2>1. Dirty' \subseteq changed
    BY <1>0, <1>5 DEF Dirty
  <2>2. \A i \in 1..pages : i > Len(file') => i \in changed
    BY <1>0, <1>6
  <2>. QED  BY <1>2, <1>4, <1>5, <1>8, <2>1, <2>2 DEF AgreeInv
<1>10. \A i \in 1..pages : View(i)' = View(i)
  BY <1>5, <1>6 DEF View, InFile, Dirty
<1>. QED  BY <1>2, <1>7, <1>9, <1>10 DEF IInv, Keeps


\* The file is opened: the pager shows what the file holds.
LEMMA OpenIs ==
  ASSUME open_inner, file' \in Seq(Page), errors' \in Nat,
         changed' \subseteq 1..Len(file'), unsynced' \subseteq changed'
  PROVE  /\ IInv' /\ pages' = Len(file') /\ pages' \in Nat
         /\ \A i \in 1..pages' : View(i)' = file'[i]
<1>1. /\ cache' = NoCache /\ clock' = 0 /\ pages' = Len(file')
      /\ Len(file') \in Nat
  BY DEF open_inner
<1>2. DOMAIN cache' = {} /\ cache' \in [DOMAIN cache' -> CachedPage] /\ Dirty' = {}
  BY <1>1 DEF NoCache, Dirty
<1>3. TypeInv'
  BY <1>1, <1>2 DEF TypeInv
<1>4. AgreeInv'
  BY <1>1, <1>2 DEF AgreeInv
<1>5. \A i \in 1..pages' : View(i)' = file'[i]
  BY <1>1, <1>2 DEF View
<1>. QED  BY <1>1, <1>3, <1>4, <1>5 DEF IInv

\* What did not change since the last flush is the same in the cache and in the
\* file.
LEMMA UnchangedInFile ==
  ASSUME IInv, NEW i \in (1..pages) \ changed
  PROVE  /\ i <= Len(file) /\ View(i) = file[i]
         /\ i \notin Dirty /\ i \notin unsynced
BY StateIs DEF View, Dirty

\* Dropping the pager flushes it or loses what was not flushed.
LEMMA ReopenStep ==
  ASSUME IInv, Reopen
  PROVE  IInv' /\ (Flushes \/ Crashes)
<1>0. /\ pages \in Nat /\ changed \subseteq 1..pages /\ errors \in Nat /\ open_inner
      /\ Len(file) \in Nat
  BY StateIs DEF Reopen
<1>1. CASE FlushFile
  <2>1. /\ file' \in Seq(Page) /\ Len(file') = pages
        /\ unsynced' = {} /\ changed' = {} /\ errors' = errors
        /\ \A i \in 1..pages : file'[i] = View(i)
    BY <1>1, FlushFileIs
  <2>2. /\ IInv' /\ pages' = Len(file') /\ pages' \in Nat
        /\ \A i \in 1..pages' : View(i)' = file'[i]
    BY <1>0, <2>1, OpenIs
  <2>. QED  BY <2>1, <2>2 DEF Flushes
<1>2. CASE ~FlushFile
  <2>1. PICK done \in SUBSET Dirty : FlushFileFails(done)
    BY <1>2 DEF Reopen
  <2>2. changed' = changed \intersect DOMAIN file'
    BY <1>2 DEF Reopen, Shrink
  <2>3. PICK ids \in SUBSET Dirty : done \subseteq ids /\ Flushed(file', done, ids)
    BY <2>1, FlushFileFailsIs
  <2>4. unsynced' \subseteq 1..Len(file') /\ unsynced' \subseteq changed /\ errors' \in Nat
    BY <2>1, FlushFileFailsIs
  <2>5. /\ file' \in Seq(Page) /\ Len(file') \in Nat /\ DOMAIN file' = 1..Len(file')
        /\ Len(file) <= Len(file') /\ Len(file') <= pages
        /\ \A i \in 1..pages : i \notin ids => InFile(file', i) = InFile(file, i)
    BY <2>3 DEF Flushed
  <2>6. /\ IInv' /\ pages' = Len(file') /\ pages' \in Nat
        /\ \A i \in 1..pages' : View(i)' = file'[i]
    BY <1>0, <2>2, <2>4, <2>5, OpenIs
  <2>7. ASSUME NEW i \in (1..pages) \ changed
        PROVE  i <= pages' /\ View(i)' = View(i)
    <3>1. i <= Len(file) /\ View(i) = file[i] /\ i \notin ids /\ i \in 1..pages
      BY UnchangedInFile
    <3>2. i <= Len(file') /\ i \in 1..pages'
      BY <1>0, <2>5, <2>6, <3>1
    <3>. QED  BY <2>5, <2>6, <3>1, <3>2 DEF InFile
  <2>. QED  BY <2>2, <2>5, <2>6, <2>7 DEF Crashes
<1>. QED  BY <1>1, <1>2

\* A crash of the process loses only changes since the last flush.
LEMMA ProcessCrashStep ==
  ASSUME IInv, ProcessCrash
  PROVE  IInv' /\ Crashes
<1>0. /\ pages \in Nat /\ errors \in Nat /\ file \in Seq(Page)
      /\ Len(file) \in Nat /\ Len(file) <= pages
      /\ unsynced \subseteq 1..Len(file) /\ unsynced \subseteq changed
  BY StateIs
<1>1. /\ open_inner /\ file' = file /\ unsynced' = unsynced /\ errors' \in Nat
      /\ changed' = changed \intersect 1..Len(file')
  BY <1>0 DEF ProcessCrash, Shrink, Error
<1>2. /\ IInv' /\ pages' = Len(file') /\ pages' \in Nat
      /\ \A i \in 1..pages' : View(i)' = file'[i]
  BY <1>0, <1>1, OpenIs
<1>3. ASSUME NEW i \in (1..pages) \ changed
      PROVE  i <= pages' /\ View(i)' = View(i)
  BY <1>0, <1>1, <1>2, UnchangedInFile
<1>. QED  BY <1>0, <1>1, <1>2, <1>3 DEF Crashes

\* So does a loss of power.
LEMMA PowerLossStep ==
  ASSUME IInv, PowerLoss
  PROVE  IInv' /\ Crashes
<1>0. /\ pages \in Nat /\ errors \in Nat /\ file \in Seq(Page)
      /\ Len(file) \in Nat /\ Len(file) <= pages
      /\ unsynced \subseteq 1..Len(file) /\ unsynced \subseteq changed
  BY StateIs
<1>1. PICK torn \in SUBSET unsynced : \E end \in 0..Len(file) :
        /\ (end + 1)..Len(file) \subseteq unsynced
        /\ file' = [id \in 1..end |-> IF id \in torn THEN Torn ELSE file[id]]
  BY DEF PowerLoss
<1>2. PICK end \in 0..Len(file) :
        /\ (end + 1)..Len(file) \subseteq unsynced
        /\ file' = [id \in 1..end |-> IF id \in torn THEN Torn ELSE file[id]]
  BY <1>1
<1>3. end \in Nat /\ end <= Len(file) /\ \A i \in 1..end : file[i] \in Page
  BY <1>0
<1>4. file' \in [1..end -> Page]
  BY <1>2, <1>3 DEF Page
<1>5. file' \in Seq(Page) /\ Len(file') = end
  BY <1>3, <1>4, PageSeq
<1>6. DOMAIN file' = 1..end
  BY <1>4
<1>7. /\ open_inner /\ unsynced' = {} /\ errors' \in Nat
      /\ changed' = changed \intersect 1..end
  BY <1>0, <1>6 DEF PowerLoss, Shrink, Error
<1>8. /\ IInv' /\ pages' = Len(file') /\ pages' \in Nat
      /\ \A i \in 1..pages' : View(i)' = file'[i]
  BY <1>5, <1>7, OpenIs
<1>9. ASSUME NEW i \in (1..pages) \ changed
      PROVE  i <= pages' /\ View(i)' = View(i)
  <2>1. /\ i \in 1..pages /\ i <= Len(file) /\ View(i) = file[i]
        /\ i \notin unsynced
    BY UnchangedInFile
  <2>2. i <= end
    BY <1>0, <1>2, <1>3, <2>1
  <2>3. file'[i] = file[i]
    BY <1>2, <1>3, <2>1, <2>2
  <2>. QED  BY <1>3, <1>5, <1>8, <2>1, <2>2, <2>3
<1>. QED  BY <1>0, <1>3, <1>5, <1>7, <1>8, <1>9 DEF Crashes


-----------------------------------------------------------------------------
\* The refinement.

\* The array of pages that the pager stands for.
Abstract == [id \in 1..pages |-> View(id)]

\* The abstract array has the pages as a reader sees them.
LEMMA AbstractIs ==
  ASSUME IInv
  PROVE  /\ Len(Abstract) = pages /\ DOMAIN Abstract = 1..pages /\ pages \in Nat
         /\ \A i \in 1..pages : Abstract[i] = View(i)
<1>1. \A i \in 1..pages : View(i) \in Page
  BY StateIs DEF View, Page
<1>2. pages \in Nat /\ Abstract \in [1..pages -> Page]
  BY <1>1, StateIs DEF Abstract
<1>. QED  BY <1>2, PageSeq DEF Abstract

\* The same after the step.
LEMMA AbstractIsNext ==
  ASSUME IInv'
  PROVE  /\ Len(Abstract') = pages' /\ DOMAIN Abstract' = 1..pages' /\ pages' \in Nat
         /\ \A i \in 1..pages' : Abstract'[i] = View(i)'
<1>0. /\ file' \in Seq(Page) /\ pages' \in Nat
      /\ \A i \in DOMAIN cache' : cache'[i] \in CachedPage
  BY DEF IInv, TypeInv
<1>1. \A i \in 1..pages' : View(i)' \in Page
  BY <1>0 DEF View, Page, CachedPage
<1>2. Abstract' \in [1..pages' -> Page]
  BY <1>1 DEF Abstract
<1>. QED  BY <1>0, <1>2, PageSeq DEF Abstract

\* The four kinds of step are steps of PageArray.
LEMMA Simulates ==
  ASSUME IInv, IInv', Keeps \/ (\E id : Writes(id)) \/ Flushes \/ Crashes
  PROVE  [Array!Next]_(Array!vars)
<1>1. /\ Len(Abstract) = pages /\ DOMAIN Abstract = 1..pages /\ pages \in Nat
      /\ \A i \in 1..pages : Abstract[i] = View(i)
  BY AbstractIs
<1>2. /\ Len(Abstract') = pages' /\ DOMAIN Abstract' = 1..pages' /\ pages' \in Nat
      /\ \A i \in 1..pages' : Abstract'[i] = View(i)'
  BY AbstractIsNext
<1>3. ASSUME pages' = pages, \A i \in 1..pages : View(i)' = View(i)
      PROVE  Abstract' = Abstract
  BY <1>3 DEF Abstract
<1>4. CASE Keeps
  BY <1>3, <1>4 DEF Keeps, Array!vars, Abstract
<1>5. CASE Flushes
  <2>1. Array!Flush
    BY <1>3, <1>5 DEF Flushes, Array!Flush, Abstract
  <2>. QED  BY <2>1 DEF Array!Next
<1>6. CASE \E id : Writes(id)
  <2>1. PICK id : Writes(id)
    BY <1>6
  <2>2. /\ id \in 1..(pages + 1) /\ pages' = Larger(pages, id)
        /\ \A i \in 1..pages : i # id => View(i)' = View(i)
        /\ changed' = changed \union {id}
    BY <2>1 DEF Writes
  <2>3. pages <= pages' /\ pages' = (IF id <= pages THEN pages ELSE id)
    BY <1>1, <2>2 DEF Larger
  <2>4. \A i \in 1..pages : i # id => Abstract'[i] = Abstract[i]
    BY <1>1, <1>2, <2>2, <2>3
  <2>5. Array!Write(id)
    BY <1>1, <1>2, <2>2, <2>3, <2>4 DEF Array!Write, Abstract
  <2>6. id \in 1..(Len(Abstract) + 1)
    BY <1>1, <2>2
  <2>. QED  BY <2>5, <2>6 DEF Array!Next, Abstract
<1>7. CASE Crashes
  <2>1. /\ pages' <= pages /\ changed' = changed \intersect 1..pages'
        /\ \A i \in (1..pages) \ changed : i <= pages' /\ View(i)' = View(i)
    BY <1>7 DEF Crashes
  <2>2. \A i \in (1..pages) \ changed : i \in 1..pages' /\ Abstract'[i] = Abstract[i]
    BY <1>1, <1>2, <2>1
  <2>3. Array!Crash
    BY <1>1, <1>2, <2>1, <2>2 DEF Array!Crash, Abstract
  <2>. QED  BY <2>3 DEF Array!Next
<1>. QED  BY <1>4, <1>5, <1>6, <1>7

\* The invariant holds for an empty file.
LEMMA InvInit == Init => IInv
BY DEF Init, IInv, TypeInv, AgreeInv, NoCache, Dirty

\* Every step keeps the invariant and is one of the four kinds.
LEMMA PagerStep ==
  ASSUME IInv, [Next]_pagerVars
  PROVE  IInv' /\ (Keeps \/ (\E id : Writes(id)) \/ Flushes \/ Crashes)
<1>1. CASE UNCHANGED pagerVars
  <2>1. IInv'
    BY <1>1 DEF pagerVars, IInv, TypeInv, AgreeInv, Dirty
  <2>2. Keeps
    BY <1>1 DEF pagerVars, Keeps, View
  <2>. QED  BY <2>1, <2>2
<1>2. ASSUME NEW id, NEW bytes \in Contents \union {Zero}, write(id, bytes)
      PROVE  IInv' /\ Writes(id)
  BY <1>2, WriteStep DEF Page
<1>3. CASE \E id : write_fails(id)
  BY <1>3, WriteFailsStep
<1>4. CASE \E id : read(id) \/ read_fails(id)
  BY <1>4, ReadStep, ReadFailsStep
<1>5. CASE flush \/ flush_fails \/ Reopen \/ ProcessCrash \/ PowerLoss
  BY <1>5, FlushStep, FlushFailsStep, ReopenStep, ProcessCrashStep, PowerLossStep
<1>. QED  BY <1>1, <1>2, <1>3, <1>4, <1>5 DEF Next

\* The pager (pager.rs) is an array of pages: write, read, flush and drop, with
\* any evictions between them, with writes to the file that fail or tear a page,
\* and with crashes of the process and losses of power, are steps of PageArray.
THEOREM PagerIsArray == Spec => ImplementsPageArray
<1>1. Init => IInv /\ Array!Init
  <2>1. Init => Array!Init
    BY DEF Init, Array!Init
  <2>. QED  BY <2>1, InvInit
<1>2. IInv /\ [Next]_pagerVars => IInv' /\ [Array!Next]_(Array!vars)
  BY PagerStep, Simulates
<1>. QED  BY <1>1, <1>2, PTL DEF Spec, ImplementsPageArray, Array!Spec


-----------------------------------------------------------------------------
\* The size of the cache.

\* Room has been made for one page.
LEMMA RoomMade ==
  ASSUME IInv, CacheBounded, NEW keep \in SUBSET DOMAIN cache, evict_if_needed(keep)
  PROVE  IsFiniteSet(keep) /\ Cardinality(keep) < Capacity
<1>0. Capacity \in Nat \ {0}
  BY PagerAssumption
<1>1. IsFiniteSet(DOMAIN cache) /\ Cardinality(DOMAIN cache) \in Nat
  BY FS_CardinalityType DEF CacheBounded
<1>2. CASE ~FullCache
  <2>1. keep = DOMAIN cache
    BY <1>2, EvictIs
  <2>. QED  BY <1>0, <1>1, <1>2, <2>1 DEF FullCache
<1>3. CASE FullCache
  <2>1. PICK v \in DOMAIN cache : keep = DOMAIN cache \ {v}
    BY <1>3, EvictIs
  <2>2. IsFiniteSet(keep) /\ Cardinality(keep) = Cardinality(DOMAIN cache) - 1
    BY <1>1, <2>1, FS_RemoveElement
  <2>. QED  BY <1>0, <1>1, <2>2 DEF CacheBounded
<1>. QED  BY <1>2, <1>3

\* Inserting a page where there is room.
LEMMA InsertBounded ==
  ASSUME NEW keep, IsFiniteSet(keep), Cardinality(keep) < Capacity,
         NEW id, NEW entry, Insert(keep, id, entry)
  PROVE  CacheBounded'
<1>1. DOMAIN cache' = keep \union {id}
  BY DEF Insert
<1>2. /\ IsFiniteSet(keep \union {id})
      /\ Cardinality(keep \union {id}) <= Cardinality(keep) + 1
  <2>1. Cardinality(keep) \in Nat
    BY FS_CardinalityType
  <2>. QED  BY <2>1, FS_AddElement
<1>3. Cardinality(keep) \in Nat /\ Cardinality(keep \union {id}) \in Nat /\ Capacity \in Nat
  BY <1>2, FS_CardinalityType, PagerAssumption
<1>. QED  BY <1>1, <1>2, <1>3 DEF CacheBounded

\* The cache is bounded when no page is added to it.
LEMMA FewerBounded ==
  ASSUME CacheBounded, DOMAIN cache' \subseteq DOMAIN cache
  PROVE  CacheBounded'
<1>1. /\ IsFiniteSet(DOMAIN cache')
      /\ Cardinality(DOMAIN cache') <= Cardinality(DOMAIN cache)
  BY FS_Subset DEF CacheBounded
<1>2. /\ Cardinality(DOMAIN cache') \in Nat /\ Cardinality(DOMAIN cache) \in Nat
      /\ Capacity \in Nat
  BY <1>1, FS_CardinalityType, PagerAssumption DEF CacheBounded
<1>. QED  BY <1>1, <1>2 DEF CacheBounded

\* Every step keeps the cache within its capacity.
LEMMA BoundedStep ==
  ASSUME IInv, CacheBounded, [Next]_pagerVars
  PROVE  CacheBounded'
<1>1. CASE DOMAIN cache' \subseteq DOMAIN cache
  BY <1>1, FewerBounded
<1>2. ASSUME NEW id, NEW bytes, write(id, bytes)
      PROVE  CacheBounded'
  <2>1. PICK keep \in SUBSET DOMAIN cache :
          /\ IF id \in DOMAIN cache
               THEN keep = DOMAIN cache /\ UNCHANGED <<file, unsynced>>
               ELSE evict_if_needed(keep)
          /\ Insert(keep, id, Entry(bytes, TRUE, clock + 1))
    BY <1>2 DEF write
  <2>2. CASE id \in DOMAIN cache
    <3>1. DOMAIN cache' = keep \union {id}
      BY <2>1 DEF Insert
    <3>. QED  BY <1>1, <2>1, <2>2, <3>1
  <2>3. CASE id \notin DOMAIN cache
    <3>1. IsFiniteSet(keep) /\ Cardinality(keep) < Capacity
      BY <2>1, <2>3, RoomMade
    <3>. QED  BY <2>1, <3>1, InsertBounded
  <2>. QED  BY <2>2, <2>3
<1>3. ASSUME NEW id, read(id)
      PROVE  CacheBounded'
  <2>1. CASE id \in DOMAIN cache
    <3>1. DOMAIN cache' = DOMAIN cache
      BY <1>3, <2>1 DEF read
    <3>. QED  BY <1>1, <3>1
  <2>2. CASE id \notin DOMAIN cache
    <3>1. PICK keep \in SUBSET DOMAIN cache :
            /\ evict_if_needed(keep)
            /\ Insert(keep, id, Entry(file'[id], FALSE, clock + 1))
      BY <1>3, <2>2 DEF read
    <3>2. IsFiniteSet(keep) /\ Cardinality(keep) < Capacity
      BY <3>1, RoomMade
    <3>. QED  BY <3>1, <3>2, InsertBounded
  <2>. QED  BY <2>1, <2>2
<1>4. ASSUME NEW id, write_fails(id) \/ read_fails(id)
      PROVE  DOMAIN cache' \subseteq DOMAIN cache
  BY <1>4 DEF write_fails, read_fails, evict_fails
<1>5. flush \/ flush_fails => DOMAIN cache' = DOMAIN cache
  BY DEF flush, flush_fails, Cleaned
<1>6. Reopen \/ ProcessCrash \/ PowerLoss => DOMAIN cache' = {}
  BY DEF Reopen, ProcessCrash, PowerLoss, open_inner, NoCache
<1>7. UNCHANGED pagerVars => cache' = cache
  BY DEF pagerVars
<1>. QED  BY <1>1, <1>2, <1>3, <1>4, <1>5, <1>6, <1>7 DEF Next

\* The cache never holds more pages than its capacity, whatever fails: write and
\* read call evict_if_needed before they insert, and an eviction that fails
\* inserts nothing.
THEOREM CacheWithinCapacity == Spec => []CacheBounded
<1>1. Init => IInv /\ CacheBounded
  <2>1. ASSUME Init
        PROVE  CacheBounded
    <3>1. DOMAIN cache = {}
      BY <2>1 DEF Init, NoCache
    <3>. QED  BY <3>1, FS_EmptySet, PagerAssumption DEF CacheBounded
  <2>. QED  BY <2>1, InvInit
<1>2. IInv /\ CacheBounded /\ [Next]_pagerVars => (IInv /\ CacheBounded)'
  BY PagerStep, BoundedStep
<1>. QED  BY <1>1, <1>2, PTL DEF Spec

=============================================================================
