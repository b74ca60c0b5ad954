------------------------------ MODULE PageAlloc ------------------------------
(***************************************************************************)
(* The bitmap page allocator (page_alloc.c).  Pages are numbered from the  *)
(* allocator's base_pfn; `bitmap' is the set of the bits that are set.     *)
(* alloc_pages searches from last_alloc to the end and then from the start *)
(* to last_alloc, without resetting its count of consecutive free pages    *)
(* where it wraps.  Every operation runs under the allocator's lock, so    *)
(* each one is a step.                                                     *)
(***************************************************************************)
EXTENDS Integers, FiniteSets

CONSTANTS
    Total,      \* total_pages
    MaxNr       \* the largest nr_pages a caller asks for (1 in the code)

ASSUME AllocAssumption ==
    /\ Total \in Nat \ {0}
    /\ MaxNr \in 1 .. Total

VARIABLES
    bitmap,     \* pages marked used
    last_alloc, \* where the next search starts
    owned,      \* ranges <<start, nr>> that callers hold
    ret         \* what the last call returned: a page, Failed, or 0 from free_pages

vars == <<bitmap, last_alloc, owned, ret>>

Page == 0 .. Total - 1

\* -1ULL
Failed == -1

Extent(r) == r[1] .. r[1] + r[2] - 1

TypeOK ==
    /\ bitmap \subseteq Page
    /\ last_alloc \in 0 .. Total
    /\ owned \subseteq Page \X (1 .. MaxNr)
    /\ ret \in Page \cup {Failed}

\* page_allocator_init
Init ==
    /\ bitmap = {}
    /\ last_alloc = 0
    /\ owned = {}
    /\ ret = 0

\* The first loop one turn short.
FirstLoopShort == IF last_alloc < Total THEN Total - last_alloc - 1 ELSE 0

\* Turns of the first loop, from last_alloc to the end.
FirstLoop == IF last_alloc < Total THEN Total - last_alloc ELSE 0

\* The page looked at in turn k of the two loops.
Scan(k) == IF k < FirstLoop THEN last_alloc + k ELSE k - FirstLoop

\* Only the first page of the range is tested.
RunsOfOne(nr) == {k \in 0 .. FirstLoop + last_alloc - nr : Scan(k) \notin bitmap}

\* __find_free_range: the turns that begin nr free pages, all of them looked
\* at before the loops end.
Runs(nr) ==
    {k \in 0 .. FirstLoop + last_alloc - nr : \A j \in 0 .. nr - 1 : Scan(k + j) \notin bitmap}

\* set_bit for every page of the range.
Mark(s, nr) == bitmap \cup (s .. s + nr - 1)

AllocPages(nr) ==
    \/ /\ Runs(nr) = {}
       /\ ret' = Failed
       /\ UNCHANGED <<bitmap, last_alloc, owned>>
    \/ \E k \in Runs(nr) :
          /\ \A l \in Runs(nr) : k <= l
          /\ bitmap' = Mark(Scan(k), nr)
          /\ last_alloc' = Scan(k) + nr
          /\ owned' = owned \cup {<<Scan(k), nr>>}
          /\ ret' = Scan(k)

\* One page too many.
ClearOneMore(r) == bitmap \ (r[1] .. r[1] + r[2])

\* clear_bit for every page of the range.
Clear(r) == bitmap \ Extent(r)

\* free_pages lets the next search start at a lower page.
LowerStart(r) == IF r[1] < last_alloc THEN r[1] ELSE last_alloc

\* free_pages of a range inside the allocator's memory.
FreePages(r) ==
    /\ r \in owned
    /\ r[1] + r[2] <= Total
    /\ bitmap' = Clear(r)
    /\ last_alloc' = LowerStart(r)
    /\ owned' = owned \ {r}
    /\ ret' = 0

Next ==
    \/ \E nr \in 1 .. MaxNr : AllocPages(nr)
    \/ \E r \in owned : FreePages(r)

Spec == Init /\ [][Next]_vars
-----------------------------------------------------------------------------
\* The pages alloc_pages has handed out belong to one caller each, and the
\* bitmap marks those pages and no others, whatever was freed in between.
HandedOutOnce ==
    /\ \A q, r \in owned : q # r => Extent(q) \cap Extent(r) = {}
    /\ bitmap = UNION {Extent(r) : r \in owned}

\* No page below last_alloc is free: alloc_page always finds the lowest free
\* page, and finds it in its first loop.
NoneFreeBelow == \A p \in 0 .. last_alloc - 1 : p \in bitmap

\* alloc_page gives up only when every page is in use, wherever last_alloc is.
FailsOnlyWhenFull ==
    [][ret' = Failed => Page \subseteq bitmap]_vars
==============================================================================
