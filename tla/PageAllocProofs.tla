--------------------------- MODULE PageAllocProofs ---------------------------
(***************************************************************************)
(* Proofs about PageAlloc for any number of pages, when pages are asked    *)
(* for one at a time, which is the only way the code does.                 *)
(***************************************************************************)
EXTENDS PageAlloc, TLAPS

SinglePages == MaxNr = 1

\* Single pages: the owned ranges are the marked pages, and the search starts
\* at or below every free page.
AllocInv ==
    /\ TypeOK
    /\ \A r \in owned : r[2] = 1
    /\ \A q, r \in owned : q[1] = r[1] => q = r
    /\ bitmap = {r[1] : r \in owned}
    /\ NoneFreeBelow

\* page_allocator_init leaves every page free and nobody owning one.
LEMMA AllocInit == ASSUME SinglePages PROVE Init => AllocInv
  BY AllocAssumption DEF SinglePages, Init, AllocInv, TypeOK, NoneFreeBelow, Page, Failed

\* alloc_page takes the first free page at or after last_alloc.
LEMMA AllocStep ==
  ASSUME SinglePages, AllocInv, AllocPages(1)
  PROVE  AllocInv' /\ (ret' = Failed => Page \subseteq bitmap)
  <1> USE DEF AllocInv, TypeOK
  <1>0. Total \in Nat /\ Total >= 1 /\ last_alloc \in 0 .. Total /\ FirstLoop = Total - last_alloc
    BY AllocAssumption DEF FirstLoop
  <1>1. CASE Runs(1) = {} /\ ret' = Failed /\ UNCHANGED <<bitmap, last_alloc, owned>>
    <2>1. ASSUME NEW p \in Page PROVE p \in bitmap
      <3>1. CASE p < last_alloc
        BY <3>1, <1>0 DEF NoneFreeBelow, Page
      <3>2. CASE p >= last_alloc
        <4>1. p - last_alloc \in 0 .. FirstLoop + last_alloc - 1 /\ Scan(p - last_alloc + 0) = p
          BY <1>0, <3>2 DEF Scan, Page
        <4>2. p - last_alloc \notin Runs(1)
          BY <1>1
        <4>3. \E j \in 0 .. 1 - 1 : Scan(p - last_alloc + j) \in bitmap
          BY <4>1, <4>2 DEF Runs
        <4> QED BY <4>1, <4>3
      <3> QED BY <1>0, <3>1, <3>2 DEF Page
    <2> QED BY <1>1, <2>1 DEF NoneFreeBelow, Failed
  <1>2. ASSUME NEW k \in Runs(1), \A l \in Runs(1) : k <= l,
               bitmap' = Mark(Scan(k), 1), last_alloc' = Scan(k) + 1,
               owned' = owned \cup {<<Scan(k), 1>>}, ret' = Scan(k)
        PROVE  AllocInv' /\ (ret' = Failed => Page \subseteq bitmap)
    <2>1. k \in 0 .. Total - 1 /\ Scan(k) \notin bitmap
      BY <1>0, <1>2 DEF Runs
    <2>2. k < FirstLoop /\ Scan(k) = last_alloc + k /\ Scan(k) \in Page
      BY <1>0, <2>1 DEF Scan, NoneFreeBelow, Page
    <2>3. bitmap' = bitmap \cup {Scan(k)}
      BY <1>0, <1>2, <2>2 DEF Mark, Page
    <2>4. NoneFreeBelow'
      <3>1. SUFFICES ASSUME NEW p \in 0 .. Scan(k) PROVE p \in bitmap \cup {Scan(k)}
        BY <1>0, <1>2, <2>2, <2>3 DEF NoneFreeBelow, Page
      <3>2. CASE p < last_alloc
        BY <3>2, <1>0, <2>2 DEF NoneFreeBelow, Page
      <3>3. CASE p >= last_alloc /\ p # Scan(k)
        <4>1. p - last_alloc \in 0 .. FirstLoop + last_alloc - 1 /\ p - last_alloc < k
              /\ Scan(p - last_alloc + 0) = p
          BY <1>0, <2>1, <2>2, <3>3 DEF Scan, Page
        <4>2. p - last_alloc \notin Runs(1)
          BY <1>0, <1>2, <2>1, <4>1
        <4>3. \E j \in 0 .. 1 - 1 : Scan(p - last_alloc + j) \in bitmap
          BY <4>1, <4>2 DEF Runs
        <4> QED BY <4>1, <4>3
      <3> QED BY <1>0, <2>2, <3>2, <3>3 DEF Page
    <2>5. TypeOK'
      BY <1>0, <1>2, <2>2, <2>3 DEF SinglePages, Page
    <2>6. \A r \in owned : r[1] # Scan(k)
      BY <2>1
    <2>7. \A r \in owned' : r[2] = 1 /\ (r \in owned \/ r = <<Scan(k), 1>>)
      BY <1>2
    <2>8. \A q, r \in owned' : q[1] = r[1] => q = r
      BY <2>6, <2>7
    <2>9. bitmap' = {r[1] : r \in owned'}
      <3>1. <<Scan(k), 1>>[1] = Scan(k)
        OBVIOUS
      <3>2. {r[1] : r \in owned'} = {r[1] : r \in owned} \cup {Scan(k)}
        BY <1>2, <3>1
      <3> QED BY <2>3, <3>2
    <2>10. ret' # Failed
      BY <1>2, <2>2 DEF Page, Failed
    <2> QED BY <2>4, <2>5, <2>7, <2>8, <2>9, <2>10
  <1> QED BY <1>1, <1>2 DEF AllocPages

\* free_page clears the bit of the page that is given back.
LEMMA FreeStep ==
  ASSUME SinglePages, AllocInv, NEW r \in owned, FreePages(r)
  PROVE  AllocInv' /\ ret' # Failed
  <1> USE DEF AllocInv, TypeOK
  <1>1. r[1] \in Page /\ r[2] = 1 /\ Total \in Nat
    BY AllocAssumption
  <1>2. Extent(r) = {r[1]}
    BY <1>1 DEF Extent, Page
  <1>3. bitmap' = bitmap \ {r[1]} /\ owned' = owned \ {r}
    BY <1>2 DEF FreePages, Clear
  <1>4. last_alloc' = (IF r[1] < last_alloc THEN r[1] ELSE last_alloc) /\ ret' = 0
    BY DEF FreePages, LowerStart
  <1>5. TypeOK'
    BY <1>1, <1>3, <1>4, AllocAssumption DEF Page
  <1>6. NoneFreeBelow'
    BY <1>1, <1>3, <1>4 DEF NoneFreeBelow, Page
  <1>7. bitmap' = {q[1] : q \in owned'}
    BY <1>3
  <1> QED BY <1>3, <1>4, <1>5, <1>6, <1>7 DEF Failed

\* Both operations preserve the allocator's invariant.
LEMMA AllocInvStep == ASSUME SinglePages PROVE AllocInv /\ [Next]_vars => AllocInv'
  <1> SUFFICES ASSUME AllocInv, [Next]_vars PROVE AllocInv'
    OBVIOUS
  <1>1. ASSUME NEW nr \in 1 .. MaxNr, AllocPages(nr) PROVE AllocInv'
    <2>1. nr = 1
      BY DEF SinglePages
    <2> QED BY <1>1, <2>1, AllocStep
  <1>2. ASSUME NEW r \in owned, FreePages(r) PROVE AllocInv'
    BY <1>2, FreeStep
  <1>3. CASE UNCHANGED vars
    BY <1>3 DEF vars, AllocInv, TypeOK, NoneFreeBelow
  <1> QED BY <1>1, <1>2, <1>3 DEF Next

\* A page is never handed out twice, and the bitmap is exactly who owns what.
THEOREM PagesHandedOutOnce == ASSUME SinglePages PROVE Spec => []HandedOutOnce
  <1>1. AllocInv => HandedOutOnce
    <2> SUFFICES ASSUME AllocInv PROVE HandedOutOnce
      OBVIOUS
    <2>1. \A r \in owned : Extent(r) = {r[1]}
      BY AllocAssumption DEF AllocInv, TypeOK, Extent, Page
    <2>2. UNION {Extent(r) : r \in owned} = {r[1] : r \in owned}
      BY <2>1
    <2> QED BY <2>1, <2>2 DEF AllocInv, HandedOutOnce
  <1>2. AllocInv /\ [Next]_vars => AllocInv'
    BY AllocInvStep
  <1>3. Init => AllocInv
    BY AllocInit
  <1> QED BY <1>1, <1>2, <1>3, PTL DEF Spec

\* alloc_page returns -1 only when all the pages are in use.
THEOREM FullWhenFailed == ASSUME SinglePages PROVE Spec => FailsOnlyWhenFull
  <1>1. AllocInv /\ [Next]_vars => [ret' = Failed => Page \subseteq bitmap]_vars
    <2> SUFFICES ASSUME AllocInv, Next PROVE ret' = Failed => Page \subseteq bitmap
      OBVIOUS
    <2>1. ASSUME NEW nr \in 1 .. MaxNr, AllocPages(nr)
          PROVE  ret' = Failed => Page \subseteq bitmap
      <3>1. nr = 1
        BY DEF SinglePages
      <3> QED BY <2>1, <3>1, AllocStep
    <2>2. ASSUME NEW r \in owned, FreePages(r) PROVE ret' # Failed
      BY <2>2, FreeStep
    <2> QED BY <2>1, <2>2 DEF Next
  <1>2. AllocInv /\ [Next]_vars => AllocInv'
    BY AllocInvStep
  <1>3. Init => AllocInv
    BY AllocInit
  <1> QED BY <1>1, <1>2, <1>3, PTL DEF Spec, FailsOnlyWhenFull
==============================================================================
