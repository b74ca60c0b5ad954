----------------------------- MODULE MCPageAlloc -----------------------------
(***************************************************************************)
(* PageAlloc for TLC, with the two loops of __find_free_range written out  *)
(* as a fold over the pages in the order they are visited.                 *)
(***************************************************************************)
EXTENDS PageAlloc, SequencesExt

\* One turn of either loop: start and cnt of the code, and the page returned.
Turn(nr, acc, i) ==
    LET start == IF acc.cnt = 0 THEN i ELSE acc.start
        cnt == acc.cnt + 1
    IN CASE acc.found # Failed -> acc
         [] i \in bitmap -> [acc EXCEPT !.cnt = 0]
         [] OTHER -> [start |-> start, cnt |-> cnt,
                      found |-> IF cnt >= nr THEN start ELSE Failed]

FindFreeRange(nr) ==
    LET visited == [k \in 1 .. Total - last_alloc |-> last_alloc + k - 1]
                   \o [k \in 1 .. last_alloc |-> k - 1]
    IN FoldLeft(LAMBDA acc, i : Turn(nr, acc, i),
                [start |-> 0, cnt |-> 0, found |-> Failed], visited).found

\* For a range of any length, the turn AllocPages takes is the one at which the
\* loops of __find_free_range return, and it fails exactly when they run out.
SearchIsExact ==
    \A nr \in 1 .. Total :
        IF Runs(nr) = {} THEN FindFreeRange(nr) = Failed
        ELSE FindFreeRange(nr) = Scan(CHOOSE k \in Runs(nr) : \A l \in Runs(nr) : k <= l)
==============================================================================
