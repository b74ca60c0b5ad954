----------------------------- MODULE Stage2Proofs -----------------------------
(***************************************************************************)
(* Proofs about Stage2 for tables of any size, any amount of memory and    *)
(* any layout.  TreeInv is inductive: the tables are a tree, every page is *)
(* linked from one entry at most, and what the guest can reach is no part  *)
(* of the tree, which is why its writes cannot change a translation.       *)
(***************************************************************************)
EXTENDS Stage2, TLAPS

\* The levels of the table, and the pages a level's tables are in.
Level == 0 .. 3
Tables(l) == {q \in Page : use[q] = Table(l)}
AnyTable == UNION {Tables(l) : l \in Level}

\* The table of level l on the walk of va.
TableAt(l, va) ==
    IF l = 0 THEN root
    ELSE IF l = 1 THEN Below(root, 0, va)
    ELSE IF l = 2 THEN Below(Below(root, 0, va), 1, va)
    ELSE LeafTable(va)

\* Entry s of table q points to something.
Linked(q, s) == mem[q][s].kind \in {"table", "leaf"}

\* Entry s of table q of level l: nothing, a table of the next level, or, at
\* level 3, the UART or a page of the guest.
EntryOk(l, q, s) ==
    \/ mem[q][s].kind = "zero"
    \/ l < 3 /\ mem[q][s].kind = "table" /\ mem[q][s].n \in Tables(l + 1)
    \/ /\ l = 3 /\ mem[q][s].kind = "leaf"
       /\ mem[q][s].n = Uart \/ (mem[q][s].n \in Page /\ use[mem[q][s].n] = "guest")

\* What alloc_page has not handed out was never written.
FreeIsZero ==
    \A q \in Page : q >= NewPage => use[q] = "free" /\ \A s \in Slot : mem[q][s] = Zero

EntriesOk == \A l \in Level : \A q \in Tables(l), s \in Slot : EntryOk(l, q, s)

\* No page is pointed to from two entries.
LinkedOnce ==
    \A q, r \in AnyTable : \A s, t \in Slot :
        /\ Linked(q, s) /\ Linked(r, t)
        /\ mem[q][s].n = mem[r][t].n /\ mem[q][s].n \in Page
        => q = r /\ s = t

\* stage2_pt is the one table of level 0, made between the stacks and the image.
RootOk ==
    /\ root # None => root \in Tables(0)
    /\ \A q \in Tables(0) : q = root
    /\ pc \in {"image", "bss", "ram", "uart", "walk"} => root # None
    /\ pc \in {"stacks", "root"} => root = None

\* pagewalk is at the table of its level, and the page it is to map is new.
WalkOk ==
    pc = "walk" =>
        /\ walk.va \in Ram \cup {Uart}
        /\ \A l \in Level, v \in Ipa :
              l = walk.level /\ v = walk.va => walk.pgt = TableAt(l, v) /\ walk.pgt # None
        /\ walk.ret # "none"
        /\ \/ walk.pa = Uart /\ walk.va = Uart
           \/ /\ walk.pa \in Page /\ use[walk.pa] = "guest"
              /\ \A q \in AnyTable, s \in Slot : Linked(q, s) => mem[q][s].n # walk.pa

\* The inductive invariant.
TreeInv == TypeOK /\ FreeIsZero /\ EntriesOk /\ LinkedOnce /\ RootOk /\ WalkOk

\* The constants: numbers, and addresses that are no page.
LEMMA Layout ==
  /\ Fanout \in Nat \ {0} /\ RamStart \in Nat /\ MaxPages \in Nat /\ PCPU_NUM \in Nat
  /\ Page \subseteq Nat /\ None \notin Page /\ None = -1 /\ Uart \notin Page /\ Uart \in Ipa
  /\ Ram \subseteq Ipa /\ Uart # None /\ Slot \subseteq Nat /\ 0 \in Slot /\ 0 \in Ipa
  /\ Ipa \subseteq Nat
  <1>1. Fanout \in Nat \ {0} /\ RamStart \in Nat /\ MaxPages \in Nat /\ PCPU_NUM \in Nat
        /\ Uart \notin Page /\ Uart \in Ipa /\ Ram \subseteq Ipa
    BY LayoutAssumption, Zenon
  <1>2. Ipa \subseteq Nat /\ Page \subseteq Nat /\ Slot \subseteq Nat /\ 0 \in Slot
    BY <1>1 DEF Ipa, Page, Slot
  <1>3. 0 \in Ipa
    BY LayoutAssumption, <1>2 DEF Ipa
  <1> QED BY <1>1, <1>2, <1>3 DEF None

\* The uses of a page as a table are told apart by the level.
LEMMA TableNames ==
  /\ Table(0) = "table_0" /\ Table(1) = "table_1"
  /\ Table(2) = "table_2" /\ Table(3) = "table_3"
  BY DEF Table

\* A table is of one level, and no other use of a page.
LEMMA TableLevels ==
  /\ \A l, k \in Level : Table(l) = Table(k) => l = k
  /\ \A l \in Level : Table(l) \in Use /\ Table(l) \notin {"free", "stack", "guest", "spis"}
  <1>1. \A l \in Level : l = 0 \/ l = 1 \/ l = 2 \/ l = 3
    BY DEF Level
  <1>2. \A l, k \in Level : Table(l) = Table(k) => l = k
    BY <1>1, TableNames, Zenon
  <1>3. \A l \in Level : Table(l) \in Use
    BY Zenon DEF Level, Use
  <1>4. \A l \in Level : Table(l) \notin {"free", "stack", "guest", "spis"}
    BY <1>1, TableNames, Zenon
  <1> QED BY <1>2, <1>3, <1>4, Zenon

\* PIDX is an index of a table.
LEMMA PIdxInSlot ==
  ASSUME NEW l \in Level, NEW v \in Nat
  PROVE  PIdx(l, v) \in Slot
  <1>1. Span[l + 1] \in Nat \ {0}
    <2>1. /\ Fanout * Fanout * Fanout \in Nat \ {0} /\ Fanout * Fanout \in Nat \ {0}
          /\ Fanout \in Nat \ {0} /\ 1 \in Nat \ {0}
      BY Layout
    <2> QED BY <2>1 DEF Span, Level
  <1>2. ASSUME NEW m \in Nat \ {0} PROVE (v \div m) % Fanout \in 0 .. Fanout - 1
    <2>1. v \div m \in Nat
      BY <1>2
    <2> QED BY <2>1, Layout
  <1> QED BY <1>1, <1>2, Zenon DEF PIdx, Slot

\* A number is known by its quotient and its remainder.
LEMMA SameDivMod ==
  ASSUME NEW x \in Nat, NEW y \in Nat, NEW f \in Nat \ {0},
         x % f = y % f, x \div f = y \div f
  PROVE  x = y
  OBVIOUS

\* Dividing by f again and again is dividing by the powers of f, as the
\* shifts of PIDX do.
LEMMA Digits ==
  ASSUME NEW x \in Nat, NEW f \in Nat \ {0}
  PROVE  /\ x \div f \in Nat /\ x \div (f * f) \in Nat /\ x \div (f * f * f) \in Nat
         /\ (x \div f) \div f = x \div (f * f)
         /\ (x \div (f * f)) \div f = x \div (f * f * f)
         /\ (x \div (f * f * f)) \div f = x \div (f * f * f * f)
  <1>1. (x \div f) \div f = x \div (f * f) /\ x \div f \in Nat
    OBVIOUS
  <1>2. (x \div (f * f)) \div f = x \div (f * f * f) /\ x \div (f * f) \in Nat
    OBVIOUS
  <1>3. (x \div (f * f * f)) \div f = x \div (f * f * f * f) /\ x \div (f * f * f) \in Nat
    OBVIOUS
  <1> QED BY <1>1, <1>2, <1>3, Zenon

\* Nothing is left above the highest digit.
LEMMA NoFifthDigit ==
  ASSUME NEW x \in Nat, NEW f \in Nat \ {0}, x < f
  PROVE  x \div f = 0
  OBVIOUS

\* A number below f * f * f * f is known by its four digits to the base f:
\* two addresses with the same four indices are one.
LEMMA FourDigits ==
  ASSUME NEW x \in Nat, NEW y \in Nat, NEW f \in Nat \ {0},
         x < f * f * f * f, y < f * f * f * f,
         x % f = y % f, (x \div f) % f = (y \div f) % f,
         (x \div (f * f)) % f = (y \div (f * f)) % f,
         (x \div (f * f * f)) % f = (y \div (f * f * f)) % f
  PROVE  x = y
  <1> DEFINE Div(n, z) == z \div n
  <1>1. /\ Div(f, x) \in Nat /\ Div(f * f, x) \in Nat /\ Div(f * f * f, x) \in Nat
        /\ Div(f, x) \div f = Div(f * f, x) /\ Div(f * f, x) \div f = Div(f * f * f, x)
        /\ Div(f * f * f, x) \div f = Div(f * f * f * f, x)
    BY Digits, Zenon
  <1>2. /\ Div(f, y) \in Nat /\ Div(f * f, y) \in Nat /\ Div(f * f * f, y) \in Nat
        /\ Div(f, y) \div f = Div(f * f, y) /\ Div(f * f, y) \div f = Div(f * f * f, y)
        /\ Div(f * f * f, y) \div f = Div(f * f * f * f, y)
    BY Digits, Zenon
  <1>3. Div(f * f * f * f, x) = 0 /\ Div(f * f * f * f, y) = 0
    <2>1. f * f * f * f \in Nat \ {0}
      OBVIOUS
    <2> QED BY <2>1, NoFifthDigit, Zenon
  <1>4. /\ Div(f, x) % f = Div(f, y) % f /\ Div(f * f, x) % f = Div(f * f, y) % f
        /\ Div(f * f * f, x) % f = Div(f * f * f, y) % f
        /\ x \div f = Div(f, x) /\ y \div f = Div(f, y)
    OBVIOUS
  <1> HIDE DEF Div
  <1>a. \A a, b \in Nat : a % f = b % f /\ a \div f = b \div f => a = b
    BY SameDivMod, Zenon
  <1>5. Div(f * f * f, x) = Div(f * f * f, y)
    BY <1>1, <1>2, <1>3, <1>4, <1>a, Zenon
  <1>6. Div(f * f, x) = Div(f * f, y)
    BY <1>1, <1>2, <1>4, <1>5, <1>a, Zenon
  <1>7. Div(f, x) = Div(f, y)
    BY <1>1, <1>2, <1>4, <1>6, <1>a, Zenon
  <1> QED BY <1>4, <1>7, <1>a, Zenon

\* A guest page is known by its four indices.
LEMMA PIdxInjective ==
  ASSUME NEW v \in Ipa, NEW w \in Ipa, \A l \in Level : PIdx(l, v) = PIdx(l, w)
  PROVE  v = w
  <1>1. /\ PIdx(0, v) = PIdx(0, w) /\ PIdx(1, v) = PIdx(1, w)
        /\ PIdx(2, v) = PIdx(2, w) /\ PIdx(3, v) = PIdx(3, w)
    BY DEF Level
  <1>2. /\ Span[1] = Fanout * Fanout * Fanout /\ Span[2] = Fanout * Fanout
        /\ Span[3] = Fanout /\ Span[4] = 1
    BY Zenon DEF Span
  <1>3. v \in Nat /\ w \in Nat /\ v \div 1 = v /\ w \div 1 = w
    BY Layout
  <1>4. v < Fanout * Fanout * Fanout * Fanout /\ w < Fanout * Fanout * Fanout * Fanout
    <2>1. Fanout * Fanout * Fanout * Fanout \in Nat
      BY Layout
    <2> QED BY <1>3, <2>1 DEF Ipa
  <1>5. 0 + 1 = 1 /\ 1 + 1 = 2 /\ 2 + 1 = 3 /\ 3 + 1 = 4
    OBVIOUS
  <1>6. /\ v % Fanout = w % Fanout /\ (v \div Fanout) % Fanout = (w \div Fanout) % Fanout
        /\ (v \div (Fanout * Fanout)) % Fanout = (w \div (Fanout * Fanout)) % Fanout
        /\ (v \div (Fanout * Fanout * Fanout)) % Fanout
              = (w \div (Fanout * Fanout * Fanout)) % Fanout
    BY <1>1, <1>2, <1>3, <1>5, Zenon DEF PIdx
  <1>7. Fanout \in Nat \ {0}
    BY Layout, Zenon
  <1> QED BY <1>3, <1>4, <1>6, <1>7, FourDigits, Zenon
-----------------------------------------------------------------------------
(* The tables are a tree                                                   *)

\* A walk goes from the table of one level to the table of the next.
LEMMA WalkSteps ==
  /\ \A v : TableAt(0, v) = root /\ LeafTable(v) = TableAt(3, v)
  /\ \A v : \A l \in 0 .. 2 : TableAt(l + 1, v) = Below(TableAt(l, v), l, v)
  <1>1. \A v : TableAt(0, v) = root
    BY Zenon DEF TableAt
  <1>2. \A v : TableAt(1, v) = Below(TableAt(0, v), 0, v)
    BY DEF TableAt
  <1>3. \A v : TableAt(2, v) = Below(TableAt(1, v), 1, v)
    BY DEF TableAt
  <1>4. \A v : TableAt(3, v) = Below(TableAt(2, v), 2, v) /\ LeafTable(v) = TableAt(3, v)
    BY DEF TableAt, LeafTable
  <1>5. \A l \in 0 .. 2 : l = 0 \/ l = 1 \/ l = 2
    OBVIOUS
  <1>6. 0 + 1 = 1 /\ 1 + 1 = 2 /\ 2 + 1 = 3
    OBVIOUS
  <1> QED BY <1>1, <1>2, <1>3, <1>4, <1>5, <1>6, Zenon

\* An entry of a table that points to a table points to one of the next level.
LEMMA BelowOk ==
  ASSUME TypeOK, EntriesOk, NEW l \in 0 .. 2, NEW t \in Tables(l) \cup {None}, NEW v \in Ipa
  PROVE  Below(t, l, v) \in Tables(l + 1) \cup {None}
  <1>1. CASE t = None
    BY <1>1, Zenon DEF Below
  <1>2. CASE t \in Tables(l)
    <2>1. PIdx(l, v) \in Slot /\ l \in Level
      BY PIdxInSlot, Layout DEF Level
    <2>2. EntryOk(l, t, PIdx(l, v))
      BY <1>2, <2>1, Zenon DEF EntriesOk
    <2> QED BY <2>2, Zenon DEF EntryOk, Below
  <1> QED BY <1>1, <1>2, Zenon

\* pagewalk meets, at every level, a table of that level or none.
LEMMA TableAtOk ==
  ASSUME TypeOK, EntriesOk, RootOk, NEW l \in Level, NEW v \in Ipa
  PROVE  TableAt(l, v) \in Tables(l) \cup {None}
  <1>1. TableAt(0, v) \in Tables(0) \cup {None}
    BY WalkSteps, Zenon DEF RootOk
  <1>2. \A k \in 0 .. 2 : TableAt(k, v) \in Tables(k) \cup {None}
                            => TableAt(k + 1, v) \in Tables(k + 1) \cup {None}
    BY WalkSteps, BelowOk
  <1>3. TableAt(1, v) \in Tables(1) \cup {None}
    BY <1>1, <1>2
  <1>4. TableAt(2, v) \in Tables(2) \cup {None}
    BY <1>2, <1>3
  <1>5. TableAt(3, v) \in Tables(3) \cup {None}
    BY <1>2, <1>4
  <1> QED BY <1>1, <1>3, <1>4, <1>5 DEF Level

\* Two walks that meet came through the same entry.
LEMMA BelowOnce ==
  ASSUME TypeOK, EntriesOk, LinkedOnce, NEW l \in 0 .. 2, NEW v \in Ipa, NEW w \in Ipa,
         NEW t \in Tables(l) \cup {None}, NEW u \in Tables(l) \cup {None},
         Below(t, l, v) = Below(u, l, w), Below(t, l, v) # None
  PROVE  t = u /\ t # None /\ PIdx(l, v) = PIdx(l, w)
  <1>1. t \in Tables(l) /\ u \in Tables(l) /\ t # None
    BY Zenon DEF Below
  <1>2. PIdx(l, v) \in Slot /\ PIdx(l, w) \in Slot /\ l \in Level
    BY PIdxInSlot, Layout DEF Level
  <1>3. t \in AnyTable /\ u \in AnyTable
    BY <1>1, <1>2, Zenon DEF AnyTable
  <1>4. /\ Linked(t, PIdx(l, v)) /\ mem[t][PIdx(l, v)].n = Below(t, l, v)
        /\ Linked(u, PIdx(l, w)) /\ mem[u][PIdx(l, w)].n = Below(t, l, v)
    BY Zenon DEF Linked, Below
  <1>5. Below(t, l, v) \in Page
    BY BelowOk, Zenon DEF Tables
  <1> QED BY <1>1, <1>2, <1>3, <1>4, <1>5 DEF LinkedOnce

\* Guest pages with the same last table differ in the last index at most.
LEMMA OneWalk ==
  ASSUME TypeOK, EntriesOk, LinkedOnce, RootOk, NEW v \in Ipa, NEW w \in Ipa,
         TableAt(3, v) = TableAt(3, w), TableAt(3, v) # None, PIdx(3, v) = PIdx(3, w)
  PROVE  v = w
  <1>1. \A l \in 0 .. 2 : /\ TableAt(l + 1, v) = TableAt(l + 1, w) /\ TableAt(l + 1, v) # None
                          => /\ TableAt(l, v) = TableAt(l, w) /\ TableAt(l, v) # None
                             /\ PIdx(l, v) = PIdx(l, w)
    <2> SUFFICES ASSUME NEW l \in 0 .. 2,
                        TableAt(l + 1, v) = TableAt(l + 1, w), TableAt(l + 1, v) # None
                 PROVE  /\ TableAt(l, v) = TableAt(l, w) /\ TableAt(l, v) # None
                        /\ PIdx(l, v) = PIdx(l, w)
      OBVIOUS
    <2>1. l \in Level
      BY DEF Level
    <2>2. TableAt(l, v) \in Tables(l) \cup {None} /\ TableAt(l, w) \in Tables(l) \cup {None}
      BY <2>1, TableAtOk, Zenon
    <2>3. /\ Below(TableAt(l, v), l, v) = Below(TableAt(l, w), l, w)
          /\ Below(TableAt(l, v), l, v) # None
      BY WalkSteps, Zenon
    <2> QED BY <2>2, <2>3, BelowOnce
  <1>2. TableAt(2, v) = TableAt(2, w) /\ TableAt(2, v) # None /\ PIdx(2, v) = PIdx(2, w)
    BY <1>1
  <1>3. TableAt(1, v) = TableAt(1, w) /\ TableAt(1, v) # None /\ PIdx(1, v) = PIdx(1, w)
    BY <1>1, <1>2
  <1>4. PIdx(0, v) = PIdx(0, w)
    BY <1>1, <1>3
  <1>5. \A l \in Level : PIdx(l, v) = PIdx(l, w)
    BY <1>2, <1>3, <1>4 DEF Level
  <1> QED BY <1>5, PIdxInjective, Zenon

\* A translation is the leaf entry at the end of the walk.
LEMMA TranslateIs ==
  ASSUME NEW v
  PROVE  Translate(v) = IF TableAt(3, v) # None /\ mem[TableAt(3, v)][PIdx(3, v)].kind = "leaf"
                        THEN mem[TableAt(3, v)][PIdx(3, v)].n ELSE None
  BY WalkSteps, Zenon DEF Translate

\* Two walks that end at one page took the same entries all the way down.
LEMMA TreeIsolates ==
  ASSUME TypeOK, EntriesOk, LinkedOnce, RootOk
  PROVE  GuestIsolated
  <1> SUFFICES ASSUME NEW v \in Ipa, Translate(v) \in Page
               PROVE  /\ use[Translate(v)] = "guest"
                      /\ \A w \in Ipa : Translate(w) = Translate(v) => w = v
    BY Zenon DEF GuestIsolated
  <1>1. \A w \in Ipa : PIdx(3, w) \in Slot /\ TableAt(3, w) \in Tables(3) \cup {None} /\ 3 \in Level
    BY PIdxInSlot, Layout, TableAtOk DEF Level
  <1>2. \A w \in Ipa : Translate(w) = Translate(v) =>
            /\ TableAt(3, w) \in Tables(3) /\ TableAt(3, w) # None
            /\ mem[TableAt(3, w)][PIdx(3, w)].kind = "leaf"
            /\ mem[TableAt(3, w)][PIdx(3, w)].n = Translate(v)
    BY <1>1, TranslateIs, Layout, Zenon
  <1>3. use[Translate(v)] = "guest"
    <2>1. EntryOk(3, TableAt(3, v), PIdx(3, v))
      BY <1>1, <1>2, Zenon DEF EntriesOk
    <2> QED BY <1>2, <2>1, Layout, Zenon DEF EntryOk
  <1>4. ASSUME NEW w \in Ipa, Translate(w) = Translate(v)
        PROVE  w = v
    <2>1. TableAt(3, v) \in AnyTable /\ TableAt(3, w) \in AnyTable
      BY <1>1, <1>2, <1>4, Zenon DEF AnyTable
    <2>2. Linked(TableAt(3, v), PIdx(3, v)) /\ Linked(TableAt(3, w), PIdx(3, w))
      BY <1>2, <1>4, Zenon DEF Linked
    <2>3. TableAt(3, v) = TableAt(3, w) /\ PIdx(3, v) = PIdx(3, w)
      BY <1>1, <1>2, <1>4, <2>1, <2>2 DEF LinkedOnce
    <2> QED BY <1>2, <2>3, OneWalk, Zenon
  <1> QED BY <1>3, <1>4, Zenon
-----------------------------------------------------------------------------
(* What a step does to the tree                                            *)

\* WalkSteps and TranslateIs after a step.
LEMMA WalkStepsNext ==
  /\ \A v : TableAt(0, v)' = root' /\ LeafTable(v)' = TableAt(3, v)'
  /\ \A v : \A l \in 0 .. 2 :
        TableAt(l + 1, v)' =
            IF TableAt(l, v)' # None /\ mem'[TableAt(l, v)'][PIdx(l, v)].kind = "table"
            THEN mem'[TableAt(l, v)'][PIdx(l, v)].n ELSE None
  /\ \A v : Translate(v)' =
        IF TableAt(3, v)' # None /\ mem'[TableAt(3, v)'][PIdx(3, v)].kind = "leaf"
        THEN mem'[TableAt(3, v)'][PIdx(3, v)].n ELSE None
  <1>1. \A v : TableAt(0, v)' = root'
    BY Zenon DEF TableAt
  <1>2. \A v : TableAt(1, v)' =
            IF TableAt(0, v)' # None /\ mem'[TableAt(0, v)'][PIdx(0, v)].kind = "table"
            THEN mem'[TableAt(0, v)'][PIdx(0, v)].n ELSE None
    BY DEF TableAt, Below, None, PIdx
  <1>3. \A v : TableAt(2, v)' =
            IF TableAt(1, v)' # None /\ mem'[TableAt(1, v)'][PIdx(1, v)].kind = "table"
            THEN mem'[TableAt(1, v)'][PIdx(1, v)].n ELSE None
    BY DEF TableAt, Below
  <1>4. \A v : TableAt(3, v)' =
            IF TableAt(2, v)' # None /\ mem'[TableAt(2, v)'][PIdx(2, v)].kind = "table"
            THEN mem'[TableAt(2, v)'][PIdx(2, v)].n ELSE None
    <2>1. \A v : TableAt(3, v)' = Below(TableAt(2, v), 2, v)'
      BY DEF TableAt, LeafTable
    <2>2. \A v : Below(TableAt(2, v), 2, v)' =
              IF TableAt(2, v)' # None /\ mem'[TableAt(2, v)'][PIdx(2, v)].kind = "table"
              THEN mem'[TableAt(2, v)'][PIdx(2, v)].n ELSE None
      BY Zenon DEF Below
    <2> QED BY <2>1, <2>2, Zenon
  <1>5. \A v : LeafTable(v)' = TableAt(3, v)'
    BY DEF TableAt, LeafTable
  <1>6. \A v : Translate(v)' =
            IF TableAt(3, v)' # None /\ mem'[TableAt(3, v)'][PIdx(3, v)].kind = "leaf"
            THEN mem'[TableAt(3, v)'][PIdx(3, v)].n ELSE None
    BY <1>5, Zenon DEF Translate
  <1>7. \A l \in 0 .. 2 : l = 0 \/ l = 1 \/ l = 2
    OBVIOUS
  <1>8. 0 + 1 = 1 /\ 1 + 1 = 2 /\ 2 + 1 = 3
    OBVIOUS
  <1> QED BY <1>1, <1>2, <1>3, <1>4, <1>5, <1>6, <1>7, <1>8, Zenon

\* A step that writes no table and makes none leaves the tree as it is.
LEMMA Frame ==
  ASSUME TypeOK, EntriesOk, LinkedOnce, RootOk, root' = root,
         \A q \in Page : \/ use'[q] = use[q]
                         \/ use[q] = "free" /\ use'[q] \in {"stack", "guest", "spis"},
         \A q \in AnyTable : mem'[q] = mem[q]
  PROVE  /\ \A l \in Level : Tables(l)' = Tables(l)
         /\ AnyTable' = AnyTable
         /\ EntriesOk' /\ LinkedOnce'
         /\ \A v \in Ipa : \A l \in Level : TableAt(l, v)' = TableAt(l, v)
         /\ \A v \in Ipa : Translate(v)' = Translate(v)
  <1>1. \A l \in Level : Tables(l)' = Tables(l)
    BY TableLevels, Zenon DEF Tables
  <1>2. AnyTable' = AnyTable
    BY <1>1, Zenon DEF AnyTable
  <1>3. EntriesOk'
    <2> SUFFICES ASSUME NEW l \in Level, NEW q \in Tables(l), NEW s \in Slot
                 PROVE  EntryOk(l, q, s)'
      BY <1>1, Zenon DEF EntriesOk
    <2>1. EntryOk(l, q, s) /\ mem'[q] = mem[q]
      BY Zenon DEF EntriesOk, AnyTable
    <2>2. l < 3 => Tables(l + 1)' = Tables(l + 1)
      BY <1>1 DEF Level
    <2>3. \A r \in Page : use[r] = "guest" => use'[r] = "guest"
      OBVIOUS
    <2> QED BY <2>1, <2>2, <2>3, Zenon DEF EntryOk
  <1>4. LinkedOnce'
    BY <1>2 DEF LinkedOnce, Linked
  <1>5. ASSUME NEW v \in Ipa
        PROVE  \A l \in Level : TableAt(l, v)' = TableAt(l, v)
    <2>1. \A l \in Level : TableAt(l, v) # None => mem'[TableAt(l, v)] = mem[TableAt(l, v)]
      BY TableAtOk, Zenon DEF AnyTable
    <2>2. \A l \in 0 .. 2 : TableAt(l, v)' = TableAt(l, v)
                              => TableAt(l + 1, v)' = TableAt(l + 1, v)
      BY <2>1, WalkSteps, WalkStepsNext DEF Below, Level
    <2>3. TableAt(0, v)' = TableAt(0, v)
      BY WalkSteps, WalkStepsNext, Zenon
    <2>4. TableAt(1, v)' = TableAt(1, v)
      BY <2>2, <2>3
    <2>5. TableAt(2, v)' = TableAt(2, v)
      BY <2>2, <2>4
    <2>6. TableAt(3, v)' = TableAt(3, v)
      BY <2>2, <2>5
    <2> QED BY <2>3, <2>4, <2>5, <2>6 DEF Level
  <1>6. ASSUME NEW v \in Ipa
        PROVE  Translate(v)' = Translate(v)
    <2>1. 3 \in Level
      BY DEF Level
    <2>2. TableAt(3, v)' = TableAt(3, v)
      BY <1>5, <2>1, Zenon
    <2>3. TableAt(3, v) # None => mem'[TableAt(3, v)] = mem[TableAt(3, v)]
      BY <2>1, TableAtOk, Zenon DEF AnyTable
    <2> QED BY <2>2, <2>3, TranslateIs, WalkStepsNext, Zenon
  <1> QED BY <1>1, <1>2, <1>3, <1>4, <1>5, <1>6, Zenon

\* alloc_page returns a page that is no table and that nothing was written to.
LEMMA NewPageOk ==
  ASSUME TypeOK, FreeIsZero, ~Exhausted
  PROVE  /\ NewPage \in Page /\ use[NewPage] = "free" /\ NewPage \notin AnyTable
         /\ \A s \in Slot : mem[NewPage][s] = Zero
         /\ nalloc + 1 \in 0 .. cfg.total
  <1>1. nalloc \in Nat /\ cfg.total \in Nat /\ nalloc < cfg.total /\ cfg.total <= MaxPages
    BY Layout DEF TypeOK, Exhausted
  <1>2. NewPage \in Page
    BY <1>1, Layout DEF NewPage, Page
  <1>3. NewPage \in Nat
    BY <1>2, Layout, Zenon
  <1>4. use[NewPage] = "free" /\ \A s \in Slot : mem[NewPage][s] = Zero
    BY <1>2, <1>3 DEF FreeIsZero
  <1>5. NewPage \notin AnyTable
    BY <1>4, TableLevels, Zenon DEF AnyTable, Tables
  <1> QED BY <1>1, <1>2, <1>4, <1>5

\* What alloc_page leaves: one page more in use, the rest free and zero.
LEMMA AllocOk ==
  ASSUME TypeOK, FreeIsZero, NEW u \in Use, Alloc(u), cfg' = cfg,
         \A q \in Page : q > NewPage => mem'[q] = mem[q]
  PROVE  /\ FreeIsZero' /\ nalloc' \in 0 .. cfg'.total /\ use' \in [Page -> Use]
         /\ use'[NewPage] = u /\ \A q \in Page : q # NewPage => use'[q] = use[q]
  <1>1. NewPage \in Page /\ nalloc + 1 \in 0 .. cfg.total
    BY NewPageOk, Zenon DEF Alloc
  <1>2. use \in [Page -> Use]
    BY Zenon DEF TypeOK
  <1>3. /\ use' \in [Page -> Use] /\ use'[NewPage] = u
        /\ \A q \in Page : q # NewPage => use'[q] = use[q]
    BY <1>1, <1>2, Zenon DEF Alloc
  <1>4. FreeIsZero'
    <2> SUFFICES ASSUME NEW q \in Page, q >= NewPage'
                 PROVE  use'[q] = "free" /\ \A s \in Slot : mem'[q][s] = Zero
      BY Zenon DEF FreeIsZero, Zero, Word
    <2>1. NewPage' = NewPage + 1 /\ NewPage \in Nat /\ q \in Nat
      BY Layout, <1>1 DEF NewPage, Alloc, TypeOK
    <2>2. q > NewPage /\ q >= NewPage /\ q # NewPage
      BY <2>1
    <2> QED BY <2>2, <1>3 DEF FreeIsZero
  <1> QED BY <1>1, <1>3, <1>4, Zenon DEF Alloc

\* pagewalk puts an empty table behind an entry that was zero: a walk that
\* ended there ends one table later, and no translation changes.
LEMMA LinkTable ==
  ASSUME TreeInv, WalkAlloc
  PROVE  /\ \A v \in Ipa : \A l \in Level :
                \/ TableAt(l, v)' = TableAt(l, v)
                \/ TableAt(l, v) = None /\ TableAt(l, v)' = NewPage
         /\ \A v \in Ipa : Translate(v)' = Translate(v)
         /\ \A l \in Level, v \in Ipa :
                l = walk.level + 1 /\ v = walk.va => TableAt(l, v)' = NewPage
  <1> DEFINE k == walk.level
             i == PIdx(walk.level, walk.va)
  <1>0. TypeOK /\ FreeIsZero /\ EntriesOk /\ RootOk /\ WalkOk
    BY Zenon DEF TreeInv
  <1>1. k \in 0 .. 2 /\ k \in Level /\ walk.va \in Ipa /\ i \in Slot
    BY <1>0, PIdxInSlot, Layout DEF WalkAlloc, TypeOK, Level, PageWalk
  <1>2. walk.pgt = TableAt(k, walk.va) /\ walk.pgt # None
    BY <1>0, <1>1, Zenon DEF WalkOk, WalkAlloc
  <1>3. walk.pgt \in Tables(k) /\ walk.pgt \in Page
    BY <1>0, <1>1, <1>2, TableAtOk, Zenon DEF Tables
  <1>4. mem[walk.pgt][i].kind = "zero"
    BY <1>0, <1>1, <1>3 DEF EntriesOk, EntryOk, WalkAlloc, Pte
  <1>5. NewPage \in Page /\ NewPage \notin AnyTable /\ \A s \in Slot : mem[NewPage][s] = Zero
    BY <1>0, NewPageOk, Zenon DEF WalkAlloc, Alloc
  <1>6. /\ \A q \in Page : q # walk.pgt => mem'[q] = mem[q]
        /\ \A s \in Slot : s # i => mem'[walk.pgt][s] = mem[walk.pgt][s]
        /\ mem'[walk.pgt][i] = Word("table", NewPage)
    BY <1>0, <1>1, <1>3, Zenon DEF WalkAlloc, TypeOK
  <1>7. NewPage # walk.pgt /\ NewPage # None
    BY <1>1, <1>3, <1>5, Layout, Zenon DEF AnyTable
  <1>8. \A s \in Slot : mem'[NewPage][s].kind = "zero"
    BY <1>5, <1>6, <1>7 DEF Zero, Word
  <1>9. root' = root /\ \A v \in Ipa, l \in Level : PIdx(l, v) \in Slot
    BY PIdxInSlot, Layout, Zenon DEF WalkAlloc
  <1>10. \A v \in Ipa, l \in Level : TableAt(l, v) \in Tables(l) \cup {None}
    BY <1>0, TableAtOk, Zenon
  <1> HIDE DEF k, i
  <1>11. ASSUME NEW v \in Ipa, NEW l \in 0 .. 2,
                \/ TableAt(l, v)' = TableAt(l, v)
                \/ TableAt(l, v) = None /\ TableAt(l, v)' = NewPage
         PROVE  \/ TableAt(l + 1, v)' = TableAt(l + 1, v)
                \/ TableAt(l + 1, v) = None /\ TableAt(l + 1, v)' = NewPage
    <2>1. l \in Level /\ PIdx(l, v) \in Slot
      BY <1>9 DEF Level
    <2>2. CASE TableAt(l, v) = None
      BY <2>1, <2>2, <1>8, <1>11, WalkSteps, WalkStepsNext, Zenon DEF Below
    <2>3. CASE TableAt(l, v) # None
      <3>1. TableAt(l, v)' = TableAt(l, v) /\ TableAt(l, v) \in Page
        BY <2>1, <2>3, <1>10, <1>11, Zenon DEF Tables
      <3>2. CASE TableAt(l, v) = walk.pgt /\ PIdx(l, v) = i
        BY <3>1, <3>2, <1>4, <1>6, <2>3, WalkSteps, WalkStepsNext DEF Below, Word
      <3>3. CASE ~(TableAt(l, v) = walk.pgt /\ PIdx(l, v) = i)
        <4>1. mem'[TableAt(l, v)][PIdx(l, v)] = mem[TableAt(l, v)][PIdx(l, v)]
          BY <3>1, <3>3, <1>6, <2>1, Zenon
        <4> QED BY <3>1, <4>1, WalkSteps, WalkStepsNext DEF Below
      <3> QED BY <3>2, <3>3, Zenon
    <2> QED BY <2>2, <2>3, Zenon
  <1>12. ASSUME NEW v \in Ipa
         PROVE  \A l \in Level : \/ TableAt(l, v)' = TableAt(l, v)
                                 \/ TableAt(l, v) = None /\ TableAt(l, v)' = NewPage
    <2> DEFINE P(l) == \/ TableAt(l, v)' = TableAt(l, v)
                       \/ TableAt(l, v) = None /\ TableAt(l, v)' = NewPage
    <2>1. P(0)
      BY <1>9, WalkSteps, WalkStepsNext, Zenon
    <2>2. \A l \in 0 .. 2 : P(l) => P(l + 1)
      BY <1>11, Zenon
    <2> HIDE DEF P
    <2>3. P(1)
      BY <2>1, <2>2
    <2>4. P(2)
      BY <2>2, <2>3
    <2>5. P(3)
      BY <2>2, <2>4
    <2>6. \A l \in Level : P(l)
      BY <2>1, <2>3, <2>4, <2>5 DEF Level
    <2> QED BY <2>6, Zenon DEF P
  <1>13. ASSUME NEW v \in Ipa
         PROVE  Translate(v)' = Translate(v)
    <2>1. 3 \in Level /\ PIdx(3, v) \in Slot
      BY <1>9 DEF Level
    <2>2. CASE TableAt(3, v) = None
      BY <2>1, <2>2, <1>8, <1>12, TranslateIs, WalkStepsNext, Zenon
    <2>3. CASE TableAt(3, v) # None
      <3>1. TableAt(3, v)' = TableAt(3, v) /\ TableAt(3, v) \in Tables(3)
        BY <2>1, <2>3, <1>10, <1>12, Zenon
      <3>2. TableAt(3, v) # walk.pgt /\ TableAt(3, v) \in Page
        BY <3>1, <1>1, <1>3, <2>1, TableLevels DEF Tables
      <3> QED BY <3>1, <3>2, <1>6, TranslateIs, WalkStepsNext, Zenon
    <2> QED BY <2>2, <2>3, Zenon
  <1>14. ASSUME NEW l \in Level, NEW v \in Ipa, l = walk.level + 1, v = walk.va
         PROVE  TableAt(l, v)' = NewPage
    <2>1. PICK m \in 0 .. 2 : m = walk.level /\ m \in Level /\ l = m + 1
      BY <1>1, <1>14, Zenon DEF k
    <2>2. TableAt(m, v)' = walk.pgt
      BY <1>2, <1>12, <1>14, <2>1, Zenon DEF k
    <2>3. TableAt(m + 1, v)' =
            IF TableAt(m, v)' # None /\ mem'[TableAt(m, v)'][PIdx(m, v)].kind = "table"
            THEN mem'[TableAt(m, v)'][PIdx(m, v)].n ELSE None
      BY WalkStepsNext, Zenon
    <2>4. PIdx(m, v) = i
      BY <2>1, <1>14, Zenon DEF i
    <2> QED BY <2>1, <2>2, <2>3, <2>4, <1>2, <1>6 DEF Word
  <1> QED BY <1>12, <1>13, <1>14, Zenon

\* An entry never points to a page that alloc_page has yet to hand out.
LEMMA LinkedUsed ==
  ASSUME TypeOK, EntriesOk, NEW q \in AnyTable, NEW s \in Slot, Linked(q, s)
  PROVE  mem[q][s].n \in Page => use[mem[q][s].n] # "free"
  <1>1. PICK l \in Level : q \in Tables(l)
    BY Zenon DEF AnyTable
  <1>2. EntryOk(l, q, s)
    BY <1>1, Zenon DEF EntriesOk
  <1>3. l < 3 => l + 1 \in Level
    BY DEF Level
  <1>4. \A r \in Tables(l + 1) : l < 3 => use[r] # "free"
    BY <1>3, TableLevels, Zenon DEF Tables
  <1> QED BY <1>2, <1>4, Layout, Zenon DEF EntryOk, Linked

\* pagewalk goes down one level.
LEMMA PageWalkDown ==
  ASSUME NEW r \in PageWalk, NEW q \in Page, r.level \in 0 .. 2
  PROVE  [r EXCEPT !.pgt = q, !.level = @ + 1] \in PageWalk
  <1>1. r.level + 1 \in 0 .. 3
    OBVIOUS
  <1>2. \A m \in 0 .. 3 : [r EXCEPT !.pgt = q, !.level = m] \in PageWalk
    BY Zenon DEF PageWalk
  <1> QED BY <1>1, <1>2, Zenon

\* pagewalk makes a table that is missing.
LEMMA WalkAllocKeeps ==
  ASSUME TreeInv, WalkAlloc
  PROVE  TreeInv'
  <1> DEFINE i == PIdx(walk.level, walk.va)
  <1>0. TypeOK /\ FreeIsZero /\ EntriesOk /\ LinkedOnce /\ RootOk /\ WalkOk
    BY Zenon DEF TreeInv
  <1>1. walk.level \in 0 .. 2 /\ walk.level \in Level /\ walk.va \in Ipa /\ i \in Slot
    BY <1>0, PIdxInSlot, Layout DEF WalkAlloc, TypeOK, Level, PageWalk
  <1>2. walk.pgt \in Tables(walk.level) /\ walk.pgt \in Page /\ walk.pgt \in AnyTable
    <2>1. walk.pgt = TableAt(walk.level, walk.va) /\ walk.pgt # None
      BY <1>0, <1>1, Zenon DEF WalkOk, WalkAlloc
    <2> QED BY <1>0, <1>1, <2>1, TableAtOk DEF Tables, AnyTable
  <1>3. /\ NewPage \in Page /\ NewPage \notin AnyTable /\ use[NewPage] = "free"
        /\ \A s \in Slot : mem[NewPage][s] = Zero
    BY <1>0, NewPageOk, Zenon DEF WalkAlloc, Alloc
  <1>4. /\ \A q \in Page : q # walk.pgt => mem'[q] = mem[q]
        /\ \A s \in Slot : s # i => mem'[walk.pgt][s] = mem[walk.pgt][s]
        /\ mem'[walk.pgt][i] = Word("table", NewPage)
    BY <1>0, <1>1, <1>2, Zenon DEF WalkAlloc, TypeOK
  <1>5. walk.level + 1 \in Level /\ Table(walk.level + 1) \in Use
    BY <1>1, TableLevels DEF Level
  <1>6. /\ FreeIsZero' /\ nalloc' \in 0 .. cfg'.total /\ use' \in [Page -> Use]
        /\ use'[NewPage] = Table(walk.level + 1)
        /\ \A q \in Page : q # NewPage => use'[q] = use[q]
    <2>1. walk.pgt < NewPage
      <3>1. use[walk.pgt] # "free"
        BY <1>1, <1>2, TableLevels, Zenon DEF Tables
      <3>2. walk.pgt \in Nat /\ NewPage \in Nat
        BY <1>2, <1>3, Layout, Zenon
      <3> QED BY <1>0, <1>2, <3>1, <3>2 DEF FreeIsZero
    <2>2. \A q \in Page : q > NewPage => mem'[q] = mem[q]
      BY <1>2, <1>3, <1>4, <2>1, Layout
    <2>3. Alloc(Table(walk.level + 1)) /\ cfg' = cfg
      BY Zenon DEF WalkAlloc
    <2> QED BY <1>0, <1>5, <2>2, <2>3, AllocOk, Zenon
  <1> HIDE DEF i
  <1>7. /\ \A l \in Level, q \in Page :
              q \in Tables(l)' <=> q \in Tables(l) \/ (l = walk.level + 1 /\ q = NewPage)
        /\ \A l \in Level : Tables(l)' \subseteq Page
    <2>1. \A l \in Level : NewPage \notin Tables(l)
      BY <1>3, Zenon DEF AnyTable
    <2>2. \A l \in Level : l = walk.level + 1 <=> Table(l) = Table(walk.level + 1)
      BY <1>5, TableLevels, Zenon
    <2> QED BY <1>3, <1>6, <2>1, <2>2, Zenon DEF Tables
  <1>8. \A q \in AnyTable' : q \in Page /\ (q \in AnyTable \/ q = NewPage)
    BY <1>7 DEF AnyTable
  <1>9. \A s \in Slot : mem'[NewPage][s] = Zero
    BY <1>2, <1>3, <1>4, Zenon
  <1>10. TypeOK'
    <2>1. mem' \in [Page -> [Slot -> MemWord]]
      <3>1. Word("table", NewPage) \in MemWord
        BY <1>3, Layout DEF Word, MemWord
      <3>2. mem \in [Page -> [Slot -> MemWord]]
        BY <1>0, Zenon DEF TypeOK
      <3> QED BY <1>1, <1>2, <3>1, <3>2, Zenon DEF WalkAlloc
    <2>2. walk' \in PageWalk
      BY <1>0, <1>1, <1>3, PageWalkDown, Zenon DEF WalkAlloc, TypeOK
    <2> QED BY <1>0, <1>6, <2>1, <2>2, Zenon DEF WalkAlloc, TypeOK
  <1>11. EntriesOk'
    <2> SUFFICES ASSUME NEW l \in Level, NEW q \in Tables(l)', NEW s \in Slot
                 PROVE  EntryOk(l, q, s)'
      BY Zenon DEF EntriesOk
    <2>1. q \in Page
      BY <1>7, Zenon
    <2>2. CASE q = NewPage
      BY <2>2, <1>9 DEF EntryOk, Zero, Word
    <2>3. CASE q # NewPage /\ q = walk.pgt /\ s = i
      <3>1. l = walk.level
        BY <1>1, <1>2, <1>7, <2>3, TableLevels, Zenon DEF Tables
      <3>2. NewPage \in Tables(l + 1)' /\ l < 3
        BY <3>1, <1>1, <1>3, <1>5, <1>7
      <3> QED BY <3>2, <2>3, <1>4 DEF EntryOk, Word
    <2>4. CASE q # NewPage /\ ~(q = walk.pgt /\ s = i)
      <3>1. mem'[q][s] = mem[q][s] /\ EntryOk(l, q, s)
        BY <2>1, <2>4, <1>0, <1>4, <1>7, Zenon DEF EntriesOk
      <3>2. l < 3 => Tables(l + 1) \subseteq Tables(l + 1)'
        BY <1>7 DEF Level, Tables
      <3>3. \A r \in Page : use[r] = "guest" => use'[r] = "guest"
        BY <1>3, <1>6, Zenon
      <3> QED BY <3>1, <3>2, <3>3, Zenon DEF EntryOk
    <2> QED BY <2>2, <2>3, <2>4, Zenon
  <1>12. \A q \in AnyTable', s \in Slot : Linked(q, s)' =>
            /\ q \in AnyTable
            /\ \/ q = walk.pgt /\ s = i /\ mem'[q][s].n = NewPage
               \/ Linked(q, s) /\ mem'[q][s] = mem[q][s] /\ mem[q][s].n # NewPage
    <2> SUFFICES ASSUME NEW q \in AnyTable', NEW s \in Slot, Linked(q, s)'
                 PROVE  /\ q \in AnyTable
                        /\ \/ q = walk.pgt /\ s = i /\ mem'[q][s].n = NewPage
                           \/ Linked(q, s) /\ mem'[q][s] = mem[q][s] /\ mem[q][s].n # NewPage
      OBVIOUS
    <2>1. q \in AnyTable /\ q \in Page
      BY <1>8, <1>9 DEF Linked, Zero, Word
    <2>2. CASE q = walk.pgt /\ s = i
      BY <2>1, <2>2, <1>4 DEF Word
    <2>3. CASE ~(q = walk.pgt /\ s = i)
      <3>1. mem'[q][s] = mem[q][s]
        BY <2>1, <2>3, <1>4, Zenon
      <3>2. Linked(q, s)
        BY <3>1, Zenon DEF Linked
      <3> QED BY <3>1, <3>2, <2>1, <1>0, <1>3, LinkedUsed, Zenon
    <2> QED BY <2>2, <2>3, Zenon
  <1>13. LinkedOnce'
    <2> SUFFICES ASSUME NEW q \in AnyTable', NEW r \in AnyTable', NEW s \in Slot, NEW t \in Slot,
                        Linked(q, s)', Linked(r, t)', mem'[q][s].n = mem'[r][t].n,
                        mem'[q][s].n \in Page
                 PROVE  q = r /\ s = t
      BY Zenon DEF LinkedOnce
    <2> QED BY <1>0, <1>12 DEF LinkedOnce
  <1>14. RootOk'
    <2>1. 0 \in Level /\ walk.level + 1 # 0
      BY <1>1 DEF Level
    <2>2. \A q \in Page : q \in Tables(0)' <=> q \in Tables(0)
      BY <1>7, <2>1, Zenon
    <2>3. Tables(0)' = Tables(0)
      BY <2>2, Zenon DEF Tables
    <2> QED BY <1>0, <2>3, Zenon DEF RootOk, WalkAlloc
  <1>15. WalkOk'
    <2>1. PICK l \in Level, v \in Ipa : l = walk.level + 1 /\ v = walk.va
      BY <1>1, <1>5, Zenon
    <2>2. TableAt(l, v)' = NewPage
      BY <2>1, LinkTable, Zenon
    <2>3. walk'.pgt = NewPage /\ walk'.level = l /\ walk'.va = v
          /\ walk'.pa = walk.pa /\ walk'.ret = walk.ret
      BY <1>0, <2>1 DEF WalkAlloc, TypeOK
    <2>4. \A m \in Level, w \in Ipa :
              m = walk'.level /\ w = walk'.va => walk'.pgt = TableAt(m, w)' /\ walk'.pgt # None
      BY <1>3, <2>2, <2>3, Layout, Zenon
    <2>5. \/ walk.pa = Uart /\ walk.va = Uart
          \/ /\ walk.pa \in Page /\ use[walk.pa] = "guest"
             /\ \A q \in AnyTable, s \in Slot : Linked(q, s) => mem[q][s].n # walk.pa
      BY <1>0, Zenon DEF WalkOk, WalkAlloc
    <2>6. \/ walk'.pa = Uart /\ walk'.va = Uart
          \/ /\ walk'.pa \in Page /\ use'[walk'.pa] = "guest"
             /\ \A q \in AnyTable', s \in Slot : Linked(q, s)' => mem'[q][s].n # walk'.pa
      BY <2>1, <2>3, <2>5, <1>3, <1>6, <1>12
    <2>7. walk'.va \in Ram \cup {Uart} /\ walk'.ret # "none"
      BY <1>0, <2>1, <2>3, Zenon DEF WalkOk, WalkAlloc
    <2> QED BY <2>4, <2>6, <2>7, Zenon DEF WalkOk
  <1> QED BY <1>6, <1>10, <1>11, <1>13, <1>14, <1>15, Zenon DEF TreeInv

\* pagemap writes a leaf entry that was zero: one guest page, which had no
\* translation, now has the page pagemap was called with, and no other
\* translation changes.
LEMMA LinkLeaf ==
  ASSUME TreeInv, MapLeaf
  PROVE  /\ \A v \in Ipa : \A l \in Level : TableAt(l, v)' = TableAt(l, v)
         /\ \A v \in Ipa : v = walk.va => Translate(v) = None /\ Translate(v)' = walk.pa
         /\ \A v \in Ipa : v # walk.va => Translate(v)' = Translate(v)
         /\ EntriesOk' /\ LinkedOnce'
         /\ mem' \in [Page -> [Slot -> MemWord]]
         /\ \A q \in Page : use[q] # Table(3) => mem'[q] = mem[q]
  <1> DEFINE i == PIdx(3, walk.va)
  <1>0. TypeOK /\ FreeIsZero /\ EntriesOk /\ LinkedOnce /\ RootOk /\ WalkOk
    BY Zenon DEF TreeInv
  <1>a. walk \in PageWalk /\ walk.level = 3
    BY <1>0, Zenon DEF TypeOK, MapLeaf
  <1>b. walk.va \in Ipa /\ walk.pa \in Page \cup {None, Uart}
    BY <1>a, Zenon DEF PageWalk
  <1>1. walk.level = 3 /\ 3 \in Level /\ walk.va \in Ipa /\ i \in Slot /\ walk.pa \in Int
    <2>1. 3 \in Level /\ Uart \in Int /\ None \in Int
      BY Layout DEF Level
    <2>2. i \in Slot
      BY <1>b, <2>1, PIdxInSlot, Layout, Zenon
    <2>3. Page \subseteq Int
      BY Layout
    <2>4. walk.pa \in Int
      BY <1>b, <2>1, <2>3, Zenon
    <2> QED BY <1>a, <1>b, <2>1, <2>2, <2>4, Zenon
  <1>2. walk.pgt = TableAt(3, walk.va) /\ walk.pgt # None
    BY <1>0, <1>1, Zenon DEF WalkOk, MapLeaf
  <1>3. walk.pgt \in Tables(3) /\ walk.pgt \in Page /\ walk.pgt \in AnyTable
    BY <1>0, <1>1, <1>2, TableAtOk DEF Tables, AnyTable
  <1>4. mem[walk.pgt][i].kind = "zero"
    BY <1>0, <1>1, <1>3 DEF EntriesOk, EntryOk, MapLeaf, Pte
  <1>5. /\ \A q \in Page : q # walk.pgt => mem'[q] = mem[q]
        /\ \A s \in Slot : s # i => mem'[walk.pgt][s] = mem[walk.pgt][s]
        /\ mem'[walk.pgt][i] = Word("leaf", walk.pa)
    BY <1>0, <1>1, <1>3, Zenon DEF MapLeaf, TypeOK
  <1>6. root' = root /\ use' = use
    BY Zenon DEF MapLeaf
  <1>7. mem' \in [Page -> [Slot -> MemWord]]
    <2>1. Word("leaf", walk.pa) \in MemWord
      BY <1>1, Zenon DEF Word, MemWord
    <2>2. mem \in [Page -> [Slot -> MemWord]]
      BY <1>0, Zenon DEF TypeOK
    <2> QED BY <1>1, <1>3, <2>1, <2>2, Zenon DEF MapLeaf
  <1> HIDE DEF i
  <1>8. ASSUME NEW v \in Ipa
        PROVE  \A l \in Level : TableAt(l, v)' = TableAt(l, v)
    <2>1. ASSUME NEW l \in 0 .. 2
          PROVE  TableAt(l, v) # None => mem'[TableAt(l, v)] = mem[TableAt(l, v)]
      <3>1. l \in Level /\ l # 3
        BY DEF Level
      <3>2. TableAt(l, v) # None => TableAt(l, v) \in Page /\ TableAt(l, v) # walk.pgt
        BY <1>0, <1>1, <1>3, <3>1, TableAtOk, TableLevels, Zenon DEF Tables
      <3> QED BY <3>2, <1>5, Zenon
    <2>2. \A l \in 0 .. 2 : TableAt(l, v)' = TableAt(l, v)
                              => TableAt(l + 1, v)' = TableAt(l + 1, v)
      BY <2>1, WalkSteps, WalkStepsNext DEF Below
    <2>3. TableAt(0, v)' = TableAt(0, v)
      BY <1>6, WalkSteps, WalkStepsNext, Zenon
    <2>4. TableAt(1, v)' = TableAt(1, v)
      BY <2>2, <2>3
    <2>5. TableAt(2, v)' = TableAt(2, v)
      BY <2>2, <2>4
    <2>6. TableAt(3, v)' = TableAt(3, v)
      BY <2>2, <2>5
    <2> QED BY <2>3, <2>4, <2>5, <2>6 DEF Level
  <1>9. ASSUME NEW v \in Ipa, v = walk.va
        PROVE  Translate(v) = None /\ Translate(v)' = walk.pa
    <2>1. TableAt(3, v)' = walk.pgt /\ TableAt(3, v) = walk.pgt /\ PIdx(3, v) = i
      BY <1>1, <1>2, <1>8, <1>9, Zenon DEF i
    <2>2. Translate(v) = None
      BY <2>1, <1>4, TranslateIs, Zenon
    <2>3. Translate(v)' = walk.pa
      BY <2>1, <1>2, <1>5, WalkStepsNext DEF Word
    <2> QED BY <2>2, <2>3, Zenon
  <1>10. ASSUME NEW v \in Ipa, v # walk.va
         PROVE  Translate(v)' = Translate(v)
    <2>1. TableAt(3, v)' = TableAt(3, v) /\ TableAt(3, v) \in Tables(3) \cup {None}
      BY <1>0, <1>1, <1>8, TableAtOk, Zenon
    <2>2. CASE TableAt(3, v) = None
      BY <2>1, <2>2, TranslateIs, WalkStepsNext, Zenon
    <2>3. CASE TableAt(3, v) # None
      <3>1. ~(TableAt(3, v) = walk.pgt /\ PIdx(3, v) = i)
        BY <1>0, <1>1, <1>2, <1>10, OneWalk, Zenon DEF i
      <3>2. PIdx(3, v) \in Slot /\ TableAt(3, v) \in Page
        BY <1>1, <2>1, <2>3, PIdxInSlot, Layout, Zenon DEF Tables
      <3>3. mem'[TableAt(3, v)][PIdx(3, v)] = mem[TableAt(3, v)][PIdx(3, v)]
        BY <1>5, <3>1, <3>2, Zenon
      <3> QED BY <2>1, <3>3, TranslateIs, WalkStepsNext, Zenon
    <2> QED BY <2>2, <2>3, Zenon
  <1>11. \A l \in Level : Tables(l)' = Tables(l)
    BY <1>6, Zenon DEF Tables
  <1>12. AnyTable' = AnyTable /\ AnyTable \subseteq Page
    BY <1>11 DEF AnyTable, Tables
  <1>13. \/ walk.pa = Uart
         \/ /\ walk.pa \in Page /\ use[walk.pa] = "guest"
            /\ \A q \in AnyTable, s \in Slot : Linked(q, s) => mem[q][s].n # walk.pa
    BY <1>0, Zenon DEF WalkOk, MapLeaf
  <1>14. EntriesOk'
    <2> SUFFICES ASSUME NEW l \in Level, NEW q \in Tables(l), NEW s \in Slot
                 PROVE  EntryOk(l, q, s)'
      BY <1>11, Zenon DEF EntriesOk
    <2>1. q \in Page
      BY Zenon DEF Tables
    <2>2. CASE q = walk.pgt /\ s = i
      <3>1. l = 3
        BY <1>1, <1>3, <2>2, TableLevels, Zenon DEF Tables
      <3> QED BY <3>1, <2>2, <1>5, <1>6, <1>13 DEF EntryOk, Word
    <2>3. CASE ~(q = walk.pgt /\ s = i)
      <3>1. mem'[q][s] = mem[q][s] /\ EntryOk(l, q, s)
        BY <2>1, <2>3, <1>0, <1>5, Zenon DEF EntriesOk
      <3>2. l < 3 => Tables(l + 1)' = Tables(l + 1)
        BY <1>11 DEF Level
      <3> QED BY <3>1, <3>2, <1>6, Zenon DEF EntryOk
    <2> QED BY <2>2, <2>3, Zenon
  <1>15. LinkedOnce'
    <2>1. \A q \in AnyTable, s \in Slot : Linked(q, s)' =>
            \/ q = walk.pgt /\ s = i /\ mem'[q][s].n = walk.pa
            \/ Linked(q, s) /\ mem'[q][s] = mem[q][s]
      BY <1>5, <1>12 DEF Linked, Word
    <2> SUFFICES ASSUME NEW q \in AnyTable, NEW r \in AnyTable, NEW s \in Slot, NEW t \in Slot,
                        Linked(q, s)', Linked(r, t)', mem'[q][s].n = mem'[r][t].n,
                        mem'[q][s].n \in Page
                 PROVE  q = r /\ s = t
      BY <1>12 DEF LinkedOnce
    <2> QED BY <1>0, <1>13, <2>1, Layout DEF LinkedOnce
  <1>16. \A q \in Page : use[q] # Table(3) => mem'[q] = mem[q]
    BY <1>3, <1>5, Zenon DEF Tables
  <1> QED BY <1>7, <1>8, <1>9, <1>10, <1>14, <1>15, <1>16, Zenon
-----------------------------------------------------------------------------
(* TreeInv is inductive                                                    *)

\* A step that changes no translation.
SameMap == \A v \in Ipa : Translate(v)' = Translate(v)

\* pagemap writes the entry pagewalk found for it.
LEMMA MapLeafKeeps ==
  ASSUME TreeInv, MapLeaf
  PROVE  TreeInv'
  <1>0. TypeOK /\ FreeIsZero /\ RootOk /\ WalkOk
    BY Zenon DEF TreeInv
  <1>1. EntriesOk' /\ LinkedOnce' /\ mem' \in [Page -> [Slot -> MemWord]]
    BY LinkLeaf, Zenon
  <1>2. walk.ret \in {"image", "bss", "ram", "virtio"}
    BY <1>0, Zenon DEF WalkOk, MapLeaf, TypeOK, PageWalk
  <1>3. TypeOK'
    BY <1>0, <1>1, <1>2, Zenon DEF TypeOK, MapLeaf
  <1>4. FreeIsZero'
    <2>1. \A q \in Page : use[q] = "free" => mem'[q] = mem[q]
      <3>1. Table(3) # "free"
        BY TableNames, Zenon
      <3> QED BY <3>1, LinkLeaf, Zenon
    <2>2. use' = use /\ NewPage' = NewPage
      BY Zenon DEF MapLeaf, NewPage
    <2> QED BY <1>0, <2>1, <2>2 DEF FreeIsZero, Zero, Word
  <1>5. RootOk'
    BY <1>0, <1>2, Zenon DEF RootOk, MapLeaf, Tables
  <1>6. WalkOk'
    BY <1>2, Zenon DEF WalkOk, MapLeaf
  <1> QED BY <1>1, <1>3, <1>4, <1>5, <1>6, Zenon DEF TreeInv

\* pagewalk goes down one level.
LEMMA WalkDownKeeps ==
  ASSUME TreeInv, WalkDown
  PROVE  TreeInv' /\ SameMap
  <1>0. TypeOK /\ FreeIsZero /\ EntriesOk /\ LinkedOnce /\ RootOk /\ WalkOk
    BY Zenon DEF TreeInv
  <1>1. /\ \A l \in Level : Tables(l)' = Tables(l)
        /\ AnyTable' = AnyTable
        /\ EntriesOk' /\ LinkedOnce' /\ SameMap
        /\ \A v \in Ipa : \A l \in Level : TableAt(l, v)' = TableAt(l, v)
    <2>1. root' = root /\ use' = use /\ mem' = mem
      BY Zenon DEF WalkDown
    <2> QED BY <1>0, <2>1, Frame, Zenon DEF SameMap
  <1>2. walk \in PageWalk /\ walk.level \in 0 .. 2 /\ walk.va \in Ipa
    BY <1>0 DEF TypeOK, WalkDown, PageWalk
  <1>3. PICK l \in 0 .. 2, v \in Ipa : l = walk.level /\ v = walk.va
    BY <1>2, Zenon
  <1>4. l \in Level /\ l + 1 \in Level /\ PIdx(l, v) \in Slot
    BY PIdxInSlot, Layout DEF Level
  <1>5. walk.pgt = TableAt(l, v) /\ walk.pgt # None
    BY <1>0, <1>3, <1>4, Zenon DEF WalkOk, WalkDown
  <1>6. Pte.n = TableAt(l + 1, v) /\ Pte.n \in Page
    <2>1. TableAt(l + 1, v) = Pte.n
      BY <1>3, <1>5, WalkSteps, Zenon DEF Pte, WalkDown, Below
    <2>2. walk.pgt \in Tables(l)
      BY <1>0, <1>4, <1>5, TableAtOk, Zenon
    <2>3. EntryOk(l, walk.pgt, PIdx(l, v))
      BY <1>0, <1>4, <2>2, Zenon DEF EntriesOk
    <2>4. Pte.n \in Tables(l + 1)
      BY <1>3, <2>3, Zenon DEF EntryOk, Pte, WalkDown
    <2> QED BY <2>1, <2>4, Zenon DEF Tables
  <1>7. TypeOK'
    <2>1. walk' \in PageWalk
      BY <1>2, <1>6, PageWalkDown, Zenon DEF WalkDown
    <2> QED BY <1>0, <2>1, Zenon DEF TypeOK, WalkDown
  <1>8. FreeIsZero'
    BY <1>0, Zenon DEF FreeIsZero, WalkDown, NewPage
  <1>9. RootOk'
    BY <1>0, Zenon DEF RootOk, WalkDown, Tables
  <1>10. WalkOk'
    <2>1. /\ walk'.pgt = Pte.n /\ walk'.level = l + 1 /\ walk'.va = v
          /\ walk'.pa = walk.pa /\ walk'.ret = walk.ret
      BY <1>2, <1>3, Zenon DEF WalkDown, PageWalk
    <2>2. \A m \in Level, w \in Ipa :
              m = walk'.level /\ w = walk'.va => walk'.pgt = TableAt(m, w)' /\ walk'.pgt # None
      BY <1>1, <1>4, <1>6, <2>1, Layout
    <2>3. \A q, s : Linked(q, s)' = Linked(q, s) /\ mem' = mem /\ use' = use
      BY Zenon DEF Linked, WalkDown
    <2>4. /\ walk.va \in Ram \cup {Uart} /\ walk.ret # "none"
          /\ \/ walk.pa = Uart /\ walk.va = Uart
             \/ /\ walk.pa \in Page /\ use[walk.pa] = "guest"
                /\ \A q \in AnyTable, s \in Slot : Linked(q, s) => mem[q][s].n # walk.pa
      BY <1>0, Zenon DEF WalkOk, WalkDown
    <2> QED BY <1>1, <1>3, <2>1, <2>2, <2>3, <2>4, Zenon DEF WalkOk
  <1> QED BY <1>1, <1>7, <1>8, <1>9, <1>10, Zenon DEF TreeInv

\* A page for the guest: nothing points to it until pagemap has run.
LEMMA GuestPageKeeps ==
  ASSUME TreeInv, Alloc("guest"), cfg' = cfg, root' = root, mmio_list' = mmio_list, p' \in Nat,
         pc \in {"image", "bss", "ram"}, NEW va \in Ram, NEW ret \in {"image", "bss", "ram"},
         PageMap(va, NewPage, ret),
         NEW c \in [Slot -> MemWord], mem' = [mem EXCEPT ![NewPage] = c]
  PROVE  TreeInv' /\ SameMap
  <1>0. TypeOK /\ FreeIsZero /\ EntriesOk /\ LinkedOnce /\ RootOk /\ WalkOk
    BY Zenon DEF TreeInv
  <1>1. NewPage \in Page /\ NewPage \notin AnyTable /\ use[NewPage] = "free" /\ AnyTable \subseteq Page
    BY <1>0, NewPageOk, Zenon DEF Alloc, AnyTable, Tables
  <1>2. mem' \in [Page -> [Slot -> MemWord]] /\ \A q \in Page : q # NewPage => mem'[q] = mem[q]
    BY <1>0, <1>1, Zenon DEF TypeOK
  <1>3. /\ FreeIsZero' /\ nalloc' \in 0 .. cfg'.total /\ use' \in [Page -> Use]
        /\ use'[NewPage] = "guest" /\ \A q \in Page : q # NewPage => use'[q] = use[q]
    <2>1. "guest" \in Use
      BY Zenon DEF Use
    <2>2. \A q \in Page : q > NewPage => mem'[q] = mem[q]
      BY <1>1, <1>2, Layout
    <2> QED BY <1>0, <2>1, <2>2, AllocOk, Zenon
  <1>4. /\ \A l \in Level : Tables(l)' = Tables(l)
        /\ AnyTable' = AnyTable
        /\ EntriesOk' /\ LinkedOnce' /\ SameMap
        /\ \A v \in Ipa : \A l \in Level : TableAt(l, v)' = TableAt(l, v)
    <2>1. \A q \in AnyTable : mem'[q] = mem[q]
      BY <1>1, <1>2, Zenon
    <2>2. \A q \in Page : \/ use'[q] = use[q]
                          \/ use[q] = "free" /\ use'[q] \in {"stack", "guest", "spis"}
      BY <1>1, <1>3, Zenon
    <2> QED BY <1>0, <2>1, <2>2, Frame, Zenon DEF SameMap
  <1>5. root # None /\ pc' = "walk"
        /\ walk' = [va |-> va, pa |-> NewPage, pgt |-> root, level |-> 0, ret |-> ret]
    BY <1>0, Zenon DEF RootOk, PageMap
  <1>6. TypeOK'
    <2>1. walk' \in PageWalk
      BY <1>0, <1>1, <1>5, Layout DEF PageWalk, TypeOK
    <2> QED BY <1>0, <1>2, <1>3, <1>5, <2>1, Zenon DEF TypeOK
  <1>7. RootOk'
    <2>1. 0 \in Level
      BY DEF Level
    <2> QED BY <1>0, <1>4, <1>5, <2>1, Zenon DEF RootOk
  <1>8. WalkOk'
    <2>1. \A m \in Level, w \in Ipa :
              m = walk'.level /\ w = walk'.va => walk'.pgt = TableAt(m, w)' /\ walk'.pgt # None
      BY <1>5, WalkStepsNext, Zenon
    <2>2. \A q \in AnyTable, s \in Slot : Linked(q, s)' => mem'[q][s].n # NewPage
      <3>1. \A q \in AnyTable, s \in Slot : Linked(q, s) => mem[q][s].n # NewPage
        BY <1>0, <1>1, LinkedUsed, Zenon
      <3> QED BY <3>1, <1>1, <1>2, Zenon DEF Linked
    <2> QED BY <1>1, <1>3, <1>4, <1>5, <2>1, <2>2, Zenon DEF WalkOk
  <1> QED BY <1>3, <1>4, <1>6, <1>7, <1>8, Zenon DEF TreeInv

\* The three loops over the guest's memory.
LEMMA LoopPageKeeps ==
  ASSUME TreeInv, ImagePage \/ BssPage \/ RamPage
  PROVE  TreeInv' /\ SameMap
  <1>0. TypeOK /\ FreeIsZero
    BY Zenon DEF TreeInv
  <1>1. /\ cfg' = cfg /\ root' = root /\ mmio_list' = mmio_list /\ pc \in {"image", "bss", "ram"}
        /\ Alloc("guest") /\ p' = p + Fanout
    BY Zenon DEF ImagePage, BssPage, RamPage
  <1>2. p' \in Nat
    BY <1>0, <1>1, Layout DEF TypeOK
  <1>3. p \in 0 .. MaxRam - 1
    <2>1. p < cfg.filesz \/ p < cfg.memsize \/ p < cfg.ramsize
      BY Zenon DEF ImagePage, BssPage, RamPage
    <2>2. cfg.filesz <= MaxRam /\ cfg.memsize <= MaxRam /\ cfg.ramsize <= MaxRam
          /\ cfg.filesz \in Nat /\ cfg.memsize \in Nat /\ cfg.ramsize \in Nat /\ p \in Nat
      BY <1>0, LayoutAssumption DEF TypeOK
    <2> QED BY <2>1, <2>2, LayoutAssumption
  <1>4. Entry + p \div Fanout \in Ram
    BY <1>3, Zenon DEF Ram
  <1>5. NewPage \in Page /\ mem \in [Page -> [Slot -> MemWord]] /\ p \in Nat
    BY <1>0, <1>1, NewPageOk, Zenon DEF Alloc, TypeOK
  <1>6. CASE ImagePage
    <2>1. CopyImage \in [Slot -> MemWord]
      <3>1. \A s \in Slot : Word("image", p + s) \in MemWord
        BY <1>5, Layout DEF Word, MemWord
      <3> QED BY <1>5, <3>1, Zenon DEF CopyImage
    <2>2. mem' = [mem EXCEPT ![NewPage] = CopyImage]
          /\ PageMap(Entry + p \div Fanout, NewPage, "image")
      BY <1>6, Zenon DEF ImagePage
    <2> HIDE DEF CopyImage
    <2> QED BY <1>1, <1>2, <1>4, <2>1, <2>2, GuestPageKeeps, Zenon
  <1>7. CASE BssPage
    <2>1. [s \in Slot |-> Zero] \in [Slot -> MemWord]
      BY DEF Zero, Word, MemWord
    <2>2. mem' = [mem EXCEPT ![NewPage] = [s \in Slot |-> Zero]]
          /\ PageMap(Entry + p \div Fanout, NewPage, "bss")
      BY <1>7, Zenon DEF BssPage
    <2> QED BY <1>1, <1>2, <1>4, <2>1, <2>2, GuestPageKeeps, Zenon
  <1>8. CASE RamPage
    <2>1. mem[NewPage] \in [Slot -> MemWord]
      BY <1>5, Zenon
    <2>2. mem' = [mem EXCEPT ![NewPage] = mem[NewPage]]
          /\ PageMap(Entry + p \div Fanout, NewPage, "ram")
      BY <1>8, <1>5, Zenon DEF RamPage
    <2> QED BY <1>1, <1>2, <1>4, <2>1, <2>2, GuestPageKeeps, Zenon
  <1> QED BY <1>6, <1>7, <1>8, Zenon

\* A step that only moves on.
LEMMA QuietKeeps ==
  ASSUME TreeInv, UNCHANGED <<cfg, nalloc, use, mem, root, p, walk>>, mmio_list' \subseteq Regions,
         pc' \in {"stacks", "root", "image", "bss", "ram", "uart", "virtio", "spis",
                  "gicd", "gicr", "ready", "guest", "hang", "panic"},
         pc' \in {"image", "bss", "ram", "uart"} => root # None,
         pc' \in {"stacks", "root"} => root = None
  PROVE  TreeInv' /\ SameMap
  <1>0. TypeOK /\ FreeIsZero /\ EntriesOk /\ LinkedOnce /\ RootOk
    BY Zenon DEF TreeInv
  <1>1. EntriesOk' /\ LinkedOnce' /\ SameMap
    BY <1>0, Frame, Zenon DEF SameMap
  <1>2. TypeOK'
    BY <1>0, Zenon DEF TypeOK
  <1>3. FreeIsZero'
    BY <1>0, Zenon DEF FreeIsZero, NewPage
  <1>4. RootOk'
    BY <1>0, Zenon DEF RootOk, Tables
  <1>5. WalkOk'
    BY Zenon DEF WalkOk
  <1> QED BY <1>1, <1>2, <1>3, <1>4, <1>5, Zenon DEF TreeInv

\* secondary_stacks_init and new_vgic take a page that is no part of the tree.
LEMMA OtherPageKeeps ==
  ASSUME TreeInv, NEW u \in {"stack", "spis"}, Alloc(u), UNCHANGED <<cfg, root, walk, mmio_list>>,
         p' \in Nat, pc' \in {"stacks", "gicd"}, pc' = "stacks" => pc = "stacks",
         mem' \in [Page -> [Slot -> MemWord]], \A q \in Page : q # NewPage => mem'[q] = mem[q]
  PROVE  TreeInv' /\ SameMap
  <1>0. TypeOK /\ FreeIsZero /\ EntriesOk /\ LinkedOnce /\ RootOk
    BY Zenon DEF TreeInv
  <1>1. NewPage \in Page /\ NewPage \notin AnyTable /\ use[NewPage] = "free" /\ AnyTable \subseteq Page
    BY <1>0, NewPageOk, Zenon DEF Alloc, AnyTable, Tables
  <1>2. /\ FreeIsZero' /\ nalloc' \in 0 .. cfg'.total /\ use' \in [Page -> Use]
        /\ use'[NewPage] = u /\ \A q \in Page : q # NewPage => use'[q] = use[q]
    <2>1. u \in Use
      BY Zenon DEF Use
    <2>2. \A q \in Page : q > NewPage => mem'[q] = mem[q]
      <3>1. Page \subseteq Nat
        BY Layout, Zenon
      <3>2. \A q \in Page : q > NewPage => q # NewPage
        BY <3>1, <1>1
      <3> QED BY <3>2, Zenon
    <2> QED BY <1>0, <2>1, <2>2, AllocOk, Zenon
  <1>3. (\A l \in Level : Tables(l)' = Tables(l)) /\ EntriesOk' /\ LinkedOnce' /\ SameMap
    <2>1. \A q \in AnyTable : mem'[q] = mem[q]
      BY <1>1, Zenon
    <2>2. \A q \in Page : \/ use'[q] = use[q]
                          \/ use[q] = "free" /\ use'[q] \in {"stack", "guest", "spis"}
      BY <1>1, <1>2, Zenon
    <2> QED BY <1>0, <2>1, <2>2, Frame, Zenon DEF SameMap
  <1>4. TypeOK'
    BY <1>0, <1>2, Zenon DEF TypeOK
  <1>5. RootOk'
    <2>1. 0 \in Level
      BY DEF Level
    <2> QED BY <1>0, <1>3, <2>1, Zenon DEF RootOk
  <1>6. WalkOk'
    BY Zenon DEF WalkOk
  <1> QED BY <1>2, <1>3, <1>4, <1>5, <1>6, Zenon DEF TreeInv

\* secondary_stacks_init allocates the stack of a CPU.
LEMMA SecondaryStackKeeps ==
  ASSUME TreeInv, SecondaryStack
  PROVE  TreeInv' /\ SameMap
  <1>0. TypeOK /\ FreeIsZero
    BY Zenon DEF TreeInv
  <1>1. NewPage \in Page /\ 0 \in Slot /\ p \in Nat
    BY <1>0, NewPageOk, Layout, Zenon DEF SecondaryStack, Alloc, TypeOK
  <1>2. Word("magic", p) \in MemWord
    BY <1>1 DEF Word, MemWord
  <1>3. mem' \in [Page -> [Slot -> MemWord]] /\ \A q \in Page : q # NewPage => mem'[q] = mem[q]
    BY <1>0, <1>1, <1>2, Zenon DEF SecondaryStack, TypeOK
  <1>4. p' \in Nat /\ pc = "stacks" /\ pc' = "stacks" /\ Alloc("stack")
        /\ UNCHANGED <<cfg, root, walk, mmio_list>>
    BY <1>1 DEF SecondaryStack
  <1> QED BY <1>3, <1>4, OtherPageKeeps, Zenon

\* vgic_new allocates the array of SPIs.
LEMMA AllocSpisKeeps ==
  ASSUME TreeInv, AllocSpis
  PROVE  TreeInv' /\ SameMap
  <1>0. TypeOK
    BY Zenon DEF TreeInv
  <1>1. mem' = mem /\ mem \in [Page -> [Slot -> MemWord]] /\ p' \in Nat /\ pc' = "gicd"
        /\ UNCHANGED <<cfg, root, walk, mmio_list, p>> /\ mmio_list \subseteq Regions
    BY <1>0, Zenon DEF AllocSpis, TypeOK
  <1>2. CASE Alloc("spis")
    <2>1. \A q \in Page : q # NewPage => mem'[q] = mem[q]
      BY <1>1, Zenon
    <2>2. mem' \in [Page -> [Slot -> MemWord]]
      BY <1>1, Zenon
    <2> QED BY <1>1, <1>2, <2>1, <2>2, OtherPageKeeps, Zenon
  <1>3. CASE UNCHANGED <<nalloc, use>>
    BY <1>1, <1>3, QuietKeeps, Zenon
  <1> QED BY <1>2, <1>3, Zenon DEF AllocSpis

\* create_vm allocates stage2_pt.
LEMMA AllocRootKeeps ==
  ASSUME TreeInv, AllocRoot
  PROVE  TreeInv' /\ SameMap
  <1>0. TypeOK /\ FreeIsZero /\ EntriesOk /\ LinkedOnce /\ RootOk
    BY Zenon DEF TreeInv
  <1>1. NewPage \in Page /\ NewPage # None /\ \A s \in Slot : mem[NewPage][s] = Zero
    BY <1>0, NewPageOk, Layout, Zenon DEF AllocRoot, Alloc
  <1>2. root = None /\ root' = NewPage /\ mem' = mem /\ 0 \in Level
    BY <1>0 DEF RootOk, AllocRoot, Level
  <1>3. /\ FreeIsZero' /\ nalloc' \in 0 .. cfg'.total /\ use' \in [Page -> Use]
        /\ use'[NewPage] = Table(0) /\ \A q \in Page : q # NewPage => use'[q] = use[q]
    <2>1. Table(0) \in Use
      BY <1>2, TableLevels, Zenon
    <2> QED BY <1>0, <1>2, <2>1, AllocOk, Zenon DEF AllocRoot
  <1>4. Tables(0) = {} /\ Tables(0)' = {NewPage} /\ \A l \in Level : l # 0 => Tables(l)' = Tables(l)
    <2>1. Tables(0) = {}
      BY <1>0, <1>2, Layout, Zenon DEF RootOk, Tables
    <2>2. \A q \in Page : q \in Tables(0)' <=> q = NewPage
      BY <1>1, <1>3, <2>1, Zenon DEF Tables
    <2>3. ASSUME NEW l \in Level, l # 0
          PROVE  Tables(l)' = Tables(l)
      <3>1. use[NewPage] = "free"
        BY <1>0, NewPageOk, Zenon DEF AllocRoot, Alloc
      <3>2. Table(l) # Table(0) /\ Table(l) # "free"
        BY <1>2, <2>3, TableLevels, Zenon
      <3> QED BY <1>3, <3>1, <3>2, Zenon DEF Tables
    <2> QED BY <1>1, <2>1, <2>2, <2>3, Zenon DEF Tables
  <1>5. \A q \in AnyTable' : q \in AnyTable \/ q = NewPage
    BY <1>4, Zenon DEF AnyTable
  <1>6. EntriesOk'
    <2> SUFFICES ASSUME NEW l \in Level, NEW q \in Tables(l)', NEW s \in Slot
                 PROVE  EntryOk(l, q, s)'
      BY Zenon DEF EntriesOk
    <2>1. CASE l = 0
      BY <2>1, <1>1, <1>2, <1>4 DEF EntryOk, Zero, Word
    <2>2. CASE l # 0
      <3>1. EntryOk(l, q, s)
        BY <2>2, <1>0, <1>4, Zenon DEF EntriesOk
      <3>2. l < 3 => Tables(l + 1)' = Tables(l + 1)
        BY <1>4 DEF Level
      <3>3. \A r \in Page : use[r] = "guest" => use'[r] = "guest"
        BY <1>0, <1>3, NewPageOk, Zenon DEF AllocRoot, Alloc
      <3> QED BY <1>2, <3>1, <3>2, <3>3, Zenon DEF EntryOk
    <2> QED BY <2>1, <2>2, Zenon
  <1>7. LinkedOnce'
    <2>1. \A s \in Slot : ~Linked(NewPage, s)
      BY <1>1 DEF Linked, Zero, Word
    <2>2. \A q \in AnyTable', s \in Slot : Linked(q, s)' => q \in AnyTable /\ Linked(q, s)
      BY <1>2, <1>5, <2>1, Zenon DEF Linked
    <2> QED BY <1>0, <1>2, <2>2 DEF LinkedOnce
  <1>8. SameMap
    <2> SUFFICES ASSUME NEW v \in Ipa
                 PROVE  Translate(v) = None /\ Translate(v)' = None
      BY Zenon DEF SameMap
    <2>1. TableAt(0, v) = None /\ TableAt(0, v)' = NewPage /\ PIdx(0, v) \in Slot
      BY <1>2, WalkSteps, WalkStepsNext, PIdxInSlot, Layout, Zenon
    <2>2. TableAt(1, v) = None /\ TableAt(1, v)' = None
      <3>1. mem'[NewPage][PIdx(0, v)].kind = "zero"
        BY <1>1, <1>2, <2>1 DEF Zero, Word
      <3>2. /\ TableAt(0 + 1, v) = Below(TableAt(0, v), 0, v)
            /\ TableAt(0 + 1, v)' =
                  IF TableAt(0, v)' # None /\ mem'[TableAt(0, v)'][PIdx(0, v)].kind = "table"
                  THEN mem'[TableAt(0, v)'][PIdx(0, v)].n ELSE None
        <4>1. 0 \in 0 .. 2
          OBVIOUS
        <4> QED BY <4>1, WalkSteps, WalkStepsNext, Zenon
      <3> QED BY <2>1, <3>1, <3>2 DEF Below
    <2>3. \A l \in 0 .. 2 : TableAt(l, v) = None /\ TableAt(l, v)' = None
                              => TableAt(l + 1, v) = None /\ TableAt(l + 1, v)' = None
      BY WalkSteps, WalkStepsNext, Zenon DEF Below
    <2>4. TableAt(2, v) = None /\ TableAt(2, v)' = None
      BY <2>2, <2>3
    <2>5. TableAt(3, v) = None /\ TableAt(3, v)' = None
      BY <2>4, <2>3
    <2> QED BY <2>5, TranslateIs, WalkStepsNext, Zenon
  <1>9. TypeOK'
    BY <1>0, <1>1, <1>2, <1>3, Zenon DEF TypeOK, AllocRoot
  <1>10. RootOk'
    BY <1>1, <1>2, <1>4, Zenon DEF RootOk, AllocRoot
  <1>11. WalkOk'
    BY Zenon DEF WalkOk, AllocRoot
  <1> QED BY <1>3, <1>6, <1>7, <1>8, <1>9, <1>10, <1>11, Zenon DEF TreeInv

\* pagemap of the UART's page.
LEMMA MapUartKeeps ==
  ASSUME TreeInv, MapUart
  PROVE  TreeInv' /\ SameMap
  <1>0. TypeOK /\ FreeIsZero /\ EntriesOk /\ LinkedOnce /\ RootOk
    BY Zenon DEF TreeInv
  <1>1. UNCHANGED <<cfg, nalloc, use, mem, p, root, mmio_list>> /\ root # None /\ pc' = "walk"
        /\ walk' = [va |-> Uart, pa |-> Uart, pgt |-> root, level |-> 0, ret |-> "virtio"]
    BY <1>0, Zenon DEF MapUart, PageMap, RootOk
  <1>2. EntriesOk' /\ LinkedOnce' /\ SameMap
    BY <1>0, <1>1, Frame, Zenon DEF SameMap
  <1>3. TypeOK'
    <2>1. walk' \in PageWalk
      BY <1>0, <1>1, Layout DEF PageWalk, TypeOK
    <2> QED BY <1>0, <1>1, <2>1, Zenon DEF TypeOK
  <1>4. FreeIsZero'
    BY <1>0, <1>1, Zenon DEF FreeIsZero, NewPage
  <1>5. RootOk'
    BY <1>0, <1>1, Zenon DEF RootOk, Tables
  <1>6. WalkOk'
    <2>1. \A m \in Level, w \in Ipa :
              m = walk'.level /\ w = walk'.va => walk'.pgt = TableAt(m, w)' /\ walk'.pgt # None
      BY <1>1, WalkStepsNext, Zenon
    <2> QED BY <1>1, <2>1, Zenon DEF WalkOk
  <1> QED BY <1>2, <1>3, <1>4, <1>5, <1>6, Zenon DEF TreeInv

\* What the guest can write is no table.
LEMMA GuestWriteKeeps ==
  ASSUME TreeInv, NEW va \in Ipa, GuestWrite(va)
  PROVE  TreeInv' /\ SameMap
  <1>0. TypeOK /\ FreeIsZero /\ EntriesOk /\ LinkedOnce /\ RootOk
    BY Zenon DEF TreeInv
  <1>1. PICK q \in Page : q = Translate(va)
    BY Zenon DEF GuestWrite
  <1>2. use[q] = "guest"
    BY <1>0, <1>1, TreeIsolates, Zenon DEF GuestIsolated
  <1>3. q \notin AnyTable
    BY <1>2, TableLevels, Zenon DEF AnyTable, Tables
  <1>4. PICK s \in Slot : mem' = [mem EXCEPT ![q][s] = Word("guest", 0)]
    BY <1>1, Zenon DEF GuestWrite
  <1>5. mem' \in [Page -> [Slot -> MemWord]] /\ \A r \in Page : r # q => mem'[r] = mem[r]
    <2>1. Word("guest", 0) \in MemWord
      BY DEF Word, MemWord
    <2> QED BY <1>0, <1>4, <2>1, Zenon DEF TypeOK
  <1>6. UNCHANGED <<cfg, pc, nalloc, use, p, root, walk, mmio_list>> /\ pc = "guest"
    BY Zenon DEF GuestWrite
  <1>7. EntriesOk' /\ LinkedOnce' /\ SameMap
    <2>1. \A r \in AnyTable : mem'[r] = mem[r]
      BY <1>3, <1>5, Zenon DEF AnyTable, Tables
    <2> QED BY <1>0, <1>6, <2>1, Frame, Zenon DEF SameMap
  <1>8. TypeOK'
    BY <1>0, <1>5, <1>6, Zenon DEF TypeOK
  <1>9. FreeIsZero'
    <2>1. \A r \in Page : r >= NewPage => r # q
      BY <1>0, <1>2, Zenon DEF FreeIsZero
    <2>2. NewPage' = NewPage
      BY <1>6, Zenon DEF NewPage
    <2> QED BY <1>0, <1>5, <1>6, <2>1, <2>2, Zenon DEF FreeIsZero, Zero, Word
  <1>10. RootOk'
    BY <1>0, <1>6, Zenon DEF RootOk, Tables
  <1>11. WalkOk'
    BY <1>6, Zenon DEF WalkOk
  <1> QED BY <1>7, <1>8, <1>9, <1>10, <1>11, Zenon DEF TreeInv

\* TreeInv at reset, and (with TreeInvStep below) ever after.
LEMMA TreeInvInit == Init => TreeInv
  <1> SUFFICES ASSUME Init
               PROVE  TreeInv
    OBVIOUS
  <1>1. \A q \in Page : use[q] = "free" /\ \A s \in Slot : mem[q][s] = Zero
    BY Zenon DEF Init
  <1>2. AnyTable = {} /\ \A l \in Level : Tables(l) = {}
    BY <1>1, TableLevels, Zenon DEF AnyTable, Tables
  <1>3. TypeOK
    <2>1. mem \in [Page -> [Slot -> MemWord]]
      BY DEF Init, Zero, Word, MemWord
    <2>2. walk \in PageWalk
      BY Layout DEF Init, NoWalk, PageWalk
    <2>3. use \in [Page -> Use]
      BY Zenon DEF Init, Use
    <2>4. nalloc \in 0 .. cfg.total
      BY Layout DEF Init
    <2> QED BY <2>1, <2>2, <2>3, <2>4, Zenon DEF Init, TypeOK
  <1>4. FreeIsZero
    BY <1>1, Zenon DEF FreeIsZero
  <1>5. EntriesOk /\ LinkedOnce
    BY <1>2, Zenon DEF EntriesOk, LinkedOnce
  <1>6. RootOk
    <2>1. 0 \in Level
      BY DEF Level
    <2> QED BY <1>2, <2>1, Zenon DEF Init, RootOk
  <1>7. WalkOk
    BY Zenon DEF Init, WalkOk
  <1> QED BY <1>3, <1>4, <1>5, <1>6, <1>7, Zenon DEF TreeInv

\* The steps that only move on.
LEMMA QuietSteps ==
  ASSUME TreeInv,
         \/ StacksDone \/ EnterGuest \/ Fault
         \/ LoopDone("image", cfg.filesz, "bss") \/ LoopDone("bss", cfg.memsize, "ram")
         \/ LoopDone("ram", cfg.ramsize, "uart")
         \/ Trap("virtio", Virtio, "spis") \/ Trap("gicd", Gicd, "gicr")
         \/ Trap("gicr", Gicr, "ready")
  PROVE  TreeInv' /\ SameMap
  <1>0. TypeOK /\ RootOk /\ mmio_list \subseteq Regions
    BY Zenon DEF TreeInv, TypeOK
  <1>1. CASE StacksDone
    <2>1. UNCHANGED <<cfg, nalloc, use, mem, root, p, walk>> /\ mmio_list' = mmio_list
          /\ pc' = "root" /\ root = None
      BY <1>0, <1>1, Zenon DEF StacksDone, RootOk
    <2> QED BY <1>0, <2>1, QuietKeeps, Zenon
  <1>2. CASE EnterGuest
    <2>1. UNCHANGED <<cfg, nalloc, use, mem, root, p, walk>> /\ mmio_list' = mmio_list
          /\ pc' = "guest"
      BY <1>2, Zenon DEF EnterGuest
    <2> QED BY <1>0, <2>1, QuietKeeps, Zenon
  <1>3. CASE Fault
    <2>1. UNCHANGED <<cfg, nalloc, use, mem, root, p, walk>> /\ mmio_list' = mmio_list
          /\ pc' \in {"hang", "panic"}
      BY <1>3, Zenon DEF Fault, BootFault, RootFault, LoopFault, WalkFault, AllocFault, Stopped, vars
    <2> QED BY <1>0, <2>1, QuietKeeps, Zenon
  <1>4. CASE \/ LoopDone("image", cfg.filesz, "bss") \/ LoopDone("bss", cfg.memsize, "ram")
             \/ LoopDone("ram", cfg.ramsize, "uart")
    <2>1. UNCHANGED <<cfg, nalloc, use, mem, root, p, walk>> /\ mmio_list' = mmio_list
          /\ pc' \in {"bss", "ram", "uart"} /\ root # None
      BY <1>0, <1>4, Zenon DEF LoopDone, RootOk
    <2> QED BY <1>0, <2>1, QuietKeeps, Zenon
  <1>5. CASE \/ Trap("virtio", Virtio, "spis") \/ Trap("gicd", Gicd, "gicr")
             \/ Trap("gicr", Gicr, "ready")
    <2>1. UNCHANGED <<cfg, nalloc, use, mem, root, p, walk>> /\ mmio_list' \subseteq Regions
          /\ pc' \in {"spis", "gicr", "ready"}
      BY <1>0, <1>5, Zenon DEF Trap, RegHandler, Regions
    <2> QED BY <2>1, QuietKeeps, Zenon
  <1> QED BY <1>1, <1>2, <1>3, <1>4, <1>5, Zenon

\* A step keeps the tree, and only the leaf pagemap writes changes a translation.
LEMMA TreeInvStep == TreeInv /\ [Next]_vars => TreeInv' /\ (SameMap \/ MapLeaf)
  <1> SUFFICES ASSUME TreeInv, [Next]_vars
               PROVE  TreeInv' /\ (SameMap \/ MapLeaf)
    OBVIOUS
  <1>1. CASE SecondaryStack
    BY <1>1, SecondaryStackKeeps, Zenon
  <1>2. CASE AllocRoot
    BY <1>2, AllocRootKeeps, Zenon
  <1>3. CASE ImagePage \/ BssPage \/ RamPage
    BY <1>3, LoopPageKeeps, Zenon
  <1>4. CASE WalkDown
    BY <1>4, WalkDownKeeps, Zenon
  <1>5. CASE WalkAlloc
    BY <1>5, WalkAllocKeeps, LinkTable, Zenon DEF SameMap
  <1>6. CASE MapLeaf
    BY <1>6, MapLeafKeeps, Zenon
  <1>7. CASE MapUart
    BY <1>7, MapUartKeeps, Zenon
  <1>8. CASE AllocSpis
    BY <1>8, AllocSpisKeeps, Zenon
  <1>9. CASE \/ StacksDone \/ EnterGuest \/ Fault
             \/ LoopDone("image", cfg.filesz, "bss") \/ LoopDone("bss", cfg.memsize, "ram")
             \/ LoopDone("ram", cfg.ramsize, "uart")
             \/ Trap("virtio", Virtio, "spis") \/ Trap("gicd", Gicd, "gicr")
             \/ Trap("gicr", Gicr, "ready")
    BY <1>9, QuietSteps, Zenon
  <1>10. ASSUME NEW va \in Ipa, GuestWrite(va)
         PROVE  TreeInv' /\ SameMap
    BY <1>10, GuestWriteKeeps, Zenon
  <1>11. CASE UNCHANGED vars
    <2>0. TypeOK /\ FreeIsZero /\ EntriesOk /\ LinkedOnce /\ RootOk /\ WalkOk
      BY Zenon DEF TreeInv
    <2>1. UNCHANGED <<cfg, pc, nalloc, use, mem, p, root, walk, mmio_list>>
      BY <1>11, Zenon DEF vars
    <2>2. /\ AnyTable' = AnyTable /\ EntriesOk' /\ LinkedOnce' /\ SameMap
          /\ \A v \in Ipa : \A l \in Level : TableAt(l, v)' = TableAt(l, v)
      BY <2>0, <2>1, Frame, Zenon DEF SameMap
    <2>3. TypeOK'
      BY <2>0, <2>1, Zenon DEF TypeOK
    <2>4. FreeIsZero'
      BY <2>0, <2>1, Zenon DEF FreeIsZero, NewPage
    <2>5. RootOk'
      BY <2>0, <2>1, Zenon DEF RootOk, Tables
    <2>6. WalkOk'
      BY <2>0, <2>1, <2>2, Zenon DEF WalkOk, Linked
    <2> QED BY <2>2, <2>3, <2>4, <2>5, <2>6, Zenon DEF TreeInv
  <1> QED BY <1>1, <1>2, <1>3, <1>4, <1>5, <1>6, <1>7, <1>8, <1>9, <1>10, <1>11, Zenon DEF Next, Boot

\* TreeInv holds throughout.
LEMMA TreeInvAlways == Spec => []TreeInv
  <1>1. TreeInv /\ [Next]_vars => TreeInv'
    BY TreeInvStep, Zenon
  <1> QED BY <1>1, TreeInvInit, PTL DEF Spec

-----------------------------------------------------------------------------
(* What follows                                                            *)

\* GuestIsolated: whatever the size of the guest and of the memory, the guest
\* reaches pages allocated for it only, each at one guest address; no
\* sequence of writes of the guest gets it at a table, an EL2 stack or the
\* vGIC's state.
THEOREM GuestIsolatedAlways == Spec => []GuestIsolated
  <1>1. TreeInv => GuestIsolated
    BY TreeIsolates, Zenon DEF TreeInv
  <1> QED BY <1>1, TreeInvAlways, PTL

\* No table, no translation.
LEMMA NothingMapped ==
  ASSUME root = None, NEW v
  PROVE  Translate(v) = None
  <1>1. TableAt(0, v) = None
    BY WalkSteps, Zenon
  <1>2. \A l \in 0 .. 2 : TableAt(l, v) = None => TableAt(l + 1, v) = None
    BY WalkSteps, Zenon DEF Below
  <1>3. TableAt(1, v) = None
    BY <1>1, <1>2
  <1>4. TableAt(2, v) = None
    BY <1>2, <1>3
  <1>5. TableAt(3, v) = None
    BY <1>2, <1>4
  <1> QED BY <1>5, TranslateIs, Zenon

\* A page pagemap is to map is fresh: no guest page translates to it.
LEMMA WalkedPageFresh ==
  ASSUME TreeInv, pc = "walk", walk.pa # Uart
  PROVE  walk.pa \in Page /\ \A v \in Ipa : Translate(v) # walk.pa
  <1>1. /\ walk.pa \in Page
        /\ \A q \in AnyTable, s \in Slot : Linked(q, s) => mem[q][s].n # walk.pa
    BY Zenon DEF TreeInv, WalkOk
  <1> SUFFICES ASSUME NEW v \in Ipa, Translate(v) = walk.pa
               PROVE  FALSE
    BY <1>1, Zenon
  <1>2. 3 \in Level /\ PIdx(3, v) \in Slot
    BY PIdxInSlot, Layout DEF Level
  <1>3. /\ TableAt(3, v) # None /\ mem[TableAt(3, v)][PIdx(3, v)].kind = "leaf"
        /\ mem[TableAt(3, v)][PIdx(3, v)].n = walk.pa
    BY <1>1, TranslateIs, Layout, Zenon
  <1>4. TableAt(3, v) \in AnyTable
    BY <1>2, <1>3, TableAtOk, Zenon DEF TreeInv, AnyTable
  <1> QED BY <1>1, <1>2, <1>3, <1>4, Zenon DEF Linked

\* ImplementsAddressMap: every step of building the tables, and every write of
\* the guest, gives one guest page that had none a page of its own (or the
\* UART its own address), or changes no translation at all.
THEOREM AddressMapRefined == Spec => ImplementsAddressMap
  <1>1. Init => Map!Init
    <2> SUFFICES ASSUME Init
                 PROVE  Map!Init
      OBVIOUS
    <2>1. \A v \in Ipa : Translate(v) = None
      BY NothingMapped, Zenon DEF Init
    <2> QED BY <2>1, Zenon DEF Map!Init
  <1>2. TreeInv /\ [Next]_vars => [Map!Next]_[v \in Ipa |-> Translate(v)]
    <2> SUFFICES ASSUME TreeInv, [Next]_vars
                 PROVE  \/ Map!Next
                        \/ SameMap
      BY Zenon DEF SameMap
    <2>1. CASE SameMap
      BY <2>1, Zenon
    <2>2. CASE MapLeaf
      <3>1. PICK i \in Ipa : i = walk.va
        BY <2>2, Zenon DEF TreeInv, TypeOK, PageWalk
      <3>2. /\ Translate(i) = None /\ Translate(i)' = walk.pa
            /\ \A v \in Ipa : v # i => Translate(v)' = Translate(v)
        BY <2>2, <3>1, LinkLeaf, Zenon
      <3>3. \/ walk.pa \in Page /\ \A v \in Ipa : Translate(v) # walk.pa
            \/ walk.pa = Uart /\ i = Uart
        <4>1. pc = "walk" /\ WalkOk
          BY <2>2, Zenon DEF MapLeaf, TreeInv
        <4>2. walk.pa = Uart => i = Uart
          BY <4>1, <3>1, Layout, Zenon DEF WalkOk
        <4> QED BY <4>1, <4>2, WalkedPageFresh, Zenon
      <3>4. Map!Map(i)
        BY <3>2, <3>3, Zenon DEF Map!Map, Map!Fresh
      <3> QED BY <3>4, Zenon DEF Map!Next
    <2> QED BY <2>1, <2>2, TreeInvStep, Zenon
  <1> QED BY <1>1, <1>2, TreeInvAlways, PTL DEF Spec, ImplementsAddressMap, Map!Spec

\* Nothing but the guest's RAM and the UART is mapped, and a region is in
\* mmio_list once s2_pt_trap has been called for it.
MappedOk == \A v \in Ipa : Translate(v) # None => v \in Ram \cup {Uart}

\* s2_pt_trap and vgic_new add the regions one after the other.
Registered ==
    /\ pc \in {"spis", "gicd", "gicr", "ready", "guest"} => Virtio \in mmio_list
    /\ pc \in {"gicr", "ready", "guest"} => Gicd \in mmio_list
    /\ pc \in {"ready", "guest"} => Gicr \in mmio_list

\* pagemap is called for the guest's RAM and for the UART only.
LEMMA MappedOkStep ==
  ASSUME TreeInv, MappedOk, [Next]_vars
  PROVE  MappedOk'
  <1>1. CASE SameMap
    BY <1>1, Zenon DEF MappedOk, SameMap, None
  <1>2. CASE MapLeaf
    <2>1. walk.va \in Ram \cup {Uart}
      BY <1>2, Zenon DEF TreeInv, WalkOk, MapLeaf
    <2> QED BY <1>2, <2>1, LinkLeaf, Zenon DEF MappedOk, None
  <1> QED BY <1>1, <1>2, TreeInvStep, Zenon

\* mmio_list only grows, in the order create_vm makes its calls.
LEMMA RegisteredStep ==
  ASSUME TreeInv, Registered, [Next]_vars
  PROVE  Registered'
  <1>1. CASE SecondaryStack \/ StacksDone \/ AllocRoot \/ ImagePage \/ BssPage \/ RamPage
             \/ WalkDown \/ WalkAlloc \/ MapUart \/ Fault
    <2>1. pc' \in {"stacks", "root", "image", "walk", "hang", "panic"}
      BY <1>1 DEF SecondaryStack, StacksDone, AllocRoot, ImagePage, BssPage, RamPage, WalkDown,
                  WalkAlloc, MapUart, PageMap, Fault, BootFault, RootFault, LoopFault, WalkFault,
                  AllocFault, Stopped, vars
    <2> QED BY <2>1, Zenon DEF Registered
  <1>2. CASE \/ LoopDone("image", cfg.filesz, "bss") \/ LoopDone("bss", cfg.memsize, "ram")
             \/ LoopDone("ram", cfg.ramsize, "uart")
    BY <1>2, Zenon DEF LoopDone, Registered
  <1>3. CASE MapLeaf
    <2>1. pc' \in {"none", "image", "bss", "ram", "virtio"}
      BY <1>3, Zenon DEF MapLeaf, TreeInv, TypeOK, PageWalk
    <2> QED BY <2>1, Zenon DEF Registered
  <1>4. CASE Trap("virtio", Virtio, "spis")
    BY <1>4, Zenon DEF Trap, RegHandler, Registered
  <1>5. CASE AllocSpis
    BY <1>5, Zenon DEF AllocSpis, Registered
  <1>6. CASE Trap("gicd", Gicd, "gicr")
    BY <1>6, Zenon DEF Trap, RegHandler, Registered
  <1>7. CASE Trap("gicr", Gicr, "ready")
    BY <1>7, Zenon DEF Trap, RegHandler, Registered
  <1>8. CASE EnterGuest
    BY <1>8, Zenon DEF EnterGuest, Registered
  <1>9. CASE UNCHANGED vars \/ \E va \in Ipa : GuestWrite(va)
    <2>1. pc' = pc /\ mmio_list' = mmio_list
      BY <1>9, Zenon DEF vars, GuestWrite
    <2> QED BY <2>1, Zenon DEF Registered
  <1> QED BY <1>1, <1>2, <1>3, <1>4, <1>5, <1>6, <1>7, <1>8, <1>9, Zenon DEF Next, Boot

\* TrapsUnmapped: when the guest runs, and whatever it has written, virtio,
\* GICD and GICR are registered with mmio_reg_handler, none of their pages is
\* mapped, and no page belongs to two of them.
THEOREM TrapsUnmappedAlways == Spec => []TrapsUnmapped
  <1>1. Init => MappedOk /\ Registered
    <2>1. Init => MappedOk
      BY NothingMapped, Zenon DEF MappedOk, Init
    <2>2. Init => Registered
      BY Zenon DEF Init, Registered
    <2> QED BY <2>1, <2>2, Zenon
  <1>2. TreeInv /\ MappedOk /\ Registered /\ [Next]_vars => MappedOk' /\ Registered'
    BY MappedOkStep, RegisteredStep, Zenon
  <1>3. TreeInv /\ MappedOk /\ Registered => TrapsUnmapped
    <2> SUFFICES ASSUME TreeInv, MappedOk, Registered, pc \in {"ready", "guest"}
                 PROVE  /\ mmio_list = Regions
                        /\ \A r \in Regions : \A v \in Covers(r) :
                              /\ Translate(v) = None
                              /\ \A s \in Regions : v \in Covers(s) => s = r
      BY Zenon DEF TrapsUnmapped
    <2>1. mmio_list = Regions
      BY Zenon DEF Registered, Regions, TreeInv, TypeOK
    <2>2. ASSUME NEW r \in Regions, NEW v \in Covers(r)
          PROVE  Translate(v) = None /\ \A s \in Regions : v \in Covers(s) => s = r
      <3>1. v \in Ipa \ (Ram \cup {Uart})
        BY RegionsApart, Zenon DEF Covers
      <3>2. ASSUME NEW s \in Regions, v \in Covers(s)
            PROVE  s = r
        <4>1. /\ r.base \in Int /\ r.size \in Int /\ s.base \in Int /\ s.size \in Int
              /\ r.base <= s.base /\ s.base < r.base + r.size => r = s
              /\ s.base <= r.base /\ r.base < s.base + s.size => s = r
          BY RegionsApart DEF Ipa
        <4> QED BY <2>2, <3>2, <4>1 DEF Covers
      <3> QED BY <3>1, <3>2, Zenon DEF MappedOk
    <2> QED BY <2>1, <2>2, Zenon
  <1> QED BY <1>1, <1>2, <1>3, TreeInvAlways, PTL DEF Spec
-----------------------------------------------------------------------------
(* The loops of create_vm                                                  *)

\* Word n of the guest's memory as it has to be when the guest starts.
GuestWord(n) == IF n < cfg.filesz THEN Word("image", n) ELSE Zero

\* The first k pages of the guest are mapped, and nothing else.
MapsFirst(k) ==
    /\ \A v \in Ipa : Translate(v) # None <=> \E j \in 0 .. k - 1 : v = Entry + j
    /\ \A j \in 0 .. k - 1 : Entry + j \in Ipa /\ Translate(Entry + j) \in Page

\* Page q holds page j of the guest, as far as the guest has words in it.
Holds(q, j) == \A s \in Slot : j * Fanout + s < cfg.memsize => mem[q][s] = GuestWord(j * Fanout + s)

\* The first k pages of the guest hold what they have to.
LoadedFirst(k) == \A j \in 0 .. k - 1 : \A q \in Page : q = Translate(Entry + j) => Holds(q, j)

\* How far the loop has come that runs at phase l: the next starts where it ends.
Phase(l) ==
    /\ l = "image" => p < cfg.filesz + Fanout
    /\ l = "bss" => cfg.filesz <= p /\ p < cfg.memsize + Fanout
    /\ l = "ram" => cfg.memsize <= p /\ p < cfg.ramsize + Fanout
    /\ l \in {"uart", "virtio"} => cfg.ramsize <= p /\ p < cfg.ramsize + Fanout

\* The loops of create_vm after k pages; page k + 1 is on its way while
\* pagewalk runs for it.
LoopInv(k) ==
    /\ pc \in {"image", "bss", "ram", "uart"} =>
          p = k * Fanout /\ MapsFirst(k) /\ LoadedFirst(k) /\ Phase(pc)
    /\ pc = "walk" =>
          /\ p = (IF walk.ret = "virtio" THEN k ELSE k + 1) * Fanout
          /\ MapsFirst(k) /\ LoadedFirst(k) /\ Phase(walk.ret)
          /\ walk.ret = "virtio" => walk.va = Uart /\ walk.pa = Uart
          /\ walk.ret # "virtio" => walk.va = Entry + k /\ walk.pa \in Page /\ Holds(walk.pa, k)

\* What the three loops leave: all of the guest's memory mapped, and in it
\* the image, then zeros.
MemoryReady ==
    /\ \A v \in Ipa : Translate(v) # None <=>
          v = Uart \/ \E n \in 0 .. cfg.ramsize - 1 : v = Entry + n \div Fanout
    /\ \A n \in 0 .. cfg.memsize - 1 : \E q \in Page :
          /\ Entry + n \div Fanout \in Ipa /\ q = Translate(Entry + n \div Fanout)
          /\ mem[q][n % Fanout] = GuestWord(n)

\* The inductive invariant for the image, beside TreeInv.
LoadInv ==
    /\ cfg.filesz <= cfg.memsize /\ cfg.memsize <= cfg.ramsize
    /\ \E k \in Nat : LoopInv(k)
    /\ pc \in {"virtio", "spis", "gicd", "gicr", "ready"} => MemoryReady

\* Before the guest runs, no step writes a page that was allocated for it.
LEMMA GuestPagesKept ==
  ASSUME TreeInv, Boot \/ Fault \/ UNCHANGED vars
  PROVE  cfg' = cfg /\ \A q \in Page : use[q] = "guest" => mem'[q] = mem[q]
  <1>0. TypeOK /\ FreeIsZero /\ mem \in [Page -> [Slot -> MemWord]]
    BY Zenon DEF TreeInv, TypeOK
  <1>1. CASE SecondaryStack \/ ImagePage \/ BssPage
    <2>1. NewPage \in Page /\ use[NewPage] = "free" /\ cfg' = cfg
      BY <1>0, <1>1, NewPageOk, Zenon DEF SecondaryStack, ImagePage, BssPage, Alloc
    <2>2. \A q \in Page : q # NewPage => mem'[q] = mem[q]
      BY <1>0, <1>1, <2>1, Zenon DEF SecondaryStack, ImagePage, BssPage
    <2> QED BY <2>1, <2>2, Zenon
  <1>2. CASE WalkAlloc
    <2>1. PICK l \in Level, v \in Ipa : l = walk.level /\ v = walk.va
      BY <1>0, Zenon DEF TypeOK, PageWalk, Level
    <2>2. walk.pgt = TableAt(l, v) /\ walk.pgt # None
      BY <1>2, <2>1, Zenon DEF TreeInv, WalkOk, WalkAlloc
    <2>3. walk.pgt \in Tables(l)
      BY <2>2, TableAtOk, Zenon DEF TreeInv
    <2>4. walk.pgt \in Page /\ use[walk.pgt] # "guest"
      BY <2>3, TableLevels, Zenon DEF Tables
    <2> QED BY <1>0, <1>2, <2>4, Zenon DEF WalkAlloc
  <1>3. CASE MapLeaf
    <2>1. Table(3) # "guest" /\ cfg' = cfg
      BY <1>3, TableNames, Zenon DEF MapLeaf
    <2> QED BY <1>3, <2>1, LinkLeaf, Zenon
  <1>4. CASE ~(SecondaryStack \/ ImagePage \/ BssPage \/ WalkAlloc \/ MapLeaf)
    <2>1. CASE Boot
      BY <1>4, <2>1 DEF Boot, StacksDone, AllocRoot, LoopDone, RamPage, WalkDown, MapUart, Trap,
                        AllocSpis, EnterGuest
    <2>2. CASE Fault
      BY <2>2, Zenon DEF Fault, BootFault, RootFault, LoopFault, WalkFault, AllocFault, Stopped, vars
    <2> QED BY <2>1, <2>2, Zenon DEF vars
  <1> QED BY <1>1, <1>2, <1>3, <1>4, Zenon

\* A step that maps nothing leaves the pages loaded so far.
LEMMA LoopFrame ==
  ASSUME TreeInv, SameMap, Boot \/ Fault \/ UNCHANGED vars, NEW k \in Nat
  PROVE  /\ MapsFirst(k) => MapsFirst(k)'
         /\ MapsFirst(k) /\ LoadedFirst(k) => LoadedFirst(k)'
         /\ \A q \in Page, j \in Nat : use[q] = "guest" /\ Holds(q, j) => Holds(q, j)'
  <1>1. cfg' = cfg /\ \A q \in Page : use[q] = "guest" => mem'[q] = mem[q]
    BY GuestPagesKept, Zenon
  <1>2. MapsFirst(k) => MapsFirst(k)'
    BY Zenon DEF SameMap, MapsFirst, None
  <1>3. \A q \in Page, j \in Nat : use[q] = "guest" /\ Holds(q, j) => Holds(q, j)'
    BY <1>1, Zenon DEF Holds, GuestWord, Zero, Word
  <1>4. ASSUME MapsFirst(k), LoadedFirst(k)
        PROVE  LoadedFirst(k)'
    <2> SUFFICES ASSUME NEW j \in 0 .. k - 1, NEW q \in Page, q = Translate(Entry + j)'
                 PROVE  Holds(q, j)'
      BY Zenon DEF LoadedFirst
    <2>1. Entry + j \in Ipa
      BY <1>4, Zenon DEF MapsFirst
    <2>2. q = Translate(Entry + j)
      BY <2>1, Zenon DEF SameMap
    <2>3. use[q] = "guest"
      BY <2>1, <2>2, TreeIsolates, Zenon DEF TreeInv, GuestIsolated
    <2> QED BY <1>3, <1>4, <2>2, <2>3 DEF LoadedFirst
  <1> QED BY <1>2, <1>3, <1>4, Zenon

\* Word n of the guest is word n % f of its page n \div f.
LEMMA WordOfPage ==
  ASSUME NEW f \in Nat \ {0}, NEW n \in Nat, NEW k \in Nat
  PROVE  /\ n \div f \in Nat /\ n % f \in 0 .. f - 1
         /\ \A q, r : q = n \div f /\ r = n % f => n = q * f + r
         /\ n < k * f => n \div f < k
         /\ (k * f) \div f = k
  <1>1. n \div f \in Nat /\ n % f \in 0 .. f - 1
    OBVIOUS
  <1>2. \A q \in Nat, r \in 0 .. f - 1 :
            (q * f + r) \div f = q /\ (q * f + r) % f = r /\ q * f + r \in Nat
    OBVIOUS
  <1>3. ASSUME NEW q, NEW r, q = n \div f, r = n % f
        PROVE  n = q * f + r
    <2>1. q \in Nat /\ r \in 0 .. f - 1 /\ q = n \div f /\ r = n % f
      BY <1>1, <1>3, Zenon
    <2>2. PICK m \in Nat : m = q * f + r
      BY <1>2, <2>1, Zenon
    <2>3. m \div f = n \div f /\ m % f = n % f
      BY <1>2, <2>1, <2>2, Zenon
    <2>4. m = n
      <3>1. \A a, b \in Nat : a % f = b % f /\ a \div f = b \div f => a = b
        BY SameDivMod, Zenon
      <3> QED BY <2>3, <3>1, Zenon
    <2> QED BY <2>2, <2>4, Zenon
  <1>4. n < k * f => n \div f < k
    OBVIOUS
  <1>5. (k * f) \div f = k
    OBVIOUS
  <1> QED BY <1>1, <1>3, <1>4, <1>5, Zenon

\* The sizes of the guest are numbers.
LEMMA Sizes ==
  ASSUME TypeOK
  PROVE  cfg.filesz \in Nat /\ cfg.memsize \in Nat /\ cfg.ramsize \in Nat /\ p \in Nat
  BY LayoutAssumption DEF TypeOK

\* A step of a loop fills a page with what the guest has to find in it.
LEMMA LoopPageLoads ==
  ASSUME TreeInv, LoadInv, ImagePage \/ BssPage \/ RamPage
  PROVE  LoadInv'
  <1>0. TypeOK /\ FreeIsZero /\ mem \in [Page -> [Slot -> MemWord]]
    BY Zenon DEF TreeInv, TypeOK
  <1>1. PICK k \in Nat : LoopInv(k)
    BY Zenon DEF LoadInv
  <1>2. /\ cfg' = cfg /\ pc \in {"image", "bss", "ram"} /\ Alloc("guest") /\ p' = p + Fanout
        /\ pc' = "walk" /\ walk'.va = Entry + p \div Fanout /\ walk'.pa = NewPage /\ walk'.ret = pc
    BY DEF ImagePage, BssPage, RamPage, PageMap
  <1>3. p = k * Fanout /\ MapsFirst(k) /\ LoadedFirst(k) /\ Phase(pc)
    BY <1>1, <1>2, Zenon DEF LoopInv
  <1>4. SameMap /\ (Boot \/ Fault \/ UNCHANGED vars)
    BY LoopPageKeeps, Zenon DEF Boot
  <1>5. MapsFirst(k)' /\ LoadedFirst(k)'
    BY <1>3, <1>4, LoopFrame, Zenon
  <1>6. NewPage \in Page /\ \A s \in Slot : mem[NewPage][s] = Zero
    BY <1>0, <1>2, NewPageOk, Zenon DEF Alloc
  <1>7. p \div Fanout = k /\ p' = (k + 1) * Fanout
    BY <1>2, <1>3, WordOfPage, Layout
  <1>8. /\ cfg.filesz \in Nat /\ cfg.memsize \in Nat /\ cfg.ramsize \in Nat /\ p \in Nat
        /\ cfg.filesz <= cfg.memsize /\ cfg.memsize <= cfg.ramsize
    BY <1>0, Sizes, Zenon DEF LoadInv
  <1>9. \A q \in Page : q = NewPage => Holds(q, k)'
    <2> SUFFICES ASSUME NEW s \in Slot, p + s < cfg.memsize
                 PROVE  mem'[NewPage][s] = GuestWord(p + s)
      BY <1>2, <1>3, Zenon DEF Holds, GuestWord, Zero, Word
    <2>1. CASE ImagePage
      <3>1. mem'[NewPage] = CopyImage
        BY <1>0, <1>6, <2>1, Zenon DEF ImagePage
      <3> QED BY <1>6, <3>1, Zenon DEF CopyImage, GuestWord
    <2>2. CASE BssPage
      <3>1. mem'[NewPage][s] = Zero
        BY <1>0, <1>6, <2>2, Zenon DEF BssPage
      <3>2. cfg.filesz <= p
        BY <1>3, <2>2, Zenon DEF BssPage, Phase
      <3>3. ~(p + s < cfg.filesz)
        BY <1>8, <3>2, Layout
      <3> QED BY <3>1, <3>3, Zenon DEF GuestWord
    <2>3. CASE RamPage
      <3>1. cfg.memsize <= p
        BY <1>3, <2>3, Zenon DEF RamPage, Phase
      <3> QED BY <1>8, <3>1, Layout
    <2> QED BY <2>1, <2>2, <2>3, Zenon
  <1>10. Phase(walk.ret)'
    <2>1. CASE ImagePage
      BY <1>2, <1>8, <2>1, Layout DEF ImagePage, Phase
    <2>2. CASE BssPage
      BY <1>2, <1>3, <1>8, <2>2, Layout DEF BssPage, Phase
    <2>3. CASE RamPage
      BY <1>2, <1>3, <1>8, <2>3, Layout DEF RamPage, Phase
    <2> QED BY <2>1, <2>2, <2>3, Zenon
  <1>11. LoopInv(k)'
    <2>1. walk'.ret # "virtio" /\ walk'.va = Entry + k /\ walk'.pa \in Page
      BY <1>2, <1>6, <1>7, Zenon
    <2>2. Holds(walk.pa, k)'
      BY <1>2, <1>6, <1>9, Zenon DEF Holds
    <2> QED BY <1>2, <1>5, <1>7, <1>10, <2>1, <2>2, Zenon DEF LoopInv
  <1> QED BY <1>2, <1>8, <1>11, Zenon DEF LoadInv

\* MemoryReady and the loops' progress in a step that changes no translation.
LEMMA ReadyFrame ==
  ASSUME TreeInv, SameMap, Boot \/ Fault \/ UNCHANGED vars, MemoryReady
  PROVE  MemoryReady'
  <1>1. cfg' = cfg /\ \A q \in Page : use[q] = "guest" => mem'[q] = mem[q]
    BY GuestPagesKept, Zenon
  <1>2. \A v \in Ipa : Translate(v)' # None <=>
            v = Uart \/ \E n \in 0 .. cfg'.ramsize - 1 : v = Entry + n \div Fanout
    BY <1>1, Zenon DEF SameMap, MemoryReady
  <1>3. ASSUME NEW n \in 0 .. cfg.memsize - 1
        PROVE  \E q \in Page :
                  /\ Entry + n \div Fanout \in Ipa /\ q = Translate(Entry + n \div Fanout)'
                  /\ mem'[q][n % Fanout] = GuestWord(n)'
    <2>1. PICK q \in Page : /\ Entry + n \div Fanout \in Ipa /\ q = Translate(Entry + n \div Fanout)
                            /\ mem[q][n % Fanout] = GuestWord(n)
      BY Zenon DEF MemoryReady
    <2>2. q = Translate(Entry + n \div Fanout)'
      BY <2>1, Zenon DEF SameMap
    <2>3. use[q] = "guest"
      BY <2>1, TreeIsolates, Zenon DEF TreeInv, GuestIsolated
    <2>4. GuestWord(n)' = GuestWord(n)
      BY <1>1, Zenon DEF GuestWord, Zero, Word
    <2> QED BY <1>1, <2>1, <2>2, <2>3, <2>4, Zenon
  <1> QED BY <1>1, <1>2, <1>3, Zenon DEF MemoryReady, None

\* pagemap is done with page k of the guest.
LEMMA MapLeafLoads ==
  ASSUME TreeInv, LoadInv, MapLeaf, walk.ret # "virtio"
  PROVE  LoadInv'
  <1>0. TypeOK /\ WalkOk
    BY Zenon DEF TreeInv
  <1>1. PICK k \in Nat : LoopInv(k)
    BY Zenon DEF LoadInv
  <1>2. /\ p = (k + 1) * Fanout /\ MapsFirst(k) /\ LoadedFirst(k) /\ Phase(walk.ret)
        /\ walk.va = Entry + k /\ walk.pa \in Page /\ Holds(walk.pa, k)
    BY <1>1, Zenon DEF LoopInv, MapLeaf
  <1>3. /\ pc' = walk.ret /\ walk.ret \in {"image", "bss", "ram"} /\ cfg' = cfg /\ p' = p
        /\ walk.va \in Ipa
    BY <1>0, Zenon DEF MapLeaf, TypeOK, PageWalk, WalkOk
  <1>4. /\ \A v \in Ipa : v = walk.va => Translate(v)' = walk.pa
        /\ \A v \in Ipa : v # walk.va => Translate(v)' = Translate(v)
    BY LinkLeaf, Zenon
  <1>5. \A j \in 0 .. (k + 1) - 1 : j = k \/ (j \in 0 .. k - 1 /\ Entry + j # walk.va)
    BY <1>2, LayoutAssumption DEF Ipa
  <1>6. 0 .. k - 1 \subseteq 0 .. (k + 1) - 1 /\ k \in 0 .. (k + 1) - 1
    OBVIOUS
  <1>7. MapsFirst(k + 1)'
    <2>1. ASSUME NEW v \in Ipa
          PROVE  Translate(v)' # None <=> \E j \in 0 .. (k + 1) - 1 : v = Entry + j
      <3>1. CASE v = walk.va
        <4>1. Translate(v)' # None
          BY <1>2, <1>4, <3>1, Layout, Zenon
        <4> QED BY <1>2, <1>6, <3>1, <4>1, Zenon
      <3>2. CASE v # walk.va
        <4>1. Translate(v)' # None <=> \E j \in 0 .. k - 1 : v = Entry + j
          BY <1>2, <1>4, <3>2, Zenon DEF MapsFirst
        <4> QED BY <1>2, <1>5, <1>6, <3>2, <4>1, Zenon
      <3> QED BY <3>1, <3>2, Zenon
    <2>2. ASSUME NEW j \in 0 .. (k + 1) - 1
          PROVE  Entry + j \in Ipa /\ Translate(Entry + j)' \in Page
      BY <1>2, <1>3, <1>4, <1>5 DEF MapsFirst
    <2> QED BY <2>1, <2>2, Zenon DEF MapsFirst, None
  <1>8. \A q \in Page, j \in Nat : use[q] = "guest" /\ Holds(q, j) => Holds(q, j)'
    <2>1. cfg' = cfg /\ \A q \in Page : use[q] = "guest" => mem'[q] = mem[q]
      BY GuestPagesKept, Zenon DEF Boot
    <2> QED BY <2>1, Zenon DEF Holds, GuestWord, Zero, Word
  <1>9. LoadedFirst(k + 1)'
    <2> SUFFICES ASSUME NEW j \in 0 .. (k + 1) - 1, NEW q \in Page, q = Translate(Entry + j)'
                 PROVE  Holds(q, j)'
      BY Zenon DEF LoadedFirst
    <2>1. CASE j = k
      <3>1. q = walk.pa
        BY <1>2, <1>3, <1>4, <2>1, Zenon
      <3>2. use[q] = "guest"
        BY <1>0, <1>2, <3>1, Layout, Zenon DEF WalkOk, MapLeaf
      <3> QED BY <1>2, <1>8, <2>1, <3>1, <3>2, Zenon
    <2>2. CASE j # k
      <3>1. j \in 0 .. k - 1 /\ Entry + j # walk.va /\ Entry + j \in Ipa /\ j \in Nat
        BY <1>2, <1>5, <2>2 DEF MapsFirst
      <3>2. q = Translate(Entry + j)
        BY <1>4, <3>1, Zenon
      <3>3. use[q] = "guest"
        BY <3>1, <3>2, TreeIsolates, Zenon DEF TreeInv, GuestIsolated
      <3>4. Holds(q, j)
        BY <1>2, <3>1, <3>2, Zenon DEF LoadedFirst
      <3> QED BY <1>8, <3>1, <3>3, <3>4, Zenon
    <2> QED BY <2>1, <2>2, Zenon
  <1>10. Phase(pc)'
    BY <1>2, <1>3, Zenon DEF Phase
  <1>11. LoopInv(k + 1)' /\ k + 1 \in Nat
    BY <1>2, <1>3, <1>7, <1>9, <1>10 DEF LoopInv
  <1>12. \E m \in Nat : LoopInv(m)'
    BY <1>11, Zenon
  <1> QED BY <1>3, <1>12, Zenon DEF LoadInv

\* The first k pages are the pages of the RAM when the last loop has stopped.
LEMMA PagesOfRam ==
  ASSUME NEW f \in Nat \ {0}, NEW k \in Nat, NEW size \in Nat, size <= k * f, k * f < size + f
  PROVE  /\ \A n \in 0 .. size - 1 : n \div f \in 0 .. k - 1
         /\ \A j \in 0 .. k - 1 : \E n \in 0 .. size - 1 : j = n \div f
  <1>1. ASSUME NEW n \in 0 .. size - 1
        PROVE  n \div f \in 0 .. k - 1
    <2>1. n \in Nat /\ n < k * f
      OBVIOUS
    <2>2. n \div f \in Nat /\ n \div f < k
      BY <2>1, WordOfPage, Zenon
    <2> QED BY <2>2
  <1>2. ASSUME NEW j \in 0 .. k - 1
        PROVE  \E n \in 0 .. size - 1 : j = n \div f
    <2>1. j \in Nat /\ j * f \in Nat /\ (j * f) \div f = j
      BY WordOfPage
    <2>2. j * f + f <= k * f
      <3>1. PICK d \in Nat : k = j + 1 + d
        <4>1. k - j - 1 \in Nat /\ k = j + 1 + (k - j - 1)
          OBVIOUS
        <4> QED BY <4>1, Zenon
      <3>2. k * f = j * f + f + d * f /\ d * f \in Nat
        BY <3>1
      <3> QED BY <2>1, <3>2
    <2>3. j * f \in 0 .. size - 1
      BY <2>1, <2>2
    <2> QED BY <2>1, <2>3, Zenon
  <1> QED BY <1>1, <1>2, Zenon

\* pagemap is done with the UART, the last page there is.
LEMMA UartLoads ==
  ASSUME TreeInv, LoadInv, MapLeaf, walk.ret = "virtio"
  PROVE  LoadInv'
  <1>0. TypeOK /\ WalkOk
    BY Zenon DEF TreeInv
  <1>1. PICK k \in Nat : LoopInv(k)
    BY Zenon DEF LoadInv
  <1>2. /\ p = k * Fanout /\ MapsFirst(k) /\ LoadedFirst(k) /\ Phase("virtio")
        /\ walk.va = Uart /\ walk.pa = Uart
    BY <1>1, Zenon DEF LoopInv, MapLeaf
  <1>3. pc' = "virtio" /\ cfg' = cfg /\ Uart \in Ipa /\ Uart # None
    BY Layout, Zenon DEF MapLeaf
  <1>4. /\ Translate(Uart) = None /\ Translate(Uart)' = Uart
        /\ \A v \in Ipa : v # Uart => Translate(v)' = Translate(v)
    BY <1>2, <1>3, LinkLeaf, Zenon
  <1>5. /\ cfg.filesz \in Nat /\ cfg.memsize \in Nat /\ cfg.ramsize \in Nat
        /\ cfg.filesz <= cfg.memsize /\ cfg.memsize <= cfg.ramsize
        /\ Fanout \in Nat \ {0}
    BY <1>0, Sizes, Layout, Zenon DEF LoadInv
  <1>6. /\ \A n \in 0 .. cfg.ramsize - 1 : n \div Fanout \in 0 .. k - 1
        /\ \A j \in 0 .. k - 1 : \E n \in 0 .. cfg.ramsize - 1 : j = n \div Fanout
    <2>1. cfg.ramsize <= k * Fanout /\ k * Fanout < cfg.ramsize + Fanout
      BY <1>2, Zenon DEF Phase
    <2> QED BY <1>5, <2>1, PagesOfRam, Zenon
  <1>7. \A v \in Ipa : Translate(v)' # None <=>
            v = Uart \/ \E n \in 0 .. cfg.ramsize - 1 : v = Entry + n \div Fanout
    <2>1. \A v \in Ipa : (\E j \in 0 .. k - 1 : v = Entry + j)
                            <=> \E n \in 0 .. cfg.ramsize - 1 : v = Entry + n \div Fanout
      BY <1>6, Zenon
    <2> QED BY <1>2, <1>3, <1>4, <2>1 DEF MapsFirst
  <1>8. ASSUME NEW n \in 0 .. cfg.memsize - 1
        PROVE  \E q \in Page :
                  /\ Entry + n \div Fanout \in Ipa /\ q = Translate(Entry + n \div Fanout)'
                  /\ mem'[q][n % Fanout] = GuestWord(n)'
    <2>1. n \in Nat /\ n \in 0 .. cfg.ramsize - 1
      BY <1>5
    <2>2. PICK j \in 0 .. k - 1, s \in Slot : j = n \div Fanout /\ s = n % Fanout
      BY <1>5, <1>6, <2>1, WordOfPage, Zenon DEF Slot
    <2>3. n = j * Fanout + s
      BY <1>5, <2>1, <2>2, WordOfPage, Zenon
    <2>4. PICK q \in Page : q = Translate(Entry + j) /\ Entry + j \in Ipa
      BY <1>2, Zenon DEF MapsFirst
    <2>5. Entry + j # Uart
      BY <1>4, <2>4, Layout, Zenon
    <2>6. Translate(Entry + j)' = q
      BY <1>4, <2>4, <2>5, Zenon
    <2>7. use[q] = "guest"
      BY <2>4, TreeIsolates, Zenon DEF TreeInv, GuestIsolated
    <2>8. mem'[q] = mem[q] /\ GuestWord(n)' = GuestWord(n)
      BY <1>3, <2>7, GuestPagesKept, Zenon DEF Boot, GuestWord, Zero, Word
    <2>9. mem[q][s] = GuestWord(n)
      <3>1. Holds(q, j)
        BY <1>2, <2>4, Zenon DEF LoadedFirst
      <3>2. n < cfg.memsize
        BY <1>5
      <3> QED BY <3>1, <3>2, <2>3, Zenon DEF Holds
    <2> QED BY <2>2, <2>4, <2>6, <2>8, <2>9, Zenon
  <1>9. MemoryReady'
    BY <1>3, <1>7, <1>8, Zenon DEF MemoryReady, None
  <1>10. LoopInv(0)'
    BY <1>3, Zenon DEF LoopInv
  <1>11. \E m \in Nat : LoopInv(m)'
    BY <1>10, Zenon
  <1> QED BY <1>3, <1>5, <1>9, <1>11, Zenon DEF LoadInv

\* pagewalk itself, and the start of pagemap for the UART.
LEMMA WalkLoads ==
  ASSUME TreeInv, LoadInv, WalkDown \/ WalkAlloc \/ MapUart
  PROVE  LoadInv'
  <1>0. TypeOK /\ WalkOk
    BY Zenon DEF TreeInv
  <1>1. PICK k \in Nat : LoopInv(k)
    BY Zenon DEF LoadInv
  <1>2. SameMap /\ Boot
    BY WalkDownKeeps, LinkTable, MapUartKeeps, Zenon DEF Boot, SameMap
  <1>3. pc' = "walk" /\ cfg' = cfg /\ p' = p
    BY Zenon DEF WalkDown, WalkAlloc, MapUart, PageMap
  <1>4. MapsFirst(k) /\ LoadedFirst(k)
    BY <1>1, Zenon DEF LoopInv, WalkDown, WalkAlloc, MapUart
  <1>5. MapsFirst(k)' /\ LoadedFirst(k)'
    BY <1>2, <1>4, LoopFrame, Zenon
  <1>6. CASE WalkDown \/ WalkAlloc
    <2>1. walk'.va = walk.va /\ walk'.pa = walk.pa /\ walk'.ret = walk.ret /\ pc = "walk"
      BY <1>0, <1>6, Zenon DEF WalkDown, WalkAlloc, TypeOK, PageWalk
    <2>2. Phase(walk.ret)'
      BY <1>1, <1>3, <2>1, Zenon DEF LoopInv, Phase
    <2>3. ASSUME walk.ret # "virtio"
          PROVE  Holds(walk.pa, k)'
      <3>1. PICK q \in Page : q = walk.pa /\ Holds(q, k)
        BY <1>1, <2>1, <2>3, Zenon DEF LoopInv
      <3>2. use[q] = "guest"
        BY <1>0, <2>1, <3>1, Layout, Zenon DEF WalkOk
      <3>3. Holds(q, k)'
        BY <1>2, <3>1, <3>2, LoopFrame, Zenon
      <3> QED BY <2>1, <3>1, <3>3, Zenon DEF Holds
    <2>4. LoopInv(k)'
      BY <1>1, <1>3, <1>5, <2>1, <2>2, <2>3, Zenon DEF LoopInv
    <2> QED BY <1>3, <2>4, Zenon DEF LoadInv
  <1>7. CASE MapUart
    <2>1. walk'.va = Uart /\ walk'.pa = Uart /\ walk'.ret = "virtio"
      BY <1>7, Zenon DEF MapUart, PageMap
    <2>2. p = k * Fanout /\ Phase("uart")
      BY <1>1, <1>7, Zenon DEF LoopInv, MapUart
    <2>3. Phase(walk.ret)'
      BY <1>3, <2>1, <2>2, Zenon DEF Phase
    <2>4. LoopInv(k)'
      BY <1>3, <1>5, <2>1, <2>2, <2>3, Zenon DEF LoopInv
    <2> QED BY <1>3, <2>4, Zenon DEF LoadInv
  <1> QED BY <1>6, <1>7, Zenon

\* Between the loops, and after them.
LEMMA MoveOnLoads ==
  ASSUME TreeInv, LoadInv,
         \/ LoopDone("image", cfg.filesz, "bss") \/ LoopDone("bss", cfg.memsize, "ram")
         \/ LoopDone("ram", cfg.ramsize, "uart")
         \/ Trap("virtio", Virtio, "spis") \/ AllocSpis \/ Trap("gicd", Gicd, "gicr")
         \/ Trap("gicr", Gicr, "ready")
  PROVE  LoadInv'
  <1>1. PICK k \in Nat : LoopInv(k)
    BY Zenon DEF LoadInv
  <1>2. SameMap /\ Boot
    BY QuietSteps, AllocSpisKeeps, Zenon DEF Boot
  <1>3. cfg' = cfg /\ p' = p
    BY Zenon DEF LoopDone, Trap, AllocSpis
  <1>4. /\ cfg.filesz \in Nat /\ cfg.memsize \in Nat /\ cfg.ramsize \in Nat /\ p \in Nat
        /\ cfg.filesz <= cfg.memsize /\ cfg.memsize <= cfg.ramsize
        /\ Fanout \in Nat \ {0}
    BY Sizes, Layout, Zenon DEF LoadInv, TreeInv
  <1>5. CASE \/ LoopDone("image", cfg.filesz, "bss") \/ LoopDone("bss", cfg.memsize, "ram")
             \/ LoopDone("ram", cfg.ramsize, "uart")
    <2>1. pc \in {"image", "bss", "ram"} /\ pc' \in {"bss", "ram", "uart"}
      BY <1>5, Zenon DEF LoopDone
    <2>2. p = k * Fanout /\ MapsFirst(k) /\ LoadedFirst(k) /\ Phase(pc)
      BY <1>1, <2>1, Zenon DEF LoopInv
    <2>3. MapsFirst(k)' /\ LoadedFirst(k)'
      BY <1>2, <2>2, LoopFrame, Zenon
    <2>4. Phase(pc)'
      <3>1. CASE LoopDone("image", cfg.filesz, "bss")
        BY <1>3, <1>4, <2>2, <3>1 DEF LoopDone, Phase
      <3>2. CASE LoopDone("bss", cfg.memsize, "ram")
        BY <1>3, <1>4, <2>2, <3>2 DEF LoopDone, Phase
      <3>3. CASE LoopDone("ram", cfg.ramsize, "uart")
        BY <1>3, <1>4, <2>2, <3>3, Zenon DEF LoopDone, Phase
      <3> QED BY <1>5, <3>1, <3>2, <3>3, Zenon
    <2>5. LoopInv(k)'
      BY <1>3, <2>1, <2>2, <2>3, <2>4, Zenon DEF LoopInv
    <2> QED BY <1>3, <1>4, <2>1, <2>5, Zenon DEF LoadInv
  <1>6. CASE \/ Trap("virtio", Virtio, "spis") \/ AllocSpis \/ Trap("gicd", Gicd, "gicr")
             \/ Trap("gicr", Gicr, "ready")
    <2>1. /\ pc \in {"virtio", "spis", "gicd", "gicr"}
          /\ pc' \in {"spis", "gicd", "gicr", "ready"}
      BY <1>6, Zenon DEF Trap, AllocSpis
    <2>2. MemoryReady'
      BY <1>2, <2>1, ReadyFrame, Zenon DEF LoadInv
    <2>3. LoopInv(k)'
      BY <2>1, Zenon DEF LoopInv
    <2> QED BY <1>3, <1>4, <2>2, <2>3, Zenon DEF LoadInv
  <1> QED BY <1>5, <1>6, Zenon

\* The loops start with an empty table.
LEMMA AllocRootLoads ==
  ASSUME TreeInv, LoadInv, AllocRoot
  PROVE  LoadInv'
  <1>1. root = None /\ pc' = "image" /\ p' = 0 /\ cfg' = cfg
    BY Zenon DEF TreeInv, RootOk, AllocRoot
  <1>2. \A v \in Ipa : Translate(v)' = None
    BY <1>1, NothingMapped, AllocRootKeeps, Zenon DEF SameMap
  <1>3. MapsFirst(0)' /\ LoadedFirst(0)'
    BY <1>2 DEF MapsFirst, LoadedFirst, None
  <1>4. Phase(pc)' /\ 0 = 0 * Fanout
    <2>1. cfg.filesz \in Nat /\ Fanout \in Nat \ {0}
      BY Sizes, Layout, Zenon DEF TreeInv
    <2> QED BY <1>1, <2>1 DEF Phase
  <1>5. LoopInv(0)'
    BY <1>1, <1>3, <1>4, Zenon DEF LoopInv
  <1>6. \E m \in Nat : LoopInv(m)'
    BY <1>5, Zenon
  <1> QED BY <1>1, <1>6, Zenon DEF LoadInv

\* Every step keeps LoadInv.
LEMMA LoadInvStep == TreeInv /\ LoadInv /\ [Next]_vars => LoadInv'
  <1> SUFFICES ASSUME TreeInv, LoadInv, [Next]_vars
               PROVE  LoadInv'
    OBVIOUS
  <1>1. CASE SecondaryStack \/ StacksDone \/ EnterGuest \/ Fault \/ \E va \in Ipa : GuestWrite(va)
    <2>1. pc' \in {"stacks", "root", "guest", "hang", "panic"} /\ cfg' = cfg
      BY <1>1, Zenon DEF SecondaryStack, StacksDone, EnterGuest, GuestWrite, Fault, BootFault, RootFault,
                  LoopFault, WalkFault, AllocFault, Stopped, vars
    <2>2. LoopInv(0)'
      BY <2>1, Zenon DEF LoopInv
    <2>3. \E m \in Nat : LoopInv(m)'
      BY <2>2, Zenon
    <2> QED BY <2>1, <2>3, Zenon DEF LoadInv
  <1>2. CASE AllocRoot
    BY <1>2, AllocRootLoads, Zenon
  <1>3. CASE ImagePage \/ BssPage \/ RamPage
    BY <1>3, LoopPageLoads, Zenon
  <1>4. CASE WalkDown \/ WalkAlloc \/ MapUart
    BY <1>4, WalkLoads, Zenon
  <1>5. CASE MapLeaf
    BY <1>5, MapLeafLoads, UartLoads, Zenon
  <1>6. CASE \/ LoopDone("image", cfg.filesz, "bss") \/ LoopDone("bss", cfg.memsize, "ram")
             \/ LoopDone("ram", cfg.ramsize, "uart")
             \/ Trap("virtio", Virtio, "spis") \/ AllocSpis \/ Trap("gicd", Gicd, "gicr")
             \/ Trap("gicr", Gicr, "ready")
    BY <1>6, MoveOnLoads, Zenon
  <1>7. CASE UNCHANGED vars
    <2>1. UNCHANGED <<cfg, pc, p, walk, mem, root, use>>
      BY <1>7, Zenon DEF vars
    <2>a. SameMap
      BY <2>1, Frame, Zenon DEF TreeInv, SameMap
    <2>2. PICK k \in Nat : LoopInv(k)
      BY Zenon DEF LoadInv
    <2>3. /\ MapsFirst(k) => MapsFirst(k)'
          /\ MapsFirst(k) /\ LoadedFirst(k) => LoadedFirst(k)'
      BY <1>7, <2>a, LoopFrame, Zenon
    <2>4. Phase(pc)' = Phase(pc) /\ Phase(walk.ret)' = Phase(walk.ret)
          /\ Holds(walk.pa, k)' = Holds(walk.pa, k)
      BY <2>1, Zenon DEF Phase, Holds, GuestWord, Zero, Word
    <2>5. LoopInv(k)'
      BY <2>1, <2>2, <2>3, <2>4, Zenon DEF LoopInv
    <2>6. MemoryReady => MemoryReady'
      BY <1>7, <2>a, ReadyFrame, Zenon
    <2> QED BY <2>1, <2>5, <2>6, Zenon DEF LoadInv
  <1> QED BY <1>1, <1>2, <1>3, <1>4, <1>5, <1>6, <1>7, Zenon DEF Next, Boot

\* ImageLoaded: for every size of the image, of its bss and of the RAM that
\* fits, the guest finds when it is entered what create_vm promises: its image
\* at the entry point, zeros to its memory size, and exactly its RAM and the
\* UART mapped.
THEOREM ImageLoadedAlways == Spec => []ImageLoaded
  <1>1. Init => LoadInv
    <2> SUFFICES ASSUME Init
                 PROVE  LoadInv
      OBVIOUS
    <2>1. LoopInv(0) /\ 0 \in Nat
      BY Zenon DEF Init, LoopInv
    <2> QED BY <2>1, Zenon DEF Init, LoadInv
  <1>2. TreeInv /\ LoadInv => ImageLoaded
    <2> SUFFICES ASSUME TreeInv, LoadInv, pc = "ready"
                 PROVE  /\ \A n \in 0 .. cfg.memsize - 1 :
                              mem[Translate(Entry + n \div Fanout)][n % Fanout] = GuestWord(n)
                        /\ {v \in Ipa : Translate(v) # None} =
                              {Uart} \cup {Entry + n \div Fanout : n \in 0 .. cfg.ramsize - 1}
      BY Zenon DEF ImageLoaded, GuestWord
    <2>1. MemoryReady
      BY Zenon DEF LoadInv
    <2>2. \A n \in 0 .. cfg.memsize - 1 :
              mem[Translate(Entry + n \div Fanout)][n % Fanout] = GuestWord(n)
      BY <2>1, Zenon DEF MemoryReady
    <2>3. \A n \in 0 .. cfg.ramsize - 1 : Entry + n \div Fanout \in Ipa
      <3>1. cfg.ramsize <= MaxRam /\ cfg.ramsize \in Nat
        BY LayoutAssumption DEF TreeInv, TypeOK
      <3>2. 0 .. cfg.ramsize - 1 \subseteq 0 .. MaxRam - 1
        BY <3>1, LayoutAssumption
      <3> QED BY <3>2, Layout, Zenon DEF Ram
    <2> QED BY <2>1, <2>2, <2>3, Layout, Zenon DEF MemoryReady
  <1> QED BY <1>1, <1>2, LoadInvStep, TreeInvAlways, PTL DEF Spec
==============================================================================
