------------------------------ MODULE FsImage ------------------------------
(***************************************************************************)
(* The guest's file system on disk, and the operations of kernel/fs.c on   *)
(* it: the free-block bitmap, the inodes and what their blocks hold.  An    *)
(* image is a record                                                        *)
(*   type, nlink, size : per inode, the fields of struct dinode;            *)
(*   addrs             : per inode, the blocks of its content in order (the *)
(*                       direct pointers, then those the indirect block     *)
(*                       holds; a file has no holes, writei refuses them);  *)
(*   ind               : per inode, addrs[NDIRECT], the indirect block;     *)
(*   used              : the blocks whose bit is set in the bitmap;         *)
(*   data              : per block, its content.                            *)
(* A block holds BSIZE units; a unit is a directory entry <<inum, name>> or *)
(* a byte <<value, "">>, so an all-zero entry is <<0, "">>.                 *)
(***************************************************************************)
EXTENDS Integers, Sequences, FiniteSets, FiniteSetsExt, Functions

CONSTANTS NINODES,    \* inodes on the disk
          NBLOCKS,    \* data blocks on the disk
          BSIZE,      \* units in a block
          NDIRECT,    \* direct pointers of an inode
          NINDIRECT,  \* pointers in an indirect block
          Files       \* the names mkfs puts in the root directory

\* mkfs rounds the root directory's size up past its last block when its
\* entries fill whole blocks; the image of the build does not.
ASSUME RootFits == (2 + Len(Files)) % BSIZE # 0

Inum == 1 .. NINODES
ROOTINO == 1
Block == 1 .. NBLOCKS
MAXFILE == NDIRECT + NINDIRECT
Nil == <<0, "">>
Zeroes == [k \in 0 .. BSIZE - 1 |-> Nil]

\* Names of more than DIRSIZ (14) characters, and what their first 14 spell.
Clipped == [n15 |-> "n14"]

\* skipelem() copies at most DIRSIZ characters of a path element.
skipelem(e) == IF e \in DOMAIN Clipped THEN Clipped[e] ELSE e

-----------------------------------------------------------------------------
\* Op of v, where v is evaluated once.
With(v, Op(_)) == CHOOSE y \in {Op(x) : x \in {v}} : TRUE

Unused(d) == Block \ d.used

\* The k lowest-numbered free blocks, in order.
Lowest(d, k) ==
  LET Nth(S) == [j \in 1 .. k |-> CHOOSE b \in S : Cardinality({c \in S : c < b}) = j - 1]
  IN  With(Unused(d), Nth)

\* balloc() called for each of the blocks new: it sets the bit and zeroes the block.
balloc(d, new) ==
  [d EXCEPT !.used = @ \cup new,
            !.data = [b \in Block |-> IF b \in new THEN Zeroes ELSE @[b]]]

\* The blocks itrunc() hands to bfree(): the content and the indirect block.
Held(d, i) == Range(d.addrs[i]) \cup ({d.ind[i]} \ {0})

\* bfree() panics on a block that is already free.
bfree_panics(d, i) == ~(Held(d, i) \subseteq d.used)

itrunc(d, i) ==
  [d EXCEPT !.used = @ \ Held(d, i), !.addrs[i] = <<>>, !.ind[i] = 0, !.size[i] = 0]

\* The part of iput() that frees an inode nobody names or holds.
FreeInode(d, i) == [itrunc(d, i) EXCEPT !.type[i] = "free"]

\* ialloc(): the first free inode, zeroed and marked with its type.
FreeInums(d) == {i \in Inum : d.type[i] = "free"}
ialloc(d, i, t) == [d EXCEPT !.type[i] = t, !.nlink[i] = 0]

Blocks(n) == (n + BSIZE - 1) \div BSIZE
NeedsInd(d, i, nb) == d.ind[i] = 0 /\ nb > NDIRECT
Wanted(d, i, nb) ==
  Max({0, nb - Len(d.addrs[i])}) + (IF NeedsInd(d, i, nb) THEN 1 ELSE 0)

\* bmap() for the content blocks up to the nb-th: it allocates those that are
\* missing in order, the indirect block just before the first block it holds.
bmap(d, i, nb) ==
  LET at == Max({0, NDIRECT - Len(d.addrs[i])}) + 1
      Attach(new) ==
        IF NeedsInd(d, i, nb)
        THEN [balloc(d, Range(new)) EXCEPT
                !.addrs[i] = @ \o SubSeq(new, 1, at - 1) \o SubSeq(new, at + 1, Len(new)),
                !.ind[i] = new[at]]
        ELSE [balloc(d, Range(new)) EXCEPT !.addrs[i] = @ \o new]
  IN  With(Lowest(d, Wanted(d, i, nb)), Attach)

\* writei() refuses an offset past the end of the file and a file past MAXFILE.
CanWrite(d, i, off, n) == off <= d.size[i] /\ off + n <= MAXFILE * BSIZE

\* balloc() panics when the disk is full.
NoSpace(d, i, n) == Wanted(d, i, Blocks(n)) > Cardinality(Unused(d))

writei(d, i, off, us) ==
  LET end == off + Len(us)
      Content(e, j) == [k \in 0 .. BSIZE - 1 |->
                          LET o == (j - 1) * BSIZE + k
                          IN  IF o >= off /\ o < end THEN us[o - off + 1]
                                                     ELSE e.data[e.addrs[i][j]][k]]
      Put(e) == [e EXCEPT !.size[i] = Max({@, end}),
                          !.data = [b \in Block |-> IF b \in Range(e.addrs[i])
                                      THEN Content(e, CHOOSE j \in DOMAIN e.addrs[i] : e.addrs[i][j] = b)
                                      ELSE @[b]]]
  IN  With(bmap(d, i, Blocks(end)), Put)

\* readi(): the units from off on, at most n, none past the end of the file.
readi(d, i, off, n) ==
  LET m == Max({0, Min({n, d.size[i] - off})})
  IN  [k \in 1 .. m |-> d.data[d.addrs[i][(off + k - 1) \div BSIZE + 1]]
                              [(off + k - 1) % BSIZE]]

-----------------------------------------------------------------------------
\* The entries of directory dp, the deleted ones (inum 0) included.
Entries(d, dp) == readi(d, dp, 0, d.size[dp])

\* dirlookup(): where dp names nm.  The scan stops at the first such entry.
Matches(d, dp, nm) ==
  LET Named(e) == {k \in DOMAIN e : e[k][1] # 0 /\ e[k][2] = nm}
  IN  With(Entries(d, dp), Named)
Present(d, dp, nm) == Matches(d, dp, nm) # {}
dirlookup(d, dp, nm) == Entries(d, dp)[Min(Matches(d, dp, nm))][1]

\* dirlink() reuses the first deleted entry and otherwise appends.
LinkAt(d, dp) ==
  LET Vacant(e) == Min({k \in DOMAIN e : e[k][1] = 0} \cup {Len(e) + 1}) - 1
  IN  With(Entries(d, dp), Vacant)
dirlink(d, dp, nm, i) == writei(d, dp, LinkAt(d, dp), <<<<i, nm>>>>)

\* The write of sys_unlink() over the entry it found.
Erase(d, dp, nm) == writei(d, dp, Min(Matches(d, dp, nm)) - 1, <<Nil>>)

isdirempty(d, dp) == \A u \in Range(readi(d, dp, 2, d.size[dp])) : u[1] = 0

-----------------------------------------------------------------------------
\* mkfs: inode i for the next name, one unit of content, linked once; the
\* root's size is rounded up once every name is in.
iappend(d, i, u) == writei(d, i, d.size[i], <<u>>)
Blank == [type |-> [i \in Inum |-> IF i = ROOTINO THEN "DIR" ELSE "free"],
          nlink |-> [i \in Inum |-> IF i = ROOTINO THEN 1 ELSE 0],
          size |-> [i \in Inum |-> 0], addrs |-> [i \in Inum |-> <<>>],
          ind |-> [i \in Inum |-> 0], used |-> {}, data |-> [b \in Block |-> Zeroes]]
mkfs ==
  LET Add[k \in 0 .. Len(Files)] ==
        IF k = 0
        THEN iappend(iappend(Blank, ROOTINO, <<ROOTINO, ".">>), ROOTINO, <<ROOTINO, "..">>)
        ELSE [iappend(iappend(Add[k - 1], ROOTINO, <<k + 1, Files[k]>>), k + 1, <<k, "">>)
                EXCEPT !.type[k + 1] = "FILE", !.nlink[k + 1] = 1]
      d == Add[Len(Files)]
  IN  [d EXCEPT !.size[ROOTINO] = (@ \div BSIZE + 1) * BSIZE]

-----------------------------------------------------------------------------
\* What makes an image sound.

\* A block is allocated when it belongs to an inode, and to one place of one.
BlocksOwned(d) ==
  /\ d.used = UNION {Held(d, i) : i \in Inum}
  /\ \A i, j \in Inum : i # j => Held(d, i) \cap Held(d, j) = {}
  /\ \A i \in Inum : IsInjective(d.addrs[i]) /\ d.ind[i] \notin Range(d.addrs[i])

\* The directories that are themselves in the tree, and where they name i:
\* a directory's "." does not count, its "..", which names the parent, does.
InTree(d) == {j \in Inum : d.type[j] = "DIR" /\ d.nlink[j] > 0}
Names(d, j, i) ==
  LET Count(e) == Cardinality({k \in DOMAIN e : e[k][1] = i}) IN With(Entries(d, j), Count)
Links(d, i) ==
  MapThenSumSet(LAMBDA j : Names(d, j, i), InTree(d) \ {i}) + (IF i = ROOTINO THEN 1 ELSE 0)

\* No directory of the tree names a freed inode, or a name twice; a directory
\* is named by one other than its children.
TreeSound(d) ==
  \A j \in InTree(d) : \A e \in {Entries(d, j)} :
    /\ \A k \in DOMAIN e : e[k][1] # 0 => d.type[e[k][1]] # "free"
    /\ \A k, l \in DOMAIN e : e[k] # Nil /\ e[k][2] = e[l][2] => k = l
    /\ e[1] = <<j, ".">> /\ e[2][2] = ".."
    /\ j # ROOTINO => \E u \in Range(readi(d, e[2][1], 2, d.size[e[2][1]])) : u[1] = j
=============================================================================
