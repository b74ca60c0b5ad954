------------------------------ MODULE FsCalls ------------------------------
(***************************************************************************)
(* The file system calls of kernel/sysfile.c and kernel/file.c, the path    *)
(* walk and the inode table of kernel/fs.c, over the image of FsImage.      *)
(* Processes run scripts, sequences of calls with the results they accept;  *)
(* a call takes one step for each stretch between two points where another  *)
(* process can get in: it waits for an inode lock, drops one, or begins or  *)
(* ends a transaction.  The log's promise (module AtomicDisk) stands in for *)
(* the log: dsk is what a crash leaves, and it becomes fs when the last     *)
(* open transaction ends.                                                   *)
(***************************************************************************)
EXTENDS FsImage

CONSTANTS NPROC,        \* processes
          NOFILE,       \* descriptors of a process
          NFILE,        \* entries of the open file table
          NINODE,       \* entries of the in-memory inode table
          MAXOPBLOCKS,  \* blocks one transaction may write
          Text          \* the scripts

VARIABLES fs,      \* the image as the running system sees it
          dsk,     \* the image a crash would leave
          ops,     \* the processes inside begin_op() .. end_op()
          dirty,   \* the blocks each process's transaction has written
          ref,     \* inode table: references to each inode
          valid,   \* inode table: the inodes read from disk
          ilk,     \* inode table: the process that holds an inode's lock, or 0
          lost,    \* history: the inodes that iput() left without name and holder
          file,    \* the open file table
          pr,      \* the processes
          failed,  \* a script met a result it does not accept
          panic    \* the kernel called panic()

vars == <<fs, dsk, ops, dirty, ref, valid, ilk, lost, file, pr, failed, panic>>

Pid == 1 .. NPROC
Fd == 0 .. NOFILE - 1
File == 1 .. NFILE
NoFile == [ref |-> 0, ip |-> 0, off |-> 0, r |-> FALSE, w |-> FALSE]
Idle == [prog |-> <<>>, stays |-> FALSE, pc |-> "idle", cwd |-> 0, ofile |-> [x \in Fd |-> 0],
         path |-> <<>>, par |-> FALSE, ip |-> 0, name |-> "", old |-> 0, puts |-> <<>>,
         freed |-> FALSE, ret |-> 0, done |-> 0, last |-> 0]

Over(p) == pr[p].prog = <<>>
Cur(p) == Head(pr[p].prog)
At(p, pc) == pr[p].pc = pc /\ pr[p].puts = <<>>
Calling(p, op) == At(p, "run") /\ ~Over(p) /\ Cur(p).op = op

\* The call returns r to its script; the locals of the call are dead.
Return(p, r, next) ==
  /\ failed' = (failed \/ (Cur(p).want # {} /\ r \notin Cur(p).want))
  /\ pr' = [pr EXCEPT ![p] = [next EXCEPT !.pc = "run", !.prog = Tail(@), !.ip = 0,
                                         !.name = "", !.ret = 0, !.par = FALSE]]

-----------------------------------------------------------------------------
(* The inode table. *)

\* iget(): a new entry is not valid yet; none left is a panic.  seen is what
\* the caller has just locked.
TableFull(i) == ref[i] = 0 /\ Cardinality({j \in Inum : ref[j] > 0}) = NINODE
iget(i, seen) ==
  /\ ref' = [ref EXCEPT ![i] = @ + 1]
  /\ valid' = (valid \cup seen) \ (IF ref[i] = 0 THEN {i} ELSE {})

\* ilock() waits for the lock and reads the inode; a free one is a panic.
CanLock(i) == ilk[i] = 0
NoType(i) == fs.type[i] = "free"

iunlock(i) == [ilk EXCEPT ![i] = 0]

\* iget() of what a look-up in the locked directory dp found.
Get(n, dp) == iget(n, {dp}) /\ panic' = (panic \/ NoType(dp) \/ TableFull(n))

\* The image after a step of p's transaction, and the blocks the step writes.
Changed(d, e) ==
  {<<"data", b>> : b \in {b \in Block : d.data[b] # e.data[b] \/ b \in e.used \ d.used}}
  \cup {<<"inode", i>> : i \in {i \in Inum :
          <<d.type[i], d.nlink[i], d.size[i], d.addrs[i]>> #
          <<e.type[i], e.nlink[i], e.size[i], e.addrs[i]>>}}
  \cup {<<"ind", i>> : i \in {i \in Inum :
          Len(e.addrs[i]) > NDIRECT /\ e.addrs[i] # d.addrs[i]}}
  \cup (IF d.used = e.used THEN {} ELSE {<<"bitmap", 0>>})
SetFs(p, e, also) ==
  /\ fs' = e
  /\ dirty' = [dirty EXCEPT ![p] = @ \cup Changed(fs, fs') \cup also]

\* What writei() of n units at off logs whether it changes it or not.
Logged(e, i, off, n) ==
  {<<"inode", i>>} \cup {<<"data", e.addrs[i][k]>> : k \in off \div BSIZE + 1 .. Blocks(off + n)}

\* iput() of the inode the process is to drop next.  If nobody names it and
\* nobody else holds it, it is freed, with itable.lock released; the reference
\* goes in a step of its own then, whatever has become of the inode meanwhile.
\* (UnnamedHeld forgets the other references.)
UnnamedHeld(i) == i \in valid /\ fs.nlink[i] = 0
Unnamed(i) == ref[i] = 1 /\ i \in valid /\ fs.nlink[i] = 0
IputFree(p) ==
  LET i == Head(pr[p].puts)
  IN  /\ pr[p].puts # <<>> /\ ~pr[p].freed
      /\ Unnamed(i) /\ CanLock(i)
      /\ \E e \in {FreeInode(fs, i)} : SetFs(p, e, {})
      /\ valid' = valid \ {i}
      /\ panic' = (panic \/ bfree_panics(fs, i))
      /\ pr' = [pr EXCEPT ![p].freed = TRUE]
      /\ UNCHANGED <<dsk, ops, ref, ilk, lost, file, failed>>

\* The last holder of an inode that was freed, made and unlinked again.
Loses(p, i) == pr[p].freed /\ ref[i] = 1 /\ fs.type[i] # "free" /\ fs.nlink[i] = 0
IputDrop(p) ==
  LET i == Head(pr[p].puts)
  IN  /\ pr[p].puts # <<>>
      /\ pr[p].freed \/ ~Unnamed(i)
      /\ ref' = [ref EXCEPT ![i] = @ - 1]
      /\ lost' = IF Loses(p, i) THEN lost \cup {i} ELSE lost
      /\ pr' = [pr EXCEPT ![p].puts = Tail(@), ![p].freed = FALSE]
      /\ UNCHANGED <<fs, dsk, ops, dirty, valid, ilk, file, failed, panic>>

begin_op(p) == ops' = ops \cup {p} /\ dirty' = [dirty EXCEPT ![p] = {}]

\* end_op(): the last transaction out commits them all.
end_op(p) ==
  /\ ops' = ops \ {p}
  /\ dsk' = IF ops' = {} THEN fs ELSE dsk
  /\ dirty' = [dirty EXCEPT ![p] = {}]

\* The end of a call that ran in a transaction.
Finish(p) ==
  /\ At(p, "end") /\ ~Over(p)
  /\ end_op(p)
  /\ Return(p, pr[p].ret, [pr[p] EXCEPT !.last = pr[p].ret])
  /\ UNCHANGED <<fs, ref, valid, ilk, lost, file, panic>>

-----------------------------------------------------------------------------
(* Path names. *)

Absolute(path) == path # <<>> /\ Head(path) = "/"
Elems(path) == IF Absolute(path) THEN Tail(path) ELSE path
From(p, path) == IF Absolute(path) THEN ROOTINO ELSE pr[p].cwd

\* namex() begins: at the root or at the working directory.
StartName(p, r, path, par, seen) ==
  /\ iget(From(p, path), seen)
  /\ panic' = (panic \/ TableFull(From(p, path)) \/ \E i \in seen : NoType(i))
  /\ pr' = [pr EXCEPT ![p] = [r EXCEPT !.pc = "name", !.ip = From(p, path),
                                       !.path = Elems(path), !.par = par]]

Creates(c) == c.op \in {"mkdir", "mknod"} \/ (c.op = "open" /\ "CREATE" \in c.omode)
Parent(c) == Creates(c) \/ c.op = "unlink"
Begin(p) ==
  /\ \E op \in {"open", "mkdir", "mknod", "link", "unlink", "chdir"} : Calling(p, op)
  /\ begin_op(p)
  /\ StartName(p, pr[p], Cur(p).path, Parent(Cur(p)), {})
  /\ UNCHANGED <<fs, dsk, ilk, lost, file, failed>>

\* The walk fails: link() has a link count to take back, the others just end.
\* (NoNameKept forgets the iput() of that path.)
NoNameKept(p, r) == [r EXCEPT !.puts = <<>>, !.ret = -1,
                       !.pc = IF Cur(p).op = "link" /\ r.old # 0 THEN "bad" ELSE "end"]
NoName(p, r) == [r EXCEPT !.pc = IF Cur(p).op = "link" /\ r.old # 0 THEN "bad" ELSE "end",
                          !.ret = -1]

\* namex() is out of elements: it has the inode, or no parent to return.
NameDone(p) ==
  LET r == pr[p]
  IN  /\ At(p, "name") /\ r.path = <<>>
      /\ pr' = [pr EXCEPT ![p] = IF r.par THEN NoName(p, [r EXCEPT !.puts = <<r.ip>>])
                                          ELSE [r EXCEPT !.pc = "found"]]
      /\ UNCHANGED <<fs, dsk, ops, dirty, ref, valid, ilk, lost, file, failed, panic>>

\* One element: lock the directory, look the name up or stop one level early,
\* unlock the directory and drop it.
namex(p) ==
  LET r == pr[p]
      i == r.ip
      nm == skipelem(Head(r.path))
      last == r.par /\ Len(r.path) = 1
      dir == fs.type[i] = "DIR"
  IN  /\ At(p, "name") /\ r.path # <<>> /\ CanLock(i)
      /\ \/ /\ ~dir \/ (~last /\ ~Present(fs, i, nm))
            /\ pr' = [pr EXCEPT ![p] = NoName(p, [r EXCEPT !.puts = <<i>>])]
            /\ valid' = valid \cup {i}
            /\ panic' = (panic \/ NoType(i))
            /\ UNCHANGED ref
         \/ /\ dir /\ last
            /\ pr' = [pr EXCEPT ![p] = [r EXCEPT !.pc = "found", !.name = nm]]
            /\ valid' = valid \cup {i}
            /\ UNCHANGED <<ref, panic>>
         \/ /\ dir /\ ~last /\ Present(fs, i, nm)
            /\ \E n \in {dirlookup(fs, i, nm)} :
                 /\ Get(n, i)
                 /\ pr' = [pr EXCEPT ![p] = [r EXCEPT !.ip = n, !.path = Tail(@),
                                                      !.puts = <<i>>]]
      /\ UNCHANGED <<fs, dsk, ops, dirty, ilk, lost, file, failed>>

-----------------------------------------------------------------------------
(* open, mkdir, mknod. *)

FreeFile == {f \in File : file[f].ref = 0}
FreeFd(p) == {x \in Fd : pr[p].ofile[x] = 0}

\* The rest of sys_open(), from the inode i it has locked in image d; drop is
\* what the call still has to drop.  No free file or descriptor: it fails.
OpenFile(p, d, also, i, drop) ==
  LET c == Cur(p)
      r == pr[p]
      f == Min(FreeFile)
      x == Min(FreeFd(p))
  IN  IF FreeFile = {} \/ FreeFd(p) = {}
      THEN /\ SetFs(p, d, also)
           /\ pr' = [pr EXCEPT ![p] = [r EXCEPT !.pc = "end", !.ret = -1,
                                                !.puts = Append(drop, i)]]
           /\ UNCHANGED file
      ELSE /\ IF "TRUNC" \in c.omode /\ d.type[i] = "FILE"
              THEN SetFs(p, itrunc(d, i), also \cup {<<"inode", i>>})
              ELSE SetFs(p, d, also)
           /\ file' = [file EXCEPT ![f] = [ref |-> 1, ip |-> i, off |-> 0,
                                           r |-> "WRONLY" \notin c.omode,
                                           w |-> c.omode \cap {"WRONLY", "RDWR"} # {}]]
           /\ pr' = [pr EXCEPT ![p] = [r EXCEPT !.pc = "end", !.ret = x, !.puts = drop,
                                                !.ofile[x] = f]]

\* sys_open() without O_CREATE: a directory only opens read-only.
OpenFound(p) ==
  LET i == pr[p].ip
  IN  /\ At(p, "found") /\ Cur(p).op = "open" /\ ~Creates(Cur(p))
      /\ CanLock(i)
      /\ valid' = valid \cup {i}
      /\ panic' = (panic \/ NoType(i))
      /\ IF fs.type[i] = "DIR" /\ Cur(p).omode # {}
         THEN /\ pr' = [pr EXCEPT ![p].pc = "end", ![p].ret = -1, ![p].puts = <<i>>]
              /\ UNCHANGED <<fs, dirty, file>>
         ELSE OpenFile(p, fs, {}, i, <<>>)
      /\ UNCHANGED <<dsk, ops, ref, ilk, lost, failed>>

\* create() finds the name: it drops the directory, then locks the inode.
CreateFound(p) ==
  LET dp == pr[p].ip
      nm == pr[p].name
  IN  /\ At(p, "found") /\ Creates(Cur(p)) /\ CanLock(dp)
      /\ Present(fs, dp, nm)
      /\ \E n \in {dirlookup(fs, dp, nm)} :
           /\ Get(n, dp)
           /\ pr' = [pr EXCEPT ![p].pc = "exists", ![p].ip = n, ![p].puts = <<dp>>]
      /\ UNCHANGED <<fs, dsk, ops, dirty, ilk, lost, file, failed>>

Exists(p) ==
  LET i == pr[p].ip
  IN  /\ At(p, "exists") /\ CanLock(i)
      /\ valid' = valid \cup {i}
      /\ panic' = (panic \/ NoType(i))
      /\ IF Cur(p).op = "open" /\ fs.type[i] # "DIR"
         THEN OpenFile(p, fs, {}, i, <<>>)
         ELSE /\ pr' = [pr EXCEPT ![p].pc = "end", ![p].ret = -1, ![p].puts = <<i>>]
              /\ UNCHANGED <<fs, dirty, file>>
      /\ UNCHANGED <<dsk, ops, ref, ilk, lost, failed>>

\* The new inode n, linked once, a directory with "." and "..".
Made(c) == CASE c.op = "open" -> "FILE" [] c.op = "mkdir" -> "DIR" [] c.op = "mknod" -> "DEVICE"
NewInode(d, n, t) == [ialloc(d, n, t) EXCEPT !.nlink[n] = 1]
Dots(d, n, dp) ==
  {dirlink(e, n, "..", dp) : e \in
     {dirlink(g, n, ".", n) : g \in {[d EXCEPT !.nlink[dp] = @ + 1]}}}

Room(d, dp, t) ==
  /\ LinkAt(d, dp) < MAXFILE * BSIZE
  /\ Wanted(d, dp, Blocks(LinkAt(d, dp) + 1)) + (IF t = "DIR" THEN Blocks(2) ELSE 0)
       <= Cardinality(Unused(d))

\* create() makes the inode, and links it in the directory dp it has locked.
\* Running out of inodes or of blocks is a panic.
Create(p) ==
  LET dp == pr[p].ip
      nm == pr[p].name
      t == Made(Cur(p))
      n == Min(FreeInums(fs))
  IN  /\ At(p, "found") /\ Creates(Cur(p)) /\ CanLock(dp)
      /\ ~Present(fs, dp, nm)
      /\ IF FreeInums(fs) = {} \/ TableFull(n) \/ ~Room(fs, dp, t)
         THEN panic' = TRUE /\ UNCHANGED <<fs, dirty, ref, valid, file, pr>>
         ELSE /\ ref' = [ref EXCEPT ![n] = @ + 1]
              /\ valid' = valid \cup {dp, n}
              /\ \E d \in {NewInode(fs, n, t)} :
                 \E e \in IF t = "DIR" THEN Dots(d, n, dp) ELSE {d} :
                 \E g \in {dirlink(e, dp, nm, n)} :
                 \E also \in {Logged(g, dp, LinkAt(fs, dp), 1)} :
                   IF t = "FILE"
                   THEN OpenFile(p, g, also, n, <<dp>>)
                   ELSE /\ SetFs(p, g, also)
                        /\ pr' = [pr EXCEPT ![p].pc = "end", ![p].ret = 0,
                                            ![p].puts = <<dp, n>>]
                        /\ UNCHANGED file
              /\ UNCHANGED panic
      /\ UNCHANGED <<dsk, ops, ilk, lost, failed>>

-----------------------------------------------------------------------------
(* link, unlink, chdir. *)

\* sys_link() counts the link before it makes it.
LinkCount(p) ==
  LET i == pr[p].ip
  IN  /\ At(p, "found") /\ Cur(p).op = "link" /\ pr[p].old = 0 /\ CanLock(i)
      /\ \/ /\ fs.type[i] = "DIR"
            /\ pr' = [pr EXCEPT ![p].pc = "end", ![p].ret = -1, ![p].puts = <<i>>]
            /\ valid' = valid \cup {i}
            /\ UNCHANGED <<fs, dirty, ref, panic>>
         \/ /\ fs.type[i] # "DIR"
            /\ SetFs(p, [fs EXCEPT !.nlink[i] = @ + 1], {})
            /\ StartName(p, [pr[p] EXCEPT !.old = i], Cur(p).new, TRUE, {i})
      /\ UNCHANGED <<dsk, ops, ilk, lost, file, failed>>

\* dirlink() in the new name's directory; a name that is taken goes to bad, and
\* for a moment its inode is in the table.
LinkMake(p) ==
  LET dp == pr[p].ip
      nm == pr[p].name
      old == pr[p].old
  IN  /\ At(p, "found") /\ Cur(p).op = "link" /\ old # 0 /\ CanLock(dp)
      /\ valid' = valid \cup {dp}
      /\ \/ /\ Present(fs, dp, nm)
            /\ pr' = [pr EXCEPT ![p].pc = "bad", ![p].puts = <<dp>>]
            /\ panic' = (panic \/ NoType(dp) \/ TableFull(dirlookup(fs, dp, nm)))
            /\ UNCHANGED <<fs, dirty>>
         \/ /\ ~Present(fs, dp, nm)
            /\ panic' = (panic \/ ~Room(fs, dp, "FILE"))
            /\ IF Room(fs, dp, "FILE")
               THEN \E e \in {dirlink(fs, dp, nm, old)} :
                      SetFs(p, e, Logged(e, dp, LinkAt(fs, dp), 1))
               ELSE UNCHANGED <<fs, dirty>>
            /\ pr' = [pr EXCEPT ![p].pc = "end", ![p].ret = 0, ![p].puts = <<dp, old>>,
                                ![p].old = 0]
      /\ UNCHANGED <<dsk, ops, ref, ilk, lost, file, failed>>

LinkBad(p) ==
  LET i == pr[p].old
  IN  /\ At(p, "bad") /\ CanLock(i)
      /\ SetFs(p, [fs EXCEPT !.nlink[i] = @ - 1], {})
      /\ pr' = [pr EXCEPT ![p].pc = "end", ![p].ret = -1, ![p].puts = <<i>>, ![p].old = 0]
      /\ UNCHANGED <<dsk, ops, ref, valid, ilk, lost, file, failed, panic>>

\* The names that sys_unlink() refuses.  (OnlyDot lets "..", the parent, pass.)
OnlyDot(nm) == nm = "."
IsDots(nm) == nm \in {".", ".."}

\* sys_unlink() keeps the directory locked while it waits for the inode.
UnlinkDir(p) ==
  LET dp == pr[p].ip
      nm == pr[p].name
      absent == IsDots(nm) \/ ~Present(fs, dp, nm)
  IN  /\ At(p, "found") /\ Cur(p).op = "unlink" /\ CanLock(dp)
      /\ \/ /\ absent
            /\ pr' = [pr EXCEPT ![p].pc = "end", ![p].ret = -1, ![p].puts = <<dp>>]
            /\ valid' = valid \cup {dp}
            /\ panic' = (panic \/ NoType(dp))
            /\ UNCHANGED <<ref, ilk>>
         \/ /\ ~absent
            /\ \E n \in {dirlookup(fs, dp, nm)} :
                 /\ Get(n, dp)
                 /\ pr' = [pr EXCEPT ![p].pc = "unlink", ![p].ip = n, ![p].old = dp]
            /\ ilk' = [ilk EXCEPT ![dp] = p]
      /\ UNCHANGED <<fs, dsk, ops, dirty, lost, file, failed>>

\* It refuses a directory that is not empty; otherwise it erases the entry and
\* takes the link back, and for a directory that of its "..".  (UnlinkedDots
\* leaves the parent's count.)
UnlinkedDots(i, dp, nm) ==
  LET Gone(d) == [d EXCEPT !.nlink[i] = @ - 1] IN Gone(Erase(fs, dp, nm))
Unlinked(i, dp, nm) ==
  LET up == IF fs.type[i] = "DIR" THEN 1 ELSE 0
      Gone(d) == [d EXCEPT !.nlink[dp] = @ - up, !.nlink[i] = @ - 1]
  IN  Gone(Erase(fs, dp, nm))
Unlink(p) ==
  LET i == pr[p].ip
      dp == pr[p].old
      nm == pr[p].name
  IN  /\ At(p, "unlink") /\ CanLock(i)
      /\ ilk' = iunlock(dp)
      /\ valid' = valid \cup {i}
      /\ panic' = (panic \/ NoType(i) \/ fs.nlink[i] < 1)
      /\ \/ /\ fs.type[i] = "DIR" /\ ~isdirempty(fs, i)
            /\ pr' = [pr EXCEPT ![p].pc = "end", ![p].ret = -1, ![p].puts = <<i, dp>>,
                                ![p].old = 0]
            /\ UNCHANGED <<fs, dirty>>
         \/ /\ fs.type[i] # "DIR" \/ isdirempty(fs, i)
            /\ \E e \in {Unlinked(i, dp, nm)} :
                 SetFs(p, e, Logged(e, dp, Min(Matches(fs, dp, nm)) - 1, 1))
            /\ pr' = [pr EXCEPT ![p].pc = "end", ![p].ret = 0, ![p].puts = <<dp, i>>,
                                ![p].old = 0]
      /\ UNCHANGED <<dsk, ops, ref, lost, file, failed>>

Chdir(p) ==
  LET i == pr[p].ip
      dir == fs.type[i] = "DIR"
  IN  /\ At(p, "found") /\ Cur(p).op = "chdir" /\ CanLock(i)
      /\ valid' = valid \cup {i}
      /\ panic' = (panic \/ NoType(i))
      /\ pr' = [pr EXCEPT ![p].pc = "end",
                          ![p].ret = IF dir THEN 0 ELSE -1,
                          ![p].puts = <<IF dir THEN pr[p].cwd ELSE i>>,
                          ![p].cwd = IF dir THEN i ELSE @]
      /\ UNCHANGED <<fs, dsk, ops, dirty, ref, ilk, lost, file, failed>>

-----------------------------------------------------------------------------
(* Calls on descriptors. *)

Open(p, x) == file[pr[p].ofile[x]]
IsOpen(p, x) == pr[p].ofile[x] # 0

\* A descriptor that is not open, or not for this use, is refused.
Refused(p) ==
  LET c == Cur(p)
  IN  /\ \E op \in {"read", "write", "close", "dup", "fstat"} : Calling(p, op)
      /\ \/ ~IsOpen(p, c.fd)
         \/ c.op = "read" /\ ~Open(p, c.fd).r
         \/ c.op = "write" /\ ~Open(p, c.fd).w
         \/ c.op = "dup" /\ FreeFd(p) = {}
Refuse(p) ==
  /\ Refused(p)
  /\ Return(p, IF Cur(p).op = "read" THEN <<>> ELSE -1, [pr[p] EXCEPT !.last = -1])
  /\ UNCHANGED <<fs, dsk, ops, dirty, ref, valid, ilk, lost, file, panic>>

\* fileread(): under the inode's lock, which also guards the offset.
sys_read(p) ==
  LET c == Cur(p)
      f == pr[p].ofile[c.fd]
      i == file[f].ip
  IN  /\ Calling(p, "read") /\ ~Refused(p) /\ CanLock(i)
      /\ \E us \in {readi(fs, i, file[f].off, c.n)} :
           /\ file' = [file EXCEPT ![f].off = @ + Len(us)]
           /\ Return(p, us, [pr[p] EXCEPT !.last = Len(us)])
      /\ UNCHANGED <<fs, dsk, ops, dirty, ref, valid, ilk, lost, panic>>

sys_fstat(p) ==
  LET i == Open(p, Cur(p).fd).ip
  IN  /\ Calling(p, "fstat") /\ ~Refused(p) /\ CanLock(i)
      /\ Return(p, <<fs.type[i], fs.nlink[i], fs.size[i]>>, [pr[p] EXCEPT !.last = 0])
      /\ UNCHANGED <<fs, dsk, ops, dirty, ref, valid, ilk, lost, file, panic>>

sys_dup(p) ==
  LET f == pr[p].ofile[Cur(p).fd]
      x == Min(FreeFd(p))
  IN  /\ Calling(p, "dup") /\ ~Refused(p)
      /\ file' = [file EXCEPT ![f].ref = @ + 1]
      /\ Return(p, x, [pr[p] EXCEPT !.ofile[x] = f, !.last = x])
      /\ UNCHANGED <<fs, dsk, ops, dirty, ref, valid, ilk, lost, panic>>

\* filewrite() writes a few blocks at a time, each in a transaction.
\* (ChunkAll leaves no room for the inode, bitmap and indirect blocks.)
ChunkAll == MAXOPBLOCKS * BSIZE
Chunk == ((MAXOPBLOCKS - 1 - 1 - 2) \div 2) * BSIZE

sys_write(p) ==
  /\ (Calling(p, "write") /\ ~Refused(p)) \/ At(p, "more")
  /\ begin_op(p)
  /\ pr' = [pr EXCEPT ![p].pc = "write"]
  /\ UNCHANGED <<fs, dsk, ref, valid, ilk, lost, file, failed, panic>>

filewrite(p) ==
  LET c == Cur(p)
      f == pr[p].ofile[c.fd]
      i == file[f].ip
      off == file[f].off
      us == SubSeq(c.us, pr[p].done + 1, Min({Len(c.us), pr[p].done + Chunk}))
      ok == CanWrite(fs, i, off, Len(us))
      full == NoSpace(fs, i, off + Len(us))
  IN  /\ At(p, "write") /\ CanLock(i)
      /\ panic' = (panic \/ (ok /\ full))
      /\ \/ /\ ok /\ ~full
            /\ \E e \in {writei(fs, i, off, us)} : SetFs(p, e, Logged(e, i, off, Len(us)))
            /\ file' = [file EXCEPT ![f].off = @ + Len(us)]
            /\ pr' = [pr EXCEPT ![p].done = @ + Len(us), ![p].pc = "wrote",
                                ![p].ret = Len(c.us)]
         \/ /\ ~ok \/ full
            /\ pr' = [pr EXCEPT ![p].pc = "wrote", ![p].ret = -1]
            /\ UNCHANGED <<fs, dirty, file>>
      /\ UNCHANGED <<dsk, ops, ref, valid, ilk, lost, failed>>

\* The chunk's end_op(): on to the next chunk, or out.
WriteEnd(p) ==
  LET r == pr[p]
      all == r.done = Len(Cur(p).us)
  IN  /\ At(p, "wrote") /\ end_op(p)
      /\ IF all \/ r.ret = -1
         THEN Return(p, r.ret, [r EXCEPT !.last = r.ret, !.done = 0])
         ELSE pr' = [pr EXCEPT ![p].pc = "more"] /\ UNCHANGED failed
      /\ UNCHANGED <<fs, ref, valid, ilk, lost, file, panic>>

\* fileclose(): the last reference to the file drops its inode, in a transaction.
fileclose(p, x) ==
  LET f == pr[p].ofile[x]
  IN  IF file[f].ref > 1 THEN file' = [file EXCEPT ![f].ref = @ - 1]
                         ELSE file' = [file EXCEPT ![f] = NoFile]

sys_close(p) ==
  LET x == Cur(p).fd
  IN  /\ Calling(p, "close") /\ ~Refused(p)
      /\ fileclose(p, x)
      /\ IF Open(p, x).ref > 1
         THEN Return(p, 0, [pr[p] EXCEPT !.ofile[x] = 0, !.last = 0])
         ELSE /\ pr' = [pr EXCEPT ![p].pc = "closing", ![p].ip = Open(p, x).ip,
                                  ![p].ofile[x] = 0, ![p].ret = 0]
              /\ UNCHANGED failed
      /\ UNCHANGED <<fs, dsk, ops, dirty, ref, valid, ilk, lost, panic>>

CloseInode(p) ==
  /\ At(p, "closing")
  /\ begin_op(p)
  /\ pr' = [pr EXCEPT ![p].pc = "end", ![p].puts = <<pr[p].ip>>]
  /\ UNCHANGED <<fs, dsk, ref, valid, ilk, lost, file, failed, panic>>

-----------------------------------------------------------------------------
(* The parts of fork(), wait() and exit() that touch files. *)

\* The child shares the parent's open files and working directory.
Shares(p, f) == Cardinality({x \in Fd : pr[p].ofile[x] = f})
fork(p) ==
  LET k == Cur(p).child
  IN  /\ Calling(p, "fork")
      /\ file' = [f \in File |-> [file[f] EXCEPT !.ref = @ + Shares(p, f)]]
      /\ ref' = [ref EXCEPT ![pr[p].cwd] = @ + 1]
      /\ pr' = [pr EXCEPT ![p].prog = Tail(@),
                          ![k] = [Idle EXCEPT !.prog = Text[Cur(p).text], !.pc = "run",
                                              !.cwd = pr[p].cwd, !.ofile = pr[p].ofile]]
      /\ UNCHANGED <<fs, dsk, ops, dirty, valid, ilk, lost, failed, panic>>

wait(p) ==
  /\ Calling(p, "wait")
  /\ \E k \in Pid : pr[k].pc = "zombie" /\ pr' = [pr EXCEPT ![p].prog = Tail(@), ![k] = Idle]
  /\ UNCHANGED <<fs, dsk, ops, dirty, ref, valid, ilk, lost, file, failed, panic>>

\* exit() closes the descriptors in order, then drops the working directory.
Exiting(p) == At(p, "run") /\ Over(p) /\ ~pr[p].stays
OpenFds(p) == {x \in Fd : IsOpen(p, x)}
ExitClose(p) ==
  LET x == Min(OpenFds(p))
  IN  /\ Exiting(p) /\ OpenFds(p) # {}
      /\ fileclose(p, x)
      /\ pr' = [pr EXCEPT ![p].ofile[x] = 0, ![p].ip = Open(p, x).ip,
                          ![p].pc = IF Open(p, x).ref > 1 THEN "run" ELSE "closing"]
      /\ UNCHANGED <<fs, dsk, ops, dirty, ref, valid, ilk, lost, failed, panic>>

ExitCwd(p) ==
  /\ Exiting(p) /\ OpenFds(p) = {} /\ pr[p].cwd # 0
  /\ begin_op(p)
  /\ pr' = [pr EXCEPT ![p].pc = "end", ![p].puts = <<pr[p].cwd>>, ![p].cwd = 0]
  /\ UNCHANGED <<fs, dsk, ref, valid, ilk, lost, file, failed, panic>>

exit(p) ==
  /\ At(p, "end") /\ Over(p)
  /\ end_op(p)
  /\ pr' = [pr EXCEPT ![p] = IF @.cwd = 0 THEN [Idle EXCEPT !.pc = "zombie"]
                                          ELSE [@ EXCEPT !.pc = "run"]]
  /\ UNCHANGED <<fs, ref, valid, ilk, lost, file, failed, panic>>
=============================================================================
