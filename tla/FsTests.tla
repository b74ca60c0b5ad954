------------------------------ MODULE FsTests ------------------------------
(***************************************************************************)
(* The file system tests of user/usertests.c, init's set-up of the console  *)
(* and the shell's file commands, as scripts for FsCalls, with their loop    *)
(* counts and sizes scaled to the instance; and the system that runs one of  *)
(* them, loses power at most MaxCrash times and boots init again.            *)
(***************************************************************************)
EXTENDS FsCalls, SequencesExt

CONSTANTS Start,     \* the scripts the first process may run
          MaxCrash   \* power failures (bound)

VARIABLE crashes

-----------------------------------------------------------------------------
\* Calls.  want is the set of results the program goes on with, {} is any.
open(path, omode, want) == [op |-> "open", path |-> path, omode |-> omode, want |-> want]
creat(path) == open(path, {"CREATE", "RDWR"}, Fd)
mkdir(path, want) == [op |-> "mkdir", path |-> path, want |-> want]
mknod(path) == [op |-> "mknod", path |-> path, want |-> {}]
link(path, new, want) == [op |-> "link", path |-> path, new |-> new, want |-> want]
unlink(path, want) == [op |-> "unlink", path |-> path, want |-> want]
chdir(path, want) == [op |-> "chdir", path |-> path, want |-> want]
close(fd) == [op |-> "close", fd |-> fd, want |-> {}]
dup(fd) == [op |-> "dup", fd |-> fd, want |-> Fd]
fstat(fd, want) == [op |-> "fstat", fd |-> fd, want |-> want]
write(fd, us) == [op |-> "write", fd |-> fd, us |-> us, want |-> {Len(us)}]
read(fd, n, want) == [op |-> "read", fd |-> fd, n |-> n, want |-> want]
forks(k, text) == [op |-> "fork", child |-> k, text |-> text, want |-> {}]
waits == [op |-> "wait", want |-> {}]
\* Go on after the next n calls if the last call succeeded.
skips(n) == [op |-> "skip", n |-> n, want |-> {}]

Ok == {0}
Bad == {-1}
Bytes(v, n) == [k \in 1 .. n |-> <<v, "">>]
All == MAXFILE * BSIZE
BigName == <<"x1", "x2", "x3", "x4", "x5">>

\* What a read of the root directory returns once names were added to mkfs's.
Listed(more) == [k \in 1 .. mkfs.size[ROOTINO] + Len(more) - 1 |->
                   IF k < mkfs.size[ROOTINO] THEN Entries(mkfs, ROOTINO)[k]
                   ELSE more[k - mkfs.size[ROOTINO] + 1]]

-----------------------------------------------------------------------------
\* init: the console's device file, and descriptors 0, 1 and 2.
init_main ==
  <<open(<<"console">>, {"RDWR"}, {}), skips(2), mknod(<<"console">>),
    open(<<"console">>, {"RDWR"}, Fd), dup(0), dup(0)>>

\* ls of the root as mkfs leaves it, ln, mkdir, rm.
ls_main ==
  <<open(<<".">>, {}, Fd), fstat(0, {<<"DIR", 1, mkfs.size[ROOTINO]>>}),
    read(0, All, {Entries(mkfs, ROOTINO)}), close(0)>>
ln_main == <<link(<<"README">>, <<"r2">>, Ok)>>
mkdir_main == <<mkdir(<<"d">>, Ok)>>
rm_main == <<unlink(<<"r2">>, Ok), unlink(<<"d">>, Ok)>>
\* rm commands of two processes at once, along one path; each call is a command.
rm_both ==
  <<mkdir(<<"d">>, Ok), mkdir(<<"d", "e">>, Ok), forks(2, "rm_child"),
    unlink(<<"d", "e">>, {}), unlink(<<"d">>, {}), waits>>
rm_child == <<unlink(<<"d", "..">>, {}), unlink(<<"d", "e">>, {}), unlink(<<"d">>, {})>>
sh_files == ls_main \o ln_main \o mkdir_main \o rm_main

truncate1 ==
  <<unlink(<<"t">>, {}), open(<<"t">>, {"CREATE", "WRONLY", "TRUNC"}, Fd),
    write(0, Bytes(1, 4)), close(0),
    open(<<"t">>, {}, Fd), read(0, All, {Bytes(1, 4)}),
    open(<<"t">>, {"WRONLY", "TRUNC"}, Fd), open(<<"t">>, {}, Fd),
    read(2, All, {<<>>}), read(0, All, {<<>>}),
    write(1, Bytes(2, 6)), read(2, All, {Bytes(2, 6)}), read(0, All, {Bytes(2, 2)}),
    unlink(<<"t">>, {}), close(1), close(0), close(2)>>

\* A write at an offset past the end of the truncated file fails.
truncate2 ==
  <<unlink(<<"t">>, {}), open(<<"t">>, {"CREATE", "TRUNC", "WRONLY"}, Fd),
    write(0, Bytes(1, 4)), open(<<"t">>, {"TRUNC", "WRONLY"}, Fd),
    [write(0, Bytes(1, 1)) EXCEPT !.want = Bad],
    unlink(<<"t">>, {}), close(0), close(1)>>

truncate3 ==
  <<open(<<"t">>, {"CREATE", "TRUNC", "WRONLY"}, {}), close(0), forks(2, "truncate3_child"),
    open(<<"t">>, {"CREATE", "WRONLY", "TRUNC"}, Fd), write(0, Bytes(2, 1)), close(0),
    open(<<"t">>, {"CREATE", "WRONLY", "TRUNC"}, Fd), write(0, Bytes(2, 1)), close(0),
    waits, unlink(<<"t">>, {})>>
truncate3_child ==
  <<open(<<"t">>, {"WRONLY"}, Fd), write(0, Bytes(1, 2)), close(0),
    open(<<"t">>, {}, {}), read(0, All, {}), close(0)>>

iputtest ==
  <<mkdir(<<"id">>, Ok), chdir(<<"id">>, Ok), unlink(<<"..", "id">>, Ok), chdir(<<"/">>, Ok)>>

exitiputtest == <<forks(2, "exitiput_child"), waits>>
exitiput_child == <<mkdir(<<"id">>, Ok), chdir(<<"id">>, Ok), unlink(<<"..", "id">>, Ok)>>

openiputtest ==
  <<mkdir(<<"oidir">>, Ok), forks(2, "openiput_child"), unlink(<<"oidir">>, Ok), waits>>
openiput_child == <<open(<<"oidir">>, {"RDWR"}, Bad)>>

opentest == <<open(<<"echo">>, {}, Fd), close(0), open(<<"none">>, {}, Bad)>>

writetest ==
  <<creat(<<"small">>), write(0, Bytes(1, 1)), write(0, Bytes(2, 2)),
    write(0, Bytes(1, 1)), write(0, Bytes(2, 2)), close(0),
    open(<<"small">>, {}, Fd),
    read(0, All, {Bytes(1, 1) \o Bytes(2, 2) \o Bytes(1, 1) \o Bytes(2, 2)}),
    close(0), unlink(<<"small">>, Ok)>>

\* A file of MAXFILE blocks, written and read block by block.
writebig ==
  <<creat(<<"big">>)>>
  \o [i \in 1 .. MAXFILE |-> write(0, Bytes(i, BSIZE))]
  \o <<close(0), open(<<"big">>, {}, Fd)>>
  \o [i \in 1 .. MAXFILE |-> read(0, BSIZE, {Bytes(i, BSIZE)})]
  \o <<read(0, BSIZE, {<<>>}), close(0), unlink(<<"big">>, Ok)>>

createtest ==
  <<creat(<<"a0">>), close(0), creat(<<"a1">>), close(0), creat(<<"a2">>), close(0),
    unlink(<<"a0">>, {}), unlink(<<"a1">>, {}), unlink(<<"a2">>, {})>>

dirtest ==
  <<mkdir(<<"dir0">>, Ok), chdir(<<"dir0">>, Ok), chdir(<<"..">>, Ok), unlink(<<"dir0">>, Ok)>>

-----------------------------------------------------------------------------
\* Parent and child append to one file through one shared offset.
sharedfd ==
  <<unlink(<<"sf">>, {}), creat(<<"sf">>), forks(2, "sharedfd_child"),
    write(0, Bytes(2, 2)), write(0, Bytes(2, 2)), waits, close(0), open(<<"sf">>, {}, Fd),
    read(0, All, {FlattenSeq([k \in 1 .. 4 |-> Bytes(IF k \in S THEN 1 ELSE 2, 2)]) :
                    S \in {T \in SUBSET (1 .. 4) : Cardinality(T) = 2}}),
    close(0), unlink(<<"sf">>, {})>>
sharedfd_child == <<write(0, Bytes(1, 2)), write(0, Bytes(1, 2))>>

\* Processes that write different files at the same time (two of the four).
fourfiles ==
  <<unlink(<<"f0">>, {}), forks(2, "fourfiles_0"), unlink(<<"f1">>, {}), forks(3, "fourfiles_1"),
    waits, waits,
    open(<<"f0">>, {}, Fd), read(0, All, {Bytes(1, 3)}), close(0), unlink(<<"f0">>, {}),
    open(<<"f1">>, {}, Fd), read(0, All, {Bytes(2, 3)}), close(0), unlink(<<"f1">>, {})>>
fourfiles_child(f, v) == <<creat(<<f>>), write(0, Bytes(v, 1)), write(0, Bytes(v, 2))>>

\* Processes that create and delete files in one directory (two of the four,
\* the second stopped after its first file).
createdelete ==
  <<forks(2, "createdelete_p"), forks(3, "createdelete_q"), waits, waits,
    open(<<"p0">>, {}, Fd), close(0), open(<<"q0">>, {}, Fd), close(0),
    open(<<"p1">>, {}, Bad), open(<<"p2">>, {}, Fd), close(0),
    unlink(<<"p0">>, {}), unlink(<<"q0">>, {}), unlink(<<"p2">>, {})>>
createdelete_p ==
  <<creat(<<"p0">>), close(0), creat(<<"p1">>), close(0), creat(<<"p2">>), close(0), unlink(<<"p1">>, Ok)>>
createdelete_q == <<creat(<<"q0">>), close(0)>>

unlinkread ==
  <<creat(<<"ur">>), write(0, Bytes(1, 3)), close(0), open(<<"ur">>, {"RDWR"}, Fd),
    unlink(<<"ur">>, Ok), creat(<<"ur">>), write(1, Bytes(2, 2)), close(1),
    read(0, All, {Bytes(1, 3)}), write(0, Bytes(1, 5)), close(0), unlink(<<"ur">>, {})>>

linktest ==
  <<unlink(<<"lf1">>, {}), unlink(<<"lf2">>, {}), creat(<<"lf1">>), write(0, Bytes(1, 3)), close(0),
    link(<<"lf1">>, <<"lf2">>, Ok), unlink(<<"lf1">>, {}), open(<<"lf1">>, {}, Bad),
    open(<<"lf2">>, {}, Fd), read(0, All, {Bytes(1, 3)}), close(0),
    link(<<"lf2">>, <<"lf2">>, Bad), unlink(<<"lf2">>, {}),
    link(<<"lf2">>, <<"lf1">>, Bad), link(<<".">>, <<"lf1">>, Bad)>>

\* Two processes create, link and unlink the same names.
concreate ==
  <<unlink(<<"C0">>, {}), forks(2, "concreate_0"), creat(<<"C0">>), close(0), waits,
    unlink(<<"C1">>, {}), forks(2, "concreate_1"), link(<<"C0">>, <<"C1">>, {}), waits,
    open(<<".">>, {}, Fd),
    read(0, All, {Listed(<<<<5, "C0">>, <<5, "C1">>>>)}),
    close(0),
    forks(2, "concreate_open"), unlink(<<"C0">>, {}), unlink(<<"C0">>, {}), waits,
    forks(2, "concreate_unlink"), open(<<"C1">>, {}, {}), close(0),
    open(<<"C1">>, {}, {}), close(0), waits>>
concreate_0 == <<creat(<<"C0">>), close(0)>>
concreate_1 == <<link(<<"C0">>, <<"C1">>, {})>>
concreate_open == <<open(<<"C0">>, {}, {}), close(0), open(<<"C0">>, {}, {}), close(0)>>
concreate_unlink == <<unlink(<<"C1">>, {}), unlink(<<"C1">>, {})>>

\* The first calls of the two pseudo-random sequences.
linkunlink ==
  <<unlink(<<"x">>, {}), forks(2, "linkunlink_child"),
    open(<<"x">>, {"RDWR", "CREATE"}, {}), close(0), unlink(<<"x">>, {}),
    link(<<"cat">>, <<"x">>, {}), open(<<"x">>, {"RDWR", "CREATE"}, {}), close(0), waits>>
linkunlink_child ==
  <<open(<<"x">>, {"RDWR", "CREATE"}, {}), close(0), link(<<"cat">>, <<"x">>, {}),
    link(<<"cat">>, <<"x">>, {}), open(<<"x">>, {"RDWR", "CREATE"}, {}), close(0)>>

\* Links until the directory needs its indirect block.
bigdir ==
  <<unlink(<<"bd">>, {}), open(<<"bd">>, {"CREATE"}, Fd), close(0)>>
  \o [i \in 1 .. 5 |-> link(<<"bd">>, <<BigName[i]>>, Ok)]
  \o <<unlink(<<"bd">>, {})>>
  \o [i \in 1 .. 5 |-> unlink(<<BigName[i]>>, Ok)]

-----------------------------------------------------------------------------
subdir ==
  <<unlink(<<"ff">>, {}), mkdir(<<"dd">>, Ok), creat(<<"dd", "ff">>), write(0, Bytes(1, 2)), close(0),
    unlink(<<"dd">>, Bad), mkdir(<<"/", "dd", "dd">>, Ok),
    creat(<<"dd", "dd", "ff">>), write(0, Bytes(2, 2)), close(0),
    open(<<"dd", "dd", "..", "ff">>, {}, Fd), read(0, All, {Bytes(1, 2)}), close(0),
    link(<<"dd", "dd", "ff">>, <<"dd", "dd", "ffff">>, Ok), unlink(<<"dd", "dd", "ff">>, Ok),
    open(<<"dd", "dd", "ff">>, {}, Bad),
    chdir(<<"dd">>, Ok), chdir(<<"dd", "..", "..", "dd">>, Ok),
    chdir(<<"dd", "..", "..", "..", "dd">>, Ok), chdir(<<".", "..">>, Ok),
    open(<<"dd", "dd", "ffff">>, {}, Fd), read(0, All, {Bytes(2, 2)}), close(0),
    open(<<"dd", "dd", "ff">>, {}, Bad)>>
subdir_refused ==
  <<open(<<"dd", "ff", "ff">>, {"CREATE", "RDWR"}, Bad), open(<<"dd", "xx", "ff">>, {"CREATE", "RDWR"}, Bad),
    open(<<"dd">>, {"CREATE"}, Bad), open(<<"dd">>, {"RDWR"}, Bad), open(<<"dd">>, {"WRONLY"}, Bad),
    link(<<"dd", "ff", "ff">>, <<"dd", "dd", "xx">>, Bad), link(<<"dd", "xx", "ff">>, <<"dd", "dd", "xx">>, Bad),
    link(<<"dd", "ff">>, <<"dd", "dd", "ffff">>, Bad),
    mkdir(<<"dd", "ff", "ff">>, Bad), mkdir(<<"dd", "xx", "ff">>, Bad), mkdir(<<"dd", "dd", "ffff">>, Bad),
    unlink(<<"dd", "xx", "ff">>, Bad), unlink(<<"dd", "ff", "ff">>, Bad),
    chdir(<<"dd", "ff">>, Bad), chdir(<<"dd", "xx">>, Bad),
    unlink(<<"dd", "dd", "ffff">>, Ok), unlink(<<"dd", "ff">>, Ok), unlink(<<"dd">>, Bad),
    unlink(<<"dd", "dd">>, Ok), unlink(<<"dd">>, Ok)>>

\* Writes larger than one transaction.
bigwrite ==
  <<unlink(<<"bw">>, {}), creat(<<"bw">>), write(0, Bytes(1, 3)), write(0, Bytes(1, 3)), close(0),
    unlink(<<"bw">>, {}), creat(<<"bw">>), write(0, Bytes(1, 5)), write(0, Bytes(1, 5)), close(0),
    unlink(<<"bw">>, {})>>

\* Processes that create, write and delete at the same time (two of the four).
manywrites == <<forks(2, "manywrites_a"), forks(3, "manywrites_b"), waits, waits>>
manywrites_child(f, n) ==
  <<unlink(<<f>>, {}), creat(<<f>>), write(0, Bytes(1, n)), close(0), unlink(<<f>>, {}), unlink(<<f>>, {})>>

bigfile ==
  <<unlink(<<"bf">>, {}), creat(<<"bf">>), write(0, Bytes(1, 4)), write(0, Bytes(2, 4)),
    write(0, Bytes(3, 4)), close(0), open(<<"bf">>, {}, Fd),
    read(0, 2, {Bytes(1, 2)}), read(0, 2, {Bytes(1, 2)}), read(0, 2, {Bytes(2, 2)}),
    read(0, 2, {Bytes(2, 2)}), read(0, 2, {Bytes(3, 2)}), read(0, 2, {Bytes(3, 2)}),
    read(0, 2, {<<>>}), close(0), unlink(<<"bf">>, {})>>

\* Names longer than DIRSIZ.
fourteen ==
  <<mkdir(<<"n14">>, Ok), mkdir(<<"n14", "n15">>, Ok),
    open(<<"n15", "n15", "n15">>, {"CREATE"}, Fd), close(0),
    open(<<"n14", "n14", "n14">>, {}, Fd), close(0),
    mkdir(<<"n14", "n14">>, Bad), mkdir(<<"n15", "n14">>, Bad),
    unlink(<<"n15", "n14">>, {}), unlink(<<"n14", "n14">>, {}),
    unlink(<<"n14", "n14", "n14">>, {}), unlink(<<"n15", "n15", "n15">>, {}),
    unlink(<<"n14", "n15">>, {}), unlink(<<"n14">>, {})>>

rmdot ==
  <<mkdir(<<"dots">>, Ok), chdir(<<"dots">>, Ok), unlink(<<".">>, Bad), unlink(<<"..">>, Bad),
    chdir(<<"/">>, Ok), unlink(<<"dots", ".">>, Bad), unlink(<<"dots", "..">>, Bad),
    unlink(<<"dots">>, Ok)>>

dirfile ==
  <<open(<<"df">>, {"CREATE"}, Fd), close(0), chdir(<<"df">>, Bad),
    open(<<"df", "xx">>, {}, Bad), open(<<"df", "xx">>, {"CREATE"}, Bad),
    mkdir(<<"df", "xx">>, Bad), unlink(<<"df", "xx">>, Bad),
    link(<<"README">>, <<"df", "xx">>, Bad), unlink(<<"df">>, Ok),
    open(<<".">>, {"RDWR"}, Bad), open(<<".">>, {}, Fd),
    [write(0, Bytes(1, 1)) EXCEPT !.want = Bad], close(0)>>

\* More nested directories than the inode table has entries; empty names.
iref ==
  FlattenSeq([i \in 1 .. NINODE + 1 |->
    <<mkdir(<<"irefd">>, Ok), chdir(<<"irefd">>, Ok), mkdir(<<>>, {}),
      link(<<"README">>, <<>>, {}), open(<<>>, {"CREATE"}, {}),
      open(<<"xx">>, {"CREATE"}, {}), close(0), unlink(<<"xx">>, {})>>])
  \o FlattenSeq([i \in 1 .. NINODE + 1 |-> <<chdir(<<"..">>, {}), unlink(<<"irefd">>, {})>>])
  \o <<chdir(<<"/">>, {})>>

\* A program that writes and reads its own file beside a copy of itself.
stressfs_main(f) ==
  <<creat(<<f>>), write(0, Bytes(1, 2)), close(0), open(<<f>>, {}, Fd), read(0, 2, {}), close(0)>>
stressfs == <<forks(2, "stressfs_1")>> \o stressfs_main("s0") \o <<waits>>

\* The descriptors run out: open() fails, and a file it created stays.
open_full ==
  <<open(<<"README">>, {}, Fd), dup(0), close(1), dup(0), open(<<"README">>, {}, Fd),
    open(<<"README">>, {}, Bad), open(<<"README">>, {"CREATE"}, Bad), open(<<"nf">>, {"CREATE"}, Bad), unlink(<<"nf">>, Ok)>>

-----------------------------------------------------------------------------
Scripts ==
  [init |-> init_main, sh_files |-> sh_files, truncate1 |-> truncate1, truncate2 |-> truncate2,
   truncate3 |-> truncate3, truncate3_child |-> truncate3_child, iputtest |-> iputtest,
   exitiputtest |-> exitiputtest, exitiput_child |-> exitiput_child,
   openiputtest |-> openiputtest, openiput_child |-> openiput_child, opentest |-> opentest,
   writetest |-> writetest, writebig |-> writebig, createtest |-> createtest, dirtest |-> dirtest,
   sharedfd |-> sharedfd, sharedfd_child |-> sharedfd_child, fourfiles |-> fourfiles,
   fourfiles_0 |-> fourfiles_child("f0", 1), fourfiles_1 |-> fourfiles_child("f1", 2),
   createdelete |-> createdelete, createdelete_p |-> createdelete_p,
   createdelete_q |-> createdelete_q, unlinkread |-> unlinkread,
   linktest |-> linktest, concreate |-> concreate, concreate_0 |-> concreate_0,
   concreate_1 |-> concreate_1, concreate_open |-> concreate_open,
   concreate_unlink |-> concreate_unlink, linkunlink |-> linkunlink,
   linkunlink_child |-> linkunlink_child, bigdir |-> bigdir, subdir |-> subdir \o subdir_refused,
   bigwrite |-> bigwrite, manywrites |-> manywrites, manywrites_a |-> manywrites_child("ba", 3),
   manywrites_b |-> manywrites_child("bb", 1), rm_both |-> rm_both, rm_child |-> rm_child,
   bigfile |-> bigfile, fourteen |-> fourteen,
   rmdot |-> rmdot, dirfile |-> dirfile, iref |-> iref, stressfs |-> stressfs, open_full |-> open_full,
   stressfs_1 |-> stressfs_main("s1")]

-----------------------------------------------------------------------------
First(text) == [Idle EXCEPT !.prog = Scripts[text], !.stays = (text = "init"), !.pc = "run",
                            !.cwd = ROOTINO]

\* The kernel has started and init, or a test that it runs, is the one process.
Boot(image, text) ==
  /\ fs' = image /\ dsk' = image /\ ops' = {} /\ dirty' = [p \in Pid |-> {}]
  /\ ref' = [i \in Inum |-> IF i = ROOTINO THEN 1 ELSE 0] /\ valid' = {}
  /\ ilk' = [i \in Inum |-> 0] /\ lost' = {} /\ file' = [f \in File |-> NoFile]
  /\ pr' = [p \in Pid |-> IF p = 1 THEN First(text) ELSE Idle]

Init ==
  /\ fs = mkfs /\ dsk = mkfs /\ ops = {} /\ dirty = [p \in Pid |-> {}]
  /\ ref = [i \in Inum |-> IF i = ROOTINO THEN 1 ELSE 0] /\ valid = {}
  /\ ilk = [i \in Inum |-> 0] /\ lost = {} /\ file = [f \in File |-> NoFile]
  /\ \E text \in Start :
       pr = [p \in Pid |-> IF p = 1 THEN First(text) ELSE Idle]
  /\ failed = FALSE /\ panic = FALSE /\ crashes = 0

\* The scripts' own branches.
Skip(p) ==
  /\ Calling(p, "skip")
  /\ pr' = [pr EXCEPT ![p].prog = SubSeq(@, 2 + (IF pr[p].last >= 0 THEN Cur(p).n ELSE 0), Len(@))]
  /\ UNCHANGED <<fs, dsk, ops, dirty, ref, valid, ilk, lost, file, failed, panic>>

\* Power fails: what the log made durable is left, and init runs.
Crash ==
  /\ crashes < MaxCrash
  /\ crashes' = crashes + 1
  /\ Boot(dsk, "init")
  /\ UNCHANGED <<failed, panic>>

Call(p) ==
  \/ Begin(p) \/ NameDone(p) \/ namex(p) \/ IputFree(p) \/ IputDrop(p) \/ Finish(p)
  \/ OpenFound(p) \/ CreateFound(p) \/ Exists(p) \/ Create(p)
  \/ LinkCount(p) \/ LinkMake(p) \/ LinkBad(p) \/ UnlinkDir(p) \/ Unlink(p) \/ Chdir(p)
Descriptor(p) ==
  \/ Refuse(p) \/ sys_read(p) \/ sys_fstat(p) \/ sys_dup(p) \/ sys_write(p) \/ filewrite(p)
  \/ WriteEnd(p) \/ sys_close(p) \/ CloseInode(p)
Process(p) == fork(p) \/ wait(p) \/ ExitClose(p) \/ ExitCwd(p) \/ exit(p) \/ Skip(p)

Step(p) == (Call(p) \/ Descriptor(p) \/ Process(p)) /\ UNCHANGED crashes
Run == \E p \in Pid : Step(p)

\* The test is over; nothing else stops the system.
Ended == /\ pr[1].pc = "zombie" \/ (pr[1].stays /\ Over(1) /\ At(1, "run"))
         /\ \A p \in Pid \ {1} : pr[p].pc = "idle"
End == Ended /\ UNCHANGED <<vars, crashes>>

Next == Run \/ Crash \/ End
Spec == Init /\ [][Next]_<<vars, crashes>>

-----------------------------------------------------------------------------
(* Properties. *)

\* The links that sys_link() has counted in the inode and not yet made, or not
\* yet taken back.
Counted(i) == Cardinality({p \in Pid : pr[p].old = i /\ ~Over(p) /\ Cur(p).op = "link"})

\* At every moment, in memory and in what a crash would leave, every allocated
\* block belongs to one inode, the tree names no freed inode and no name twice,
\* and an inode's link count is the number of its names (fs.h: "Number of links
\* to inode in file system"), but for the links a sys_link() is making; and an
\* inode without a name exists only as long as someone holds it, until a crash
\* leaves it behind, with one exception: iput() tests for the last reference
\* once, so an inode number it has freed and that is used and unlinked again
\* before it drops its own reference stays allocated (lost).
FsConsistent ==
  /\ BlocksOwned(fs) /\ TreeSound(fs)
  /\ BlocksOwned(dsk) /\ TreeSound(dsk)
  /\ \A i \in Inum :
       /\ fs.type[i] # "free" => fs.nlink[i] = Links(fs, i) + Counted(i)
       /\ dsk.type[i] # "free" => dsk.nlink[i] = Links(dsk, i)
       /\ crashes = 0 /\ fs.type[i] # "free" /\ fs.nlink[i] = 0 => ref[i] > 0 \/ i \in lost

\* The inodes a process holds in the middle of a call.
Walking(p) == pr[p].pc \in {"name", "found", "exists", "unlink", "closing"}
Dropping(p, i) == Cardinality({k \in DOMAIN pr[p].puts : pr[p].puts[k] = i})
Holds(p, i) == Dropping(p, i) + Cardinality({k \in {"ip", "old", "cwd"} :
                  pr[p][k] = i /\ (k = "ip" => Walking(p))})
OpenOn(i) == Cardinality({f \in File : file[f].ref > 0 /\ file[f].ip = i})

\* The inode table counts exactly the working directories, open files and calls
\* in progress that hold an inode, and the file table the descriptors that share
\* a file: every early return of sysfile.c drops what it took, once.
RefsExact ==
  /\ \A i \in Inum : ref[i] = OpenOn(i) + MapThenSumSet(LAMBDA p : Holds(p, i), Pid)
  /\ \A f \in File : file[f].ref = MapThenSumSet(LAMBDA p : Shares(p, f), Pid)

\* Whatever the interleaving, no test meets a result that it reports as a
\* failure, and the kernel does not panic (ilock: no type, freeing free block,
\* unlink: nlink < 1, iget: no inodes, balloc: out of blocks, dirlink).
TestsPass == ~failed /\ ~panic

\* No call writes more blocks in one transaction than begin_op() reserves for
\* it (MAXOPBLOCKS): filewrite()'s chunks, and a path walk that frees an inode
\* on top of the call's own writes, stay within it.
OpFits == \A p \in Pid : Cardinality(dirty[p]) <= MAXOPBLOCKS

\* The process that p waits for: it holds the lock of the inode p needs next.
WaitsFor(p) ==
  LET i == IF pr[p].puts = <<>> THEN pr[p].ip ELSE Head(pr[p].puts)
  IN  IF Walking(p) /\ i # 0 THEN ilk[i] ELSE 0

\* Inode locks cannot deadlock the system: no processes wait for each other in a
\* circle.  sys_unlink() waits for the inode with the directory locked, while
\* others walk or unlink along the same path; parents are locked before
\* children, and "." and "..", which lead back, are refused before the second
\* lock is taken.
LocksLead == \A S \in SUBSET Pid \ {{}} : \E p \in S : WaitsFor(p) \notin S
=============================================================================
