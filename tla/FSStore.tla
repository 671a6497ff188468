------------------------------ MODULE FSStore ------------------------------
(***************************************************************************)
(* What the file system server keeps on a disk: the bit maps of zones and  *)
(* inodes, the inodes with their zones and indirect blocks, the            *)
(* directories, and the table of the inodes in use (src/fs/super.c,        *)
(* inode.c, write.c, link.c, open.c, path.c).  FS serves one call at a     *)
(* time, so a call is a step.                                              *)
(*                                                                         *)
(* A zone is one block.  The size of a file is counted in zones, the size  *)
(* of a directory in slots.  What files contain, times, owners and modes   *)
(* are left out; the block cache is transparent here.                      *)
(***************************************************************************)
EXTENDS BitMap, FiniteSets, SequencesExt

CONSTANTS
  Setups,           \* who uses the disk: [names, paths, calls, inodes, filps]
  Copied,           \* may the copy of what is written fail: a set of Booleans
  s_ninodes,        \* inodes on the disk
  s_firstdatazone,
  NrZones,          \* data zones on the disk
  NR_DZONES,        \* direct zones of an inode
  NR_INDIRECTS,     \* zones in an indirect block
  NR_DIR_ENTRIES,   \* slots in a block of a directory
  BITCHUNK_BITS,    \* bits in a word of a bit map
  LINK_MAX

VARIABLE fs

(* Of a state s: the slots of the inode table, and the files that can be   *)
(* open.                                                                   *)
NR_INODES(s) == s.setup.inodes
NR_FILPS(s) == s.setup.filps

ROOT_INODE == 1
NO_ZONE == 0
NIL_INODE == 0
Inodes == 1 .. s_ninodes
Zones == s_firstdatazone .. s_firstdatazone + NrZones - 1
Single == NR_DZONES
Double == NR_DZONES + 1
NoZones == [k \in 0 .. Double |-> NO_ZONE]
ZeroBlock == [k \in 0 .. NR_INDIRECTS - 1 |-> NO_ZONE]

NotAlloc == [mode |-> "NOT_ALLOC", nlinks |-> 0, size |-> 0, zone |-> NoZones]
Dots(self, parent) ==
  << [name |-> ".", ino |-> self], [name |-> "..", ino |-> parent] >>

(* After mkfs: a root directory with two entries in the first zone.        *)
FSInit ==
  LET root == [mode |-> "DIR", nlinks |-> 2, size |-> 2,
               zone |-> [NoZones EXCEPT ![0] = s_firstdatazone]]
      inode == [i \in Inodes |-> IF i = ROOT_INODE THEN root ELSE NotAlloc]
  IN  \E setup \in Setups :
      fs = [setup |-> setup, zmap |-> {0, 1}, zsearch |-> 0, imap |-> {0, ROOT_INODE}, isearch |-> 0,
            disk |-> inode, core |-> inode,
            count |-> [i \in Inodes |-> IF i = ROOT_INODE THEN 1 ELSE 0],
            dirt |-> {}, pipe |-> {},
            indir |-> [z \in Zones |-> ZeroBlock],
            dir |-> [i \in Inodes |-> IF i = ROOT_INODE THEN Dots(i, i) ELSE << >>],
            filp |-> [i \in Inodes |-> 0],
            err |-> "OK", panic |-> FALSE]

-----------------------------------------------------------------------------
(* Zones and bits.                                                         *)

BitOf(z) == z - (s_firstdatazone - 1)

(* The zone near z, or the first free one when z is the first data zone.   *)
TakeZone(s, hint, b) ==
  IF b = NO_BIT THEN [s |-> [s EXCEPT !.err = "ENOSPC"], z |-> NO_ZONE]
  ELSE [s |-> [s EXCEPT !.zmap = @ \cup {b}, !.zsearch = IF hint THEN b ELSE @],
        z |-> s_firstdatazone - 1 + b]

alloc_zone(s, z) ==
  LET hint == z = s_firstdatazone
      bit == IF hint THEN s.zsearch ELSE BitOf(z)
  IN  TakeZone(s, hint, alloc_bit(s.zmap, NrZones + 1, bit, BITCHUNK_BITS))

free_zone(s, z) ==
  LET b == BitOf(z)
  IN  IF z \notin Zones THEN s
      ELSE IF b \notin s.zmap THEN [s EXCEPT !.panic = TRUE]
      ELSE [s EXCEPT !.zmap = @ \ {b}, !.zsearch = IF b < @ THEN b ELSE @]

free_inode(s, i) ==
  IF i \notin s.imap THEN [s EXCEPT !.panic = TRUE]
  ELSE [s EXCEPT !.imap = @ \ {i}, !.isearch = IF i < @ THEN i ELSE @]

-----------------------------------------------------------------------------
(* The zones of an inode.                                                  *)

SetZone(s, i, k, z) ==
  [s EXCEPT !.core[i].zone[k] = z, !.dirt = @ \cup {i}]

Entry(s, z, k) == IF z = NO_ZONE THEN NO_ZONE ELSE s.indir[z][k]

(* The zone that holds position n of inode i.                              *)
read_map(s, i, n) ==
  LET zone == s.core[i].zone
      ex == n - NR_DZONES
      ex2 == ex - NR_INDIRECTS
  IN  CASE ex < 0 -> zone[n]
        [] ex >= 0 /\ ex2 < 0 -> Entry(s, zone[Single], ex)
        [] OTHER -> Entry(s, Entry(s, zone[Double], ex2 \div NR_INDIRECTS),
                          ex2 % NR_INDIRECTS)

(* The indirect block z, or a new one, cleared, near the first zone.       *)
(* Mutant: wr_indir into a block that was not cleared.                     *)
Cleared_Not(a) == a
Cleared(a) == IF a.z = NO_ZONE THEN a ELSE [a EXCEPT !.s.indir[a.z] = ZeroBlock]
GetIndirect(s, i, z) ==
  IF z # NO_ZONE THEN [s |-> s, z |-> z]
  ELSE Cleared(alloc_zone(s, s.core[i].zone[0]))

(* Enter zone new for position n.  A double indirect block stays in the    *)
(* inode when there is no zone for the single one it should lead to.       *)
WriteSingle(b, i, ex, new) ==
  IF b.z = NO_ZONE THEN b.s
  ELSE [SetZone(b.s, i, Single, b.z) EXCEPT !.indir[b.z][ex] = new]

WriteBelow(b, dbl, k, j, new) ==
  IF b.z = NO_ZONE THEN b.s
  ELSE [b.s EXCEPT !.indir[dbl][k] = b.z, !.indir[b.z][j] = new]

WriteDouble(b, i, k, j, new) ==
  IF b.z = NO_ZONE THEN b.s
  ELSE WriteBelow(GetIndirect(SetZone(b.s, i, Double, b.z), i, b.s.indir[b.z][k]),
                  b.z, k, j, new)

write_map(s, i, n, new) ==
  LET ex == n - NR_DZONES
      ex2 == ex - NR_INDIRECTS
      s1 == [s EXCEPT !.dirt = @ \cup {i}]
  IN  CASE ex < 0 -> SetZone(s, i, n, new)
        [] ex >= 0 /\ ex2 < 0 ->
             WriteSingle(GetIndirect(s1, i, s.core[i].zone[Single]), i, ex, new)
        [] OTHER ->
             WriteDouble(GetIndirect(s1, i, s.core[i].zone[Double]), i,
                         ex2 \div NR_INDIRECTS, ex2 % NR_INDIRECTS, new)

(* A zone for position n; err tells whether there was one.                 *)
KeepZone(s, z) ==
  IF s.err # "OK" THEN free_zone(s, z) ELSE [s EXCEPT !.indir[z] = ZeroBlock]
EnterZone(a, i, n) ==
  IF a.z = NO_ZONE THEN a.s ELSE KeepZone(write_map(a.s, i, n, a.z), a.z)
new_block(s, i, n) ==
  LET first == s.core[i].zone[0]
  IN  IF read_map(s, i, n) # NO_ZONE THEN s
      ELSE EnterZone(alloc_zone(s, IF first = NO_ZONE THEN s_firstdatazone ELSE first), i, n)

wipe_inode(s, i) ==
  [s EXCEPT !.core[i].size = 0, !.core[i].zone = NoZones, !.dirt = @ \cup {i}]

(* The zones of the data, up to the size.  A pipe can shrink; all of its   *)
(* zones are direct ones.                                                  *)
DataZones(s, i) ==
  LET size == s.core[i].size
      zones == CASE i \in s.pipe -> NR_DZONES
                 [] s.core[i].mode = "DIR" -> (size + NR_DIR_ENTRIES - 1) \div NR_DIR_ENTRIES
                 [] OTHER -> size
  IN  [k \in 1 .. zones |-> read_map(s, i, k - 1)]

IndirectZones(s, i) ==
  LET zone == s.core[i].zone
  IN  <<zone[Single]>> \o
      (IF zone[Double] = NO_ZONE THEN << >>
       ELSE [k \in 1 .. NR_INDIRECTS |-> s.indir[zone[Double]][k - 1]] \o <<zone[Double]>>)

(* The indirect slots of a pipe hold file positions.                       *)
truncate(s, i) ==
  LET data == FoldLeft(free_zone, s, DataZones(s, i))
  IN  IF i \in s.pipe THEN wipe_inode(data, i)
      ELSE [FoldLeft(free_zone, data, IndirectZones(s, i)) EXCEPT !.dirt = @ \cup {i}]

-----------------------------------------------------------------------------
(* The inode table.  A result is a state s and the inode ip, or NIL_INODE. *)

InTable(s) == { i \in Inodes : s.count[i] > 0 }
Nil(s, err) == [s |-> [s EXCEPT !.err = err], ip |-> NIL_INODE]

(* rw_inode(rip, WRITING).  The zones that stay in an inode that is not    *)
(* allocated are left out: FS does not read them.                          *)
WriteInode(s, i) ==
  [s EXCEPT !.disk[i] = IF s.core[i].mode = "NOT_ALLOC" THEN NotAlloc ELSE s.core[i],
            !.dirt = @ \ {i}]

get_inode(s, i) ==
  IF s.count[i] > 0 THEN [s |-> [s EXCEPT !.count[i] = @ + 1], ip |-> i]
  ELSE IF Cardinality(InTable(s)) = NR_INODES(s) THEN Nil(s, "ENFILE")
  ELSE [s |-> [s EXCEPT !.count[i] = 1, !.core[i] = s.disk[i]], ip |-> i]

dup_inode(s, i) == [s EXCEPT !.count[i] = @ + 1]

(* The last user is gone: so is the file if it has no link.                *)
Evict(s, i) == [s EXCEPT !.pipe = @ \ {i}, !.core[i] = s.disk[i]]
WriteBack(s, i) == Evict(IF i \in s.dirt THEN WriteInode(s, i) ELSE s, i)
LastPut(s, i) ==
  IF s.core[i].nlinks = 0
  THEN free_inode([truncate(s, i) EXCEPT !.core[i].mode = "NOT_ALLOC",
                                         !.dirt = @ \cup {i}], i)
  ELSE IF i \in s.pipe THEN truncate(s, i) ELSE s
put_inode(s, i) ==
  IF i = NIL_INODE THEN s
  ELSE IF s.count[i] > 1 THEN [s EXCEPT !.count[i] = @ - 1]
  ELSE WriteBack(LastPut([s EXCEPT !.count[i] = 0], i), i)

TakeInode(s, mode, b) ==
  LET taken == [s EXCEPT !.isearch = b, !.imap = @ \cup {b}, !.count[b] = 1,
                         !.core[b] = [NotAlloc EXCEPT !.mode = mode],
                         !.dir[b] = << >>]
  IN  IF b = NO_BIT THEN Nil(s, "ENFILE")
      ELSE IF Cardinality(InTable(s)) = NR_INODES(s)
           THEN Nil([s EXCEPT !.isearch = b], "ENFILE")
      ELSE [s |-> wipe_inode(taken, b), ip |-> b]
alloc_inode(s, mode) ==
  TakeInode(s, mode, alloc_bit(s.imap, s_ninodes + 1, s.isearch, BITCHUNK_BITS))

-----------------------------------------------------------------------------
(* Directories: search_dir for each of its flags.                          *)

IsDir(s, i) == s.core[i].mode = "DIR"
Slots(s, d) == 1 .. s.core[d].size
FreeSlots(s, d) == { k \in Slots(s, d) : s.dir[d][k].ino = NIL_INODE }
Matches(s, d, name) ==
  { k \in Slots(s, d) \ FreeSlots(s, d) : s.dir[d][k].name = name }

LookUp(s, d, name) ==
  LET hits == Matches(s, d, name)
  IN  IF hits = {} THEN NIL_INODE ELSE s.dir[d][Lowest(hits)].ino

IsEmpty(s, d) ==
  \A k \in Slots(s, d) \ FreeSlots(s, d) : s.dir[d][k].name \in {".", ".."}

Delete(s, d, name) ==
  LET hits == Matches(s, d, name)
  IN  IF ~IsDir(s, d) THEN [s EXCEPT !.err = "ENOTDIR"]
      ELSE IF hits = {} THEN [s EXCEPT !.err = "ENOENT"]
      ELSE [s EXCEPT !.err = "OK", !.dirt = @ \cup {d},
                     !.dir[d][Lowest(hits)] = [name |-> "", ino |-> NIL_INODE]]

(* Into the first free slot, else behind the last one, where a block that  *)
(* is full takes a new zone and writes the inode out at once.              *)
AppendEntry(s, d, slot, full) ==
  LET size == s.core[d].size
      longer == [s EXCEPT !.dir[d] = Append(SubSeq(@, 1, size), slot),
                          !.core[d].size = @ + 1, !.dirt = @ \cup {d}]
  IN  IF s.err # "OK" THEN s
      ELSE IF full THEN WriteInode(longer, d) ELSE longer

Enter(s, d, name, ino) ==
  LET ok == [s EXCEPT !.err = "OK"]
      size == s.core[d].size
      slot == [name |-> name, ino |-> ino]
      full == size % NR_DIR_ENTRIES = 0
  IN  IF ~IsDir(s, d) THEN [s EXCEPT !.err = "ENOTDIR"]
      ELSE IF FreeSlots(s, d) # {}
           THEN [ok EXCEPT !.dir[d][Lowest(FreeSlots(s, d))] = slot, !.dirt = @ \cup {d}]
      ELSE AppendEntry(IF full THEN new_block(ok, d, size \div NR_DIR_ENTRIES) ELSE ok,
                       d, slot, full)

(* Paths.                                                                  *)

advance(s, d, name) ==
  IF d = NIL_INODE THEN [s |-> s, ip |-> NIL_INODE]
  ELSE IF ~IsDir(s, d) THEN Nil(s, "ENOTDIR")
  ELSE IF LookUp(s, d, name) = NIL_INODE THEN Nil(s, "ENOENT")
  ELSE get_inode(s, LookUp(s, d, name))

Put(r, i) == [r EXCEPT !.s = put_inode(@, i)]
StepInto(r, name) ==
  IF r.ip = NIL_INODE THEN r ELSE Put(advance(r.s, r.ip, name), r.ip)
DirOnly(r) ==
  IF r.ip # NIL_INODE /\ ~IsDir(r.s, r.ip)
  THEN Nil(put_inode(r.s, r.ip), "ENOTDIR") ELSE r
last_dir(s, path) ==
  DirOnly(FoldLeft(StepInto, [s |-> dup_inode(s, ROOT_INODE), ip |-> ROOT_INODE], path))
eat_path(s, path, name) == StepInto(last_dir(s, path), name)

-----------------------------------------------------------------------------
(* Open, create, close, write, and pipes.                                  *)

NLinks(s, i, d) ==
  [s EXCEPT !.core[i].nlinks = @ + d, !.dirt = @ \cup {i}]

(* The inode of path/name: a new one, or the one that exists and EEXIST.   *)
WithErr(r, err) == [r EXCEPT !.s.err = err]
Undo(s, d, i, err) == Nil(put_inode(NLinks(put_inode(s, d), i, -1), i), err)
Entered(s, d, i) ==
  IF s.err # "OK" THEN Undo(s, d, i, s.err)
  ELSE WithErr([s |-> put_inode(s, d), ip |-> i], "OK")
NewIn(r, d, name) ==
  IF r.ip = NIL_INODE THEN WithErr(Put(r, d), r.s.err)
  ELSE Entered(Enter(WriteInode(NLinks(r.s, r.ip, 1), r.ip), d, name, r.ip), d, r.ip)
NewOrOld(a, d, name, mode) ==
  IF a.ip # NIL_INODE THEN WithErr(Put(a, d), "EEXIST")
  ELSE IF a.s.err # "ENOENT" THEN WithErr(Put(a, d), a.s.err)
  ELSE NewIn(alloc_inode(a.s, mode), d, name)
NodeIn(d, name, mode) ==
  IF d.ip = NIL_INODE THEN d
  ELSE NewOrOld(advance(d.s, d.ip, name), d.ip, name, mode)
new_node(s, path, name, mode) == NodeIn(last_dir(s, path), name, mode)

FilpsUsed(s) == FoldFunction(LAMBDA a, b : a + b, 0, s.filp)
Claim(s, i) == [s EXCEPT !.filp[i] = @ + 1]

(* open, for reading only or not (then a directory is refused).            *)
OpenInode(r, write) ==
  IF r.ip = NIL_INODE THEN r.s
  ELSE IF write /\ IsDir(r.s, r.ip) THEN put_inode(r.s, r.ip)
  ELSE Claim(r.s, r.ip)
do_open(s, path, name, write) ==
  IF FilpsUsed(s) = NR_FILPS(s) THEN s ELSE OpenInode(eat_path(s, path, name), write)

(* O_CREAT and O_TRUNC.                                                    *)
CreatInode(r) ==
  IF r.s.err \notin {"OK", "EEXIST"} THEN r.s
  ELSE IF r.s.err = "OK" THEN Claim(r.s, r.ip)
  ELSE IF IsDir(r.s, r.ip) THEN put_inode(r.s, r.ip)
  ELSE Claim(WriteInode(wipe_inode(truncate(r.s, r.ip), r.ip), r.ip), r.ip)
do_creat(s, path, name) ==
  IF FilpsUsed(s) = NR_FILPS(s) THEN s ELSE CreatInode(new_node(s, path, name, "REGULAR"))

(* The end of a pipe that is closed first leaves its position in the       *)
(* inode, at slot k.                                                       *)
do_close(s, i, k, pos) ==
  LET saved == IF i \in s.pipe /\ s.count[i] > 1
               THEN [s EXCEPT !.core[i].zone[k] = pos] ELSE s
  IN  put_inode([saved EXCEPT !.filp[i] = @ - 1], i)

PipeInode(r) ==
  LET pipe == [dup_inode(r.s, r.ip) EXCEPT !.pipe = @ \cup {r.ip}, !.filp[r.ip] = 2,
                                           !.core[r.ip].mode = "PIPE"]
  IN  IF r.ip = NIL_INODE THEN r.s ELSE WriteInode(pipe, r.ip)
do_pipe(s) ==
  IF FilpsUsed(s) + 2 > NR_FILPS(s) THEN s ELSE PipeInode(alloc_inode(s, "REGULAR"))

(* A block written at position n.  A block that is taken before the copy   *)
(* from the caller fails stays behind the end of the file.                 *)
Grown(s, i, n, copied) ==
  IF s.err # "OK" \/ ~copied THEN s
  ELSE [s EXCEPT !.core[i].size = IF n + 1 > @ THEN n + 1 ELSE @, !.dirt = @ \cup {i}]
do_write(s, i, n, copied) == Grown(new_block(s, i, n), i, n, copied)

(* The reader of a pipe has taken all that is in it.                       *)
ReadPipe(s, i) == [s EXCEPT !.core[i].size = 0, !.dirt = @ \cup {i}]

-----------------------------------------------------------------------------
(* Link, unlink, make and remove directories, rename; the caller is not    *)
(* the super-user and nobody works in a directory that is removed.         *)

CountLink(s, i, d) == IF s.err = "OK" THEN NLinks(s, i, d) ELSE s
EnterLink(a, d, i, name) ==
  IF a.ip # NIL_INODE THEN put_inode(a.s, a.ip)
  ELSE IF a.s.err # "ENOENT" THEN a.s
  ELSE CountLink(Enter(a.s, d, name, i), i, 1)
LinkIn(d, i, name) ==
  IF d.ip = NIL_INODE THEN put_inode(d.s, i)
  ELSE put_inode(put_inode(EnterLink(advance(d.s, d.ip, name), d.ip, i, name), i), d.ip)
LinkTo(r, path, name) ==
  IF r.ip = NIL_INODE THEN r.s
  ELSE IF r.s.core[r.ip].nlinks >= LINK_MAX \/ IsDir(r.s, r.ip) THEN put_inode(r.s, r.ip)
  ELSE LinkIn(last_dir(r.s, path), r.ip, name)
do_link(s, p1, n1, p2, n2) == LinkTo(eat_path(s, p1, n1), p2, n2)

(* Remove an entry of directory d and the link it is to inode i, or to the *)
(* inode it names when i is NIL_INODE.                                     *)
DropEntry(r, d, name) ==
  IF r.ip = NIL_INODE THEN r.s
  ELSE put_inode(CountLink(Delete(r.s, d, name), r.ip, -1), r.ip)
unlink_file(s, d, i, name) ==
  DropEntry(IF i = NIL_INODE THEN advance(s, d, name) ELSE [s |-> dup_inode(s, i), ip |-> i],
            d, name)

DropDots(s, i) ==
  IF s.err # "OK" THEN s
  ELSE [unlink_file(unlink_file(s, i, NIL_INODE, "."), i, NIL_INODE, "..") EXCEPT !.err = "OK"]
remove_dir(s, d, i, name) ==
  IF ~IsDir(s, i) THEN [s EXCEPT !.err = "ENOTDIR"]
  ELSE IF ~IsEmpty(s, i) THEN [s EXCEPT !.err = "ENOTEMPTY"]
  ELSE IF name \in {".", ".."} THEN [s EXCEPT !.err = "EINVAL"]
  ELSE IF i = ROOT_INODE THEN [s EXCEPT !.err = "EBUSY"]
  ELSE DropDots(unlink_file(s, d, i, name), i)

(* unlink(2), and rmdir(2).                                                *)
UnlinkOrRmdir(a, d, name, rmdir) ==
  LET ok == [a.s EXCEPT !.err = "OK"]
  IN  IF a.ip \in {NIL_INODE, ROOT_INODE} THEN a.s
      ELSE IF rmdir THEN remove_dir(ok, d, a.ip, name)
      ELSE IF IsDir(a.s, a.ip) THEN a.s
      ELSE unlink_file(ok, d, a.ip, name)
RemoveFrom(a, d, name, rmdir) == put_inode(put_inode(UnlinkOrRmdir(a, d, name, rmdir), a.ip), d)
RemoveIn(d, name, rmdir) ==
  IF d.ip = NIL_INODE THEN d.s
  ELSE RemoveFrom(advance(d.s, d.ip, name), d.ip, name, rmdir)
do_unlink(s, path, name, rmdir) == RemoveIn(last_dir(s, path), name, rmdir)

(* The parent d is held while new_node works; a directory that cannot have *)
(* both of its entries is taken back.                                      *)
(* Mutant: the name is taken back, the link it was is not.                 *)
MkdirEnds_KeepLink(s, ok, d, i, name) ==
  IF ok THEN NLinks(NLinks(s, i, 1), d, 1) ELSE Delete(s, d, name)
MkdirEnds(s, ok, d, i, name) ==
  IF ok THEN NLinks(NLinks(s, i, 1), d, 1) ELSE NLinks(Delete(s, d, name), i, -1)
DotDot(s, d, i, name) ==
  LET Ends(t) == MkdirEnds(t, s.err = "OK" /\ t.err = "OK", d, i, name)
  IN  Ends(Enter(s, i, "..", d))
FillDir(r, d, name) ==
  IF r.ip = NIL_INODE \/ r.s.err = "EEXIST" THEN put_inode(put_inode(r.s, r.ip), d)
  ELSE put_inode(put_inode(DotDot(Enter(r.s, r.ip, ".", r.ip), d, r.ip, name), d), r.ip)
MkdirIn(d, path, name) ==
  IF d.ip = NIL_INODE THEN d.s
  ELSE IF d.s.core[d.ip].nlinks >= LINK_MAX THEN put_inode(d.s, d.ip)
  ELSE FillDir(new_node(d.s, path, name, "DIR"), d.ip, name)
do_mkdir(s, path, name) == MkdirIn(last_dir(s, path), path, name)

(* Is directory d, which is held once and released, i or below i?  A ".."  *)
(* that cannot be followed counts as yes.                                  *)
Up(a, d) ==
  IF a.ip = NIL_INODE THEN [s |-> put_inode(a.s, d), ip |-> NIL_INODE, yes |-> TRUE]
  ELSE IF a.ip = d
       THEN [s |-> put_inode(put_inode(a.s, d), d), ip |-> NIL_INODE, yes |-> FALSE]
  ELSE [s |-> put_inode(a.s, d), ip |-> a.ip, yes |-> FALSE]
Below(s, d, i) ==
  LET Climb(r, k) ==
        IF r.ip = NIL_INODE THEN r
        ELSE IF r.ip = i THEN [s |-> put_inode(r.s, i), ip |-> NIL_INODE, yes |-> TRUE]
        ELSE Up(advance(r.s, r.ip, ".."), r.ip)
  IN  FoldLeft(Climb, [s |-> s, ip |-> d, yes |-> FALSE], [k \in 1 .. s_ninodes + 1 |-> k])

(* Rename.  The inodes it holds, the names and what they tell are in c;    *)
(* c.new is NIL_INODE when the new name does not exist, and also when its  *)
(* inode finds no slot in the inode table.                                 *)
CheckUp(s, c) ==
  IF c.odir /\ ~c.same_pdir THEN Below(dup_inode(s, c.new_dirp), c.new_dirp, c.old)
  ELSE [s |-> s, yes |-> FALSE]
(* Mutant: without the walk up the superdirectories.                       *)
MayRename_Anywhere(up, c) ==
  /\ {c.n1, c.n2} \cap {".", ".."} = {}
  /\ IF c.new = NIL_INODE
     THEN c.odir /\ ~c.same_pdir => up.s.core[c.new_dirp].nlinks < LINK_MAX
     ELSE c.old # c.new /\ c.odir = IsDir(up.s, c.new)
MayRename(up, c) ==
  /\ ~up.yes
  /\ {c.n1, c.n2} \cap {".", ".."} = {}
  /\ IF c.new = NIL_INODE
     THEN c.odir /\ ~c.same_pdir => up.s.core[c.new_dirp].nlinks < LINK_MAX
     ELSE c.old # c.new /\ c.odir = IsDir(up.s, c.new)

RemoveTarget(s, c) ==
  IF c.new = NIL_INODE THEN s
  ELSE IF c.odir THEN remove_dir(s, c.new_dirp, c.new, c.n2)
  ELSE unlink_file(s, c.new_dirp, c.new, c.n2)
DropOld(s, c) == IF s.err = "OK" THEN Delete(s, c.old_dirp, c.n1) ELSE s
MoveEntry(s, c) ==
  IF c.same_pdir THEN Enter(Delete(s, c.old_dirp, c.n1), c.old_dirp, c.n2, c.old)
  ELSE DropOld(Enter(s, c.new_dirp, c.n2, c.old), c)
NewParent(s, c) ==
  IF s.err # "OK" \/ ~c.odir \/ c.same_pdir THEN s
  ELSE CountLink(Enter(unlink_file(s, c.old, NIL_INODE, ".."), c.old, "..", c.new_dirp),
                 c.new_dirp, 1)
Move(s, c) == IF s.err # "OK" THEN s ELSE NewParent(MoveEntry(s, c), c)

Renamed(up, c) ==
  IF MayRename(up, c) THEN Move(RemoveTarget([up.s EXCEPT !.err = "OK"], c), c) ELSE up.s
PutAll(s, c) ==
  put_inode(put_inode(put_inode(put_inode(s, c.old_dirp), c.old), c.new_dirp), c.new)
RenameAll(s, c) ==
  PutAll(IF NIL_INODE \in {c.old, c.new_dirp} THEN s ELSE Renamed(CheckUp(s, c), c), c)

RenameTo(od, old, nd, new, n1, n2) ==
  RenameAll(new.s, [old_dirp |-> od, old |-> old, new_dirp |-> nd, new |-> new.ip,
                    n1 |-> n1, n2 |-> n2, same_pdir |-> od = nd,
                    odir |-> old # NIL_INODE /\ IsDir(new.s, old)])
RenameInto(od, old, nd, n1, n2) == RenameTo(od, old, nd.ip, advance(nd.s, nd.ip, n2), n1, n2)
RenameOld(od, old, n1, p2, n2) == RenameInto(od, old.ip, last_dir(old.s, p2), n1, n2)
RenameFrom(od, n1, p2, n2) ==
  IF od.ip = NIL_INODE THEN od.s
  ELSE RenameOld(od.ip, advance(od.s, od.ip, n1), n1, p2, n2)
do_rename(s, p1, n1, p2, n2) == RenameFrom(last_dir(s, p1), n1, p2, n2)

-----------------------------------------------------------------------------
(* A call, when it is among the calls.                                     *)
Does(call, s) == call \in fs.setup.calls /\ ~fs.panic /\ fs' = [s EXCEPT !.err = "OK"]
Paths == fs.setup.paths
Names == fs.setup.names
Opened == { i \in Inodes : fs.filp[i] > 0 }
Positions == 0 .. NR_DZONES + NR_INDIRECTS + NR_INDIRECTS * NR_INDIRECTS - 1

Open == \E p \in Paths, n \in Names, w \in BOOLEAN : Does("open", do_open(fs, p, n, w))
Creat == \E p \in Paths, n \in Names : Does("creat", do_creat(fs, p, n))
Close == \E i \in Opened, k \in {Single, Double}, pos \in {0, s_firstdatazone + 1} :
           Does("close", do_close(fs, i, k, pos))
Write == \E i \in Opened \ fs.pipe, n \in Positions, c \in Copied :
           ~IsDir(fs, i) /\ Does("write", do_write(fs, i, n, c))
Pipe == Does("pipe", do_pipe(fs))
WritePipe == \E i \in Opened \cap fs.pipe, n \in 0 .. NR_DZONES - 1 :
           Does("pipe", do_write(fs, i, n, TRUE))
EmptyPipe == \E i \in Opened \cap fs.pipe : Does("pipe", ReadPipe(fs, i))
LinkTwo == \E p1, p2 \in Paths, n1, n2 \in Names : Does("link", do_link(fs, p1, n1, p2, n2))
Unlink == \E p \in Paths, n \in Names : Does("unlink", do_unlink(fs, p, n, FALSE))
Rmdir == \E p \in Paths, n \in Names : Does("rmdir", do_unlink(fs, p, n, TRUE))
Mkdir == \E p \in Paths, n \in Names : Does("mkdir", do_mkdir(fs, p, n))
Rename == \E p1, p2 \in Paths, n1, n2 \in Names :
            Does("rename", do_rename(fs, p1, n1, p2, n2))

FSNext ==
  \/ Open \/ Creat \/ Close \/ Write \/ Pipe \/ WritePipe \/ EmptyPipe
  \/ LinkTwo \/ Unlink \/ Rmdir \/ Mkdir \/ Rename

FSSpec == FSInit /\ [][FSNext]_fs

-----------------------------------------------------------------------------
(* The inode as FS knows it: in the table, or else on the disk.            *)
Known(i) == IF fs.count[i] > 0 THEN fs.core[i] ELSE fs.disk[i]
Allocated == { i \in Inodes : Known(i).mode # "NOT_ALLOC" }
Dirs == { i \in Inodes : Known(i).mode = "DIR" }

ZonesOf(i) ==
  LET s == [fs EXCEPT !.core[i] = Known(i)]
  IN  DataZones(s, i) \o IF i \in fs.pipe THEN << >> ELSE IndirectZones(s, i)
AllZones ==
  LET In(i) == SelectSeq(ZonesOf(i), LAMBDA z : z # NO_ZONE)
  IN  FoldLeft(LAMBDA q, i : q \o In(i), << >>, SetToSeq(Allocated))

(* Every zone that the bit map has in use belongs to one file, directory   *)
(* or pipe, once, as data or as an indirect block, and the search for the  *)
(* next zone skips none that is free.                                      *)
ZonesOwnedOnce ==
  /\ ~fs.panic
  /\ IsInjective(AllZones)
  /\ { BitOf(z) : z \in ToSet(AllZones) } = fs.zmap \ {0}
  /\ SkipsNoFree(fs.zmap, fs.zsearch)

EntriesFor(i) ==
  UNION { { <<d, k>> : k \in { k \in 1 .. Known(d).size : fs.dir[d][k].ino = i } } : d \in Dirs }

(* The link count of an inode is the number of entries that name it, an    *)
(* inode is in use in the bit map while it has a link or is open, and the  *)
(* table counts just the files that are open and the root directory.       *)
InodesExact ==
  /\ \A i \in Inodes :
       /\ Known(i).nlinks = Cardinality(EntriesFor(i))
       /\ i \in Allocated <=> i \in fs.imap
       /\ i \in Allocated => Known(i).nlinks > 0 \/ fs.count[i] > 0
       /\ fs.count[i] = fs.filp[i] + (IF i = ROOT_INODE THEN 1 ELSE 0)
  /\ SkipsNoFree(fs.imap, fs.isearch)

Target(d, name) ==
  LET s == [fs EXCEPT !.core[d] = Known(d)] IN LookUp(s, d, name)

(* The directories form a tree: each one that has a name has its "." and   *)
(* its "..", which is the one directory where it has its name, and the way *)
(* up leads to the root.                                                   *)
TreeKept ==
  \A d \in { i \in Dirs : Known(i).nlinks > 0 } :
    /\ Target(d, ".") = d
    /\ d # ROOT_INODE =>
         { e[1] : e \in { e \in EntriesFor(d) : fs.dir[e[1]][e[2]].name \notin {".", ".."} } }
           = {Target(d, "..")}
    /\ \E n \in 0 .. s_ninodes :
         LET up[k \in 0 .. n] == IF k = 0 THEN d ELSE Target(up[k - 1], "..")
         IN  up[n] = ROOT_INODE

(* rename(2): "If to exists, then it is first removed"; no directory has   *)
(* two entries with one name.                                              *)
NamesUnique ==
  \A d \in Dirs : \A j, k \in 1 .. Known(d).size :
    (j # k /\ fs.dir[d][j].ino # NIL_INODE /\ fs.dir[d][k].ino # NIL_INODE)
      => fs.dir[d][j].name # fs.dir[d][k].name
=============================================================================
