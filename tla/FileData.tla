------------------------------ MODULE FileData ------------------------------
(***************************************************************************)
(* The contents of files: the block bitmap, bmap(), readi(), writei() and  *)
(* itrunc() of fs.c, fileread() and filewrite() of file.c, and the image   *)
(* builder mkfs.c, all of src/ass5/final_repo.  A block holds BSIZE cells; *)
(* a cell stands for a block number or for as many bytes of data, so that  *)
(* NINDIRECT = BSIZE.  The inode lock makes what is done to one file       *)
(* atomic; two processes that write interleave at every block.  Log models *)
(* the transactions, BufferCache the buffers and Inodes the names.         *)
(***************************************************************************)
EXTENDS Integers, Sequences, FiniteSets, FiniteSetsExt

CONSTANTS Procs,
          NInodes,      \* inode 1 is the root directory, mkfs makes 2 as well
          NBlocks,      \* data blocks on the disk
          BSIZE, NDIRECT,
          BPB,          \* bits in a block of the bitmap
          MAXOPBLOCKS,  \* blocks that one call may log (param.h)
          Sizes,        \* bytes that a call of read() or write() asks for
          MaxCalls      \* bound: number of calls

Inums == 1 .. NInodes
ROOTINO == 1
Blocks == 1 .. NBlocks
MAXFILE == NDIRECT + BSIZE
Zeroes == [i \in 0 .. BSIZE - 1 |-> 0]
NoAddrs == [i \in 0 .. NDIRECT |-> 0]
Empty == [addrs |-> NoAddrs, size |-> 0]

VARIABLES
  mode,      \* "mkfs" while the image is built, then "up"
  freeblock, \* of mkfs
  used,      \* the blocks whose bit is set in the bitmap
  cell,      \* contents of the blocks
  dinode,    \* the inodes on the disk
  inode,     \* the inodes in memory
  lock,      \* inode -> the process that holds its lock, or 0
  file,      \* process -> its open file: inode and offset
  pc, left, n1, tot, \* process -> where it is; bytes left, of this chunk, copied
  logged,    \* process -> the blocks that it has logged since begin_op()
  text,      \* what was written to each file: a ghost
  calls,     \* counter for the bound, and the data that the call writes
  panic

disk == <<freeblock, used, cell, dinode>>
local == <<file, pc, left, n1, tot>>
vars == <<mode, disk, inode, lock, local, logged, text, calls, panic>>

Init ==
  /\ mode = "mkfs" /\ freeblock = 1 /\ used = {}
  /\ cell = [b \in Blocks |-> Zeroes]
  /\ dinode = [f \in Inums |-> Empty]
  /\ inode = dinode
  /\ lock = [f \in Inums |-> 0]
  /\ file = [p \in Procs |-> [ip |-> 0, off |-> 0]]
  /\ pc = [p \in Procs |-> "idle"]
  /\ left = [p \in Procs |-> 0] /\ n1 = left /\ tot = left
  /\ logged = [p \in Procs |-> {}]
  /\ text = [f \in Inums |-> <<>>]
  /\ calls = 0 /\ panic = ""

-----------------------------------------------------------------------------
(* Blocks of a file *)

FreeBlocks == IF mode = "mkfs" THEN {b \in Blocks : b >= freeblock} ELSE Blocks \ used

\* What bmap() does for block bn of an inode with these addresses: the blocks it
\* takes (the lowest free ones, zeroed), the address it returns, and the
\* addresses, the contents and the set of logged blocks that it leaves.
Bmap(addrs, bn) ==
  LET indirect == bn >= NDIRECT
      newtable == indirect /\ addrs[NDIRECT] = 0
      table == IF newtable THEN Min(FreeBlocks) ELSE addrs[NDIRECT]
      entries == IF newtable THEN Zeroes ELSE cell[table]
      old == IF indirect THEN entries[bn - NDIRECT] ELSE addrs[bn]
      rest == FreeBlocks \ (IF newtable THEN {table} ELSE {})
      addr == IF old = 0 THEN Min(rest) ELSE old
      got == (IF newtable THEN {table} ELSE {}) \cup (IF old = 0 THEN {addr} ELSE {})
      cleared == [b \in Blocks |-> IF b \in got THEN Zeroes ELSE cell[b]]
  IN [addr |-> addr, got |-> got,
      addrs |-> IF newtable THEN [addrs EXCEPT ![NDIRECT] = table]
                ELSE IF indirect THEN addrs ELSE [addrs EXCEPT ![bn] = addr],
      cell |-> IF indirect THEN [cleared EXCEPT ![table][bn - NDIRECT] = addr] ELSE cleared,
      logs |-> {<<"bitmap", b \div BPB>> : b \in got} \cup {<<"block", b>> : b \in got}
               \cup (IF indirect /\ old = 0 THEN {<<"block", table>>} ELSE {})]

\* The blocks that bmap() would have to allocate.
Missing(addrs, bn) ==
  IF bn < NDIRECT THEN IF addrs[bn] = 0 THEN 1 ELSE 0
  ELSE IF addrs[NDIRECT] = 0 THEN 2
  ELSE IF cell[addrs[NDIRECT]][bn - NDIRECT] = 0 THEN 1 ELSE 0

\* The blocks that the addresses reach, as a sequence: a block that is reached
\* twice is there twice.
Reached(addrs) ==
  LET direct == [i \in 1 .. NDIRECT + 1 |-> addrs[i - 1]]
      more == IF addrs[NDIRECT] = 0 THEN <<>>
              ELSE [i \in 1 .. BSIZE |-> cell[addrs[NDIRECT]][i - 1]]
  IN SelectSeq(direct \o more, LAMBDA b : b # 0)

\* The bytes that one turn of a copying loop covers.
Span(off, n) == Min({n, BSIZE - (off % BSIZE)})

Overwrite(s, off, m, v) ==
  [i \in 1 .. Max({Len(s), off + m}) |-> IF i > off /\ i <= off + m THEN v ELSE s[i]]

Fill(c, addr, off, m, v) ==
  [c EXCEPT ![addr] = [i \in 0 .. BSIZE - 1 |->
     IF i >= off % BSIZE /\ i < (off % BSIZE) + m THEN v ELSE @[i]]]

-----------------------------------------------------------------------------
(* mkfs *)

\* One turn of the loop of iappend(): n bytes that do not cross a block.
Iappend(f, n, v) ==
  LET size == dinode[f].size
      b == Bmap(dinode[f].addrs, size \div BSIZE)
  IN /\ n = Span(size, n)
     /\ size \div BSIZE < MAXFILE
     /\ Missing(dinode[f].addrs, size \div BSIZE) <= Cardinality(FreeBlocks)
     /\ freeblock' = freeblock + Cardinality(b.got)
     /\ cell' = Fill(b.cell, b.addr, size, n, v)
     /\ dinode' = [dinode EXCEPT ![f] = [addrs |-> b.addrs, size |-> size + n]]
     /\ text' = [text EXCEPT ![f] = Overwrite(@, size, n, v)]
     /\ UNCHANGED <<mode, used, inode, lock, local, logged, calls, panic>>

\* The entries of the root directory, one for a file, then the data of the file.
MkfsRoot ==
  /\ mode = "mkfs" /\ dinode[ROOTINO].size < 3
  /\ Iappend(ROOTINO, 1, 3)

MkfsData ==
  /\ mode = "mkfs" /\ dinode[ROOTINO].size = 3
  /\ \E n \in 1 .. BSIZE : Iappend(2, n, 3)

RootSize(size) == (size \div BSIZE + 1) * BSIZE

\* balloc() of mkfs.
Marked == 1 .. freeblock - 1

\* The end of main(), and the kernel that starts: ilock() reads the inodes.
MkfsEnd ==
  LET size == RootSize(dinode[ROOTINO].size) IN
  /\ mode = "mkfs" /\ dinode[ROOTINO].size = 3
  /\ mode' = "up"
  /\ used' = Marked
  /\ dinode' = [dinode EXCEPT ![ROOTINO].size = size]
  /\ inode' = dinode'
  /\ text' = [text EXCEPT ![ROOTINO] = Overwrite(@, 3, size - 3, 0)]
  /\ UNCHANGED <<freeblock, cell, lock, local, logged, calls, panic>>

-----------------------------------------------------------------------------
(* read() and write() *)

At(p, point) == mode = "up" /\ panic = "" /\ pc[p] = point
Call == calls < MaxCalls /\ calls' = calls + 1

Open(p, f) ==
  /\ At(p, "idle") /\ Call
  /\ file' = [file EXCEPT ![p] = [ip |-> f, off |-> 0]]
  /\ UNCHANGED <<mode, disk, inode, lock, pc, left, n1, tot, logged, text, panic>>

\* fileread() and readi(): bmap() would allocate a block that is not there, and
\* log_write() panics outside of a transaction.
Read(p, n) ==
  LET f == file[p].ip
      off == file[p].off
      m == Min({n, inode[f].size - off})
  IN /\ At(p, "idle") /\ f # 0 /\ lock[f] = 0 /\ Call
     /\ IF \A i \in off .. off + m - 1 : Missing(inode[f].addrs, i \div BSIZE) = 0
        THEN file' = [file EXCEPT ![p].off = off + m] /\ UNCHANGED panic
        ELSE panic' = "log_write outside of trans" /\ UNCHANGED file
     /\ UNCHANGED <<mode, disk, inode, lock, pc, left, n1, tot, logged, text>>

\* sys_open() lets a directory be opened for reading only.
SysWrite(p, n) ==
  /\ At(p, "idle") /\ file[p].ip \notin {0, ROOTINO} /\ Call
  /\ pc' = [pc EXCEPT ![p] = "write"]
  /\ left' = [left EXCEPT ![p] = n]
  /\ UNCHANGED <<mode, disk, inode, lock, file, n1, tot, logged, text, panic>>

\* What filewrite() writes in one transaction.
Chunk(n) == Min({n, ((MAXOPBLOCKS - 1 - 1 - 2) \div 2) * BSIZE})

\* begin_op(), ilock() and the tests of writei(): the call fails when the file
\* would become too long, with what it has written before.
StartChunk(p) ==
  LET f == file[p].ip
      n == Chunk(left[p])
      fails == file[p].off > inode[f].size \/ file[p].off + n > MAXFILE * BSIZE
  IN /\ At(p, "write") /\ lock[f] = 0
     /\ logged' = [logged EXCEPT ![p] = {}]
     /\ IF fails THEN pc' = [pc EXCEPT ![p] = "idle"] /\ UNCHANGED <<lock, n1, tot>>
        ELSE /\ pc' = [pc EXCEPT ![p] = "copy"]
             /\ lock' = [lock EXCEPT ![f] = p]
             /\ n1' = [n1 EXCEPT ![p] = n]
             /\ tot' = [tot EXCEPT ![p] = 0]
     /\ UNCHANGED <<mode, disk, inode, file, left, text, calls, panic>>

\* One turn of the loop of writei().
CopyBlock(p) ==
  LET f == file[p].ip
      off == file[p].off + tot[p]
      m == Span(off, n1[p] - tot[p])
      bn == off \div BSIZE
      b == Bmap(inode[f].addrs, bn)
  IN /\ At(p, "copy") /\ tot[p] < n1[p]
     /\ IF Missing(inode[f].addrs, bn) > Cardinality(FreeBlocks)
        THEN /\ panic' = "balloc: out of blocks"
             /\ UNCHANGED <<used, cell, inode, text, tot, logged>>
        ELSE /\ used' = used \cup b.got
             /\ cell' = Fill(b.cell, b.addr, off, m, p)
             /\ inode' = [inode EXCEPT ![f].addrs = b.addrs]
             /\ text' = [text EXCEPT ![f] = Overwrite(@, off, m, p)]
             /\ tot' = [tot EXCEPT ![p] = @ + m]
             /\ logged' = [logged EXCEPT ![p] = @ \cup b.logs \cup {<<"block", b.addr>>}]
             /\ UNCHANGED panic
     /\ UNCHANGED <<mode, freeblock, dinode, lock, file, pc, left, n1, calls>>

\* Mutant: the inode is not written.
UpdatedNot(f, size, p) ==
  /\ inode' = [inode EXCEPT ![f].size = Max({@, size})]
  /\ UNCHANGED <<dinode, logged>>

\* The new size and iupdate(), when the file has grown.
Updated(f, size, p) ==
  IF size > inode[f].size
  THEN /\ inode' = [inode EXCEPT ![f].size = size]
       /\ dinode' = [dinode EXCEPT ![f] = inode'[f]]
       /\ logged' = [logged EXCEPT ![p] = @ \cup {<<"inode", f>>}]
  ELSE UNCHANGED <<inode, dinode, logged>>

\* The end of writei(), the offset of the file, iunlock() and end_op().
EndChunk(p) ==
  LET f == file[p].ip IN
  /\ At(p, "copy") /\ tot[p] = n1[p]
  /\ Updated(f, file[p].off + n1[p], p)
  /\ file' = [file EXCEPT ![p].off = @ + n1[p]]
  /\ lock' = [lock EXCEPT ![f] = 0]
  /\ left' = [left EXCEPT ![p] = @ - n1[p]]
  /\ pc' = [pc EXCEPT ![p] = IF left'[p] > 0 THEN "write" ELSE "idle"]
  /\ UNCHANGED <<mode, freeblock, used, cell, n1, tot, text, calls, panic>>

\* Mutant: the table itself is not freed.
TruncatedKeepsTable(f) ==
  used' = used \ (Range(Reached(inode[f].addrs)) \ {inode[f].addrs[NDIRECT]})

\* The blocks that itrunc() frees.
Truncated(f) ==
  used' = used \ Range(Reached(inode[f].addrs))

\* itrunc() and iupdate(), from the iput() of the last use of an unlinked file.
Itrunc(p, f) ==
  LET freed == Range(Reached(inode[f].addrs)) IN
  /\ At(p, "idle") /\ Call
  /\ f # ROOTINO /\ inode[f] # Empty /\ \A q \in Procs : file[q].ip # f
  /\ IF freed \subseteq used
     THEN /\ Truncated(f)
          /\ inode' = [inode EXCEPT ![f] = Empty]
          /\ dinode' = inode'
          /\ text' = [text EXCEPT ![f] = <<>>]
          /\ logged' = [logged EXCEPT ![p] =
               {<<"bitmap", b \div BPB>> : b \in freed} \cup {<<"inode", f>>}]
          /\ UNCHANGED panic
     ELSE /\ panic' = "freeing free block"
          /\ UNCHANGED <<used, inode, dinode, text, logged>>
  /\ UNCHANGED <<mode, freeblock, cell, lock, local>>

\* The calls are used up, or the machine has panicked.
Stopped ==
  /\ panic # "" \/ (calls = MaxCalls /\ \A p \in Procs : pc[p] = "idle")
  /\ UNCHANGED vars

Next ==
  \/ Stopped
  \/ MkfsRoot \/ MkfsData \/ MkfsEnd
  \/ \E p \in Procs :
       \/ \E f \in Inums : Open(p, f) \/ Itrunc(p, f)
       \/ \E n \in Sizes : Read(p, n) \/ SysWrite(p, n)
       \/ StartChunk(p) \/ CopyBlock(p) \/ EndChunk(p)

Spec == Init /\ [][Next]_vars

-----------------------------------------------------------------------------
(* Properties *)

Used == IF mode = "mkfs" THEN 1 .. freeblock - 1 ELSE used
Of(f) == IF mode = "mkfs" THEN dinode[f] ELSE inode[f]

TypeOK ==
  /\ used \subseteq Blocks /\ freeblock \in 1 .. NBlocks + 1
  /\ \A f \in Inums : /\ inode[f].size \in 0 .. MAXFILE * BSIZE
                      /\ \A i \in 0 .. NDIRECT : inode[f].addrs[i] \in Blocks \cup {0}
  /\ \A p \in Procs : /\ pc[p] \in {"idle", "write", "copy"}
                      /\ tot[p] \in 0 .. n1[p] /\ left[p] \in Nat

\* Every byte of every file is what was last written there, by mkfs or by
\* write(), whatever the other files went through: blocks freed and taken again,
\* the table of indirect blocks made in the middle of a call, two writers.
ContentRight ==
  \A f \in Inums : \A i \in 0 .. Of(f).size - 1 :
    LET bn == i \div BSIZE
        a == Of(f).addrs
        b == IF bn < NDIRECT THEN a[bn] ELSE cell[a[NDIRECT]][bn - NDIRECT]
    IN cell[b][i % BSIZE] = text[f][i + 1]

\* The bitmap is exact: a block is marked if and only if one file reaches it,
\* and then once.  What mkfs, balloc() and bfree() do has to agree.
BlocksOwnedOnce ==
  LET All == FoldFunctionOnSet(\o, <<>>, [f \in Inums |-> Reached(Of(f).addrs)], Inums)
  IN IsInjective(All) /\ Range(All) = Used

\* No call logs more blocks than begin_op() has reserved for it: filewrite() has
\* to count the blocks of the bitmap, the table and the inode.
FitsLog == \A p \in Procs : Cardinality(logged[p]) <= MAXOPBLOCKS

\* "i-node cache is write-through" (fs.c): an inode that nobody has locked is on
\* the disk as it is in memory, although bmap() changes addresses by itself and
\* writei() calls iupdate() only when the file has grown.
WriteThrough ==
  mode = "up" => \A f \in Inums : lock[f] = 0 => inode[f] = dinode[f]

\* No read() meets a block that is missing, and no block is freed twice; a full
\* disk is the one reason to panic.
OnlyFullPanics == panic \in {"", "balloc: out of blocks"}
=============================================================================
