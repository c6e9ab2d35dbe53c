------------------------------- MODULE Inode -------------------------------
(* The inode layer of fs.c under the system calls of sysfile.c that make,  *)
(* open, link, unlink, write and close files of one directory.             *)
(*                                                                         *)
(* A section under icache.lock, the use of one locked disk buffer, and     *)
(* what is done to an inode by the holder of its sleep lock are steps;     *)
(* iput() frees an inode in four of them, since it does so without the     *)
(* lock.  The directory is the root: always cached, never freed, with a    *)
(* sleep lock of its own.  Transactions (module Log) make the disk writes  *)
(* of a call atomic for a crash and order nothing between calls.           *)
EXTENDS Integers, FiniteSets

CONSTANTS
    Procs, Names,
    ninodes,     \* sb.ninodes - 1: disk inodes 1 .. ninodes can hold files
    NINODE,      \* entries of the inode cache
    Blocks,      \* data blocks
    MaxAddrs,    \* bound: blocks in a file
    AfterStale,  \* bound: 0 if behaviours are followed until stale is set, 1 if further
    Nobody

ASSUME InodeAssumption ==
    /\ ninodes \in Nat \ {0} /\ NINODE \in Nat \ {0} /\ MaxAddrs \in Nat
    /\ AfterStale \in {0, 1} /\ Nobody \notin Procs
    /\ IsFiniteSet(Blocks) /\ ninodes * MaxAddrs <= Cardinality(Blocks)

Inums == 1 .. ninodes
Slots == 1 .. NINODE

VARIABLES
    dinode,      \* the disk inodes: type, nlink, addrs (a set of blocks)
    bitmap,      \* the blocks marked in use
    dir,         \* the directory: the inode number of a name, 0 if there is none
    dirlock,     \* the directory's sleep lock
    icache,      \* the entries: inum, ref, valid, lock, and d, the copy of the disk inode
    pc,
    ip,          \* the local variable ip of a call: an entry of the cache, 0 for none
    inum,        \* what ialloc() chose
    name,        \* the path argument of a call, the second one of link()
    file,        \* the entry an open file refers to, 0 if the process has none
    panicked,
    stale        \* history: 1 once create() has found its new inode cached and valid

diskVars == <<dinode, bitmap>>
dirVars == <<dir, dirlock>>
vars == <<diskVars, dirVars, icache, pc, ip, inum, name, file, panicked, stale>>

-----------------------------------------------------------------------------
\* A free disk inode; the type of an allocated one is "file".
NoFile == [type |-> "free", nlink |-> 0, addrs |-> {}]

\* An empty directory on a fresh file system, after iinit().
Init ==
    /\ dinode = [k \in Inums |-> NoFile]
    /\ bitmap = {}
    /\ dir = [f \in Names |-> 0]
    /\ dirlock = Nobody
    /\ icache = [e \in Slots |-> [inum |-> 0, ref |-> 0, valid |-> 0, lock |-> Nobody, d |-> NoFile]]
    /\ pc = [p \in Procs |-> "user"]
    /\ ip = [p \in Procs |-> 0] /\ inum = [p \in Procs |-> 0] /\ file = [p \in Procs |-> 0]
    /\ name \in {[p \in Procs |-> f] : f \in Names}
    /\ panicked = "no"
    /\ stale = 0

Running == panicked = "no" /\ stale <= AfterStale
At(p, l) == pc[p] = l /\ Running
Goto(p, l) == pc' = [pc EXCEPT ![p] = l]
Panic(msg) == panicked' = msg

SlotsOf(k) == {e \in Slots : icache[e].ref > 0 /\ icache[e].inum = k}
FreeSlots == {e \in Slots : icache[e].ref = 0}
Lowest(S) == CHOOSE x \in S : \A y \in S : x <= y

\* iget(): the entry of inode k, or the first unused one.
IgetSlot(k) == IF SlotsOf(k) # {} THEN Lowest(SlotsOf(k)) ELSE Lowest(FreeSlots)

\* Mutant: a reference to a cached inode is not counted.
IgetEntryUncounted(k) ==
    LET e == icache[IgetSlot(k)]
    IN IF SlotsOf(k) # {} THEN e
       ELSE [e EXCEPT !.inum = k, !.ref = 1, !.valid = 0]

IgetEntry(k) ==
    LET e == icache[IgetSlot(k)]
    IN IF SlotsOf(k) # {} THEN [e EXCEPT !.ref = @ + 1]
       ELSE [e EXCEPT !.inum = k, !.ref = 1, !.valid = 0]

\* p gets a reference to inode k and goes on at l, or the kernel panics.
Iget(p, k, l) ==
    IF SlotsOf(k) = {} /\ FreeSlots = {}
    THEN Panic("iget: no inodes") /\ UNCHANGED <<icache, ip, pc>>
    ELSE /\ icache' = [icache EXCEPT ![IgetSlot(k)] = IgetEntry(k)]
         /\ ip' = [ip EXCEPT ![p] = IgetSlot(k)]
         /\ Goto(p, l)
         /\ UNCHANGED panicked

\* ilock(): the entry as its holder finds it, read from the disk if need be.
Loaded(e) ==
    IF icache[e].valid = 1 THEN icache[e]
    ELSE [icache[e] EXCEPT !.valid = 1, !.d = dinode[icache[e].inum]]

\* dirlookup() without its iget(), and dirlink() of a name that is not there.
Dirlookup(f) == dir[f]
Dirlink(f, k) == dir' = [dir EXCEPT ![f] = k]

\* balloc(): a block that is not in use.
Balloc == CHOOSE b \in Blocks : b \notin bitmap

\* bmap(): the blocks of a file that grows by block b.
Bmap(d, b) == [d EXCEPT !.addrs = @ \cup {b}]

\* bfree() of the blocks in S.
Bfree(S) ==
    /\ bitmap' = bitmap \ S
    /\ panicked' = IF S \subseteq bitmap THEN "no" ELSE "freeing free block"

CanLock(e) == icache[e].lock = Nobody

\* ilock() panics when it has read a free inode.
NoType(e) == icache[e].valid = 0 /\ dinode[icache[e].inum].type = "free"

IlockPanics(e) == Panic("ilock: no type") /\ UNCHANGED <<diskVars, dirVars, icache, pc, ip, inum, name, file, stale>>

-----------------------------------------------------------------------------
(* open() and create() *)

\* A system call with the path f.
Call(p, f) ==
    /\ At(p, "user")
    /\ name' = [name EXCEPT ![p] = f]
    /\ \E l \in {"link", "unlink"} \cup (IF file[p] = 0 THEN {"open", "create"} ELSE {}) : Goto(p, l)
    /\ UNCHANGED <<diskVars, dirVars, icache, ip, inum, file, panicked, stale>>

\* namei() in open() and in link(): the lookup under the directory's lock.
Namei(p, l, next) ==
    /\ At(p, l)
    /\ dirlock = Nobody
    /\ IF Dirlookup(name[p]) = 0
       THEN Goto(p, "user") /\ UNCHANGED <<icache, ip, panicked>>
       ELSE Iget(p, Dirlookup(name[p]), next)
    /\ UNCHANGED <<diskVars, dirVars, inum, file, stale>>

Open(p) == Namei(p, "open", "open: ilock") /\ UNCHANGED name

FreeInums == {k \in Inums : dinode[k].type = "free"}

\* create(): an existing file is taken under the directory's lock ...
CreateFinds(p) ==
    /\ At(p, "create")
    /\ dirlock = Nobody
    /\ Dirlookup(name[p]) # 0
    /\ Iget(p, Dirlookup(name[p]), "create: found")
    /\ UNCHANGED <<diskVars, dirVars, inum, name, file, stale>>

\* ... otherwise ialloc() marks the first free disk inode allocated.
Ialloc(p) ==
    /\ At(p, "create")
    /\ dirlock = Nobody
    /\ Dirlookup(name[p]) = 0
    /\ dirlock' = p
    /\ IF FreeInums = {}
       THEN Panic("ialloc: no inodes") /\ UNCHANGED <<dinode, inum, pc>>
       ELSE /\ dinode' = [dinode EXCEPT ![Lowest(FreeInums)] = [NoFile EXCEPT !.type = "file"]]
            /\ inum' = [inum EXCEPT ![p] = Lowest(FreeInums)]
            /\ Goto(p, "create: iget")
            /\ UNCHANGED panicked
    /\ UNCHANGED <<bitmap, dir, icache, ip, name, file, stale>>

\* The iget() that ends ialloc().
CreateIget(p) ==
    /\ At(p, "create: iget")
    /\ Iget(p, inum[p], "create: ilock")
    /\ inum' = [inum EXCEPT ![p] = 0]
    /\ UNCHANGED <<diskVars, dirVars, name, file, stale>>

CreateIlock(p) ==
    /\ At(p, "create: ilock")
    /\ CanLock(ip[p])
    /\ IF NoType(ip[p]) THEN IlockPanics(ip[p])
       ELSE /\ icache' = [icache EXCEPT ![ip[p]] = [Loaded(ip[p]) EXCEPT !.lock = p]]
            /\ stale' = IF icache[ip[p]].valid = 1 THEN 1 ELSE stale
            /\ Goto(p, "create: init")
            /\ UNCHANGED <<diskVars, dirVars, ip, inum, name, file, panicked>>

\* nlink = 1, iupdate(), dirlink(), and the directory is unlocked.
CreateInit(p) ==
    /\ At(p, "create: init")
    /\ LET e == ip[p]
           d == [icache[e].d EXCEPT !.nlink = 1]
       IN /\ icache' = [icache EXCEPT ![e].d = d]
          /\ dinode' = [dinode EXCEPT ![icache[e].inum] = d]
          /\ Dirlink(name[p], icache[e].inum)
    /\ dirlock' = Nobody
    /\ Goto(p, "open: file")
    /\ UNCHANGED <<bitmap, ip, inum, name, file, panicked, stale>>

\* ilock() in open(), and in create() for a file that exists, which then must be
\* a T_FILE.
OpenIlock(p) ==
    /\ Running /\ pc[p] \in {"open: ilock", "create: found"}
    /\ CanLock(ip[p])
    /\ IF NoType(ip[p]) THEN IlockPanics(ip[p])
       ELSE /\ IF pc[p] = "create: found" /\ Loaded(ip[p]).d.type # "file"
               THEN /\ icache' = [icache EXCEPT ![ip[p]] = Loaded(ip[p])]
                    /\ Goto(p, "iput")
               ELSE /\ icache' = [icache EXCEPT ![ip[p]] = [Loaded(ip[p]) EXCEPT !.lock = p]]
                    /\ Goto(p, "open: file")
            /\ UNCHANGED <<diskVars, dirVars, ip, inum, name, file, panicked, stale>>

\* filealloc() and fdalloc(): the descriptor of p now refers to entry e.
Fdalloc(p, e) == file[p] = 0 /\ file' = [file EXCEPT ![p] = e]

\* filealloc() and fdalloc() succeed, and the open file keeps the reference, or
\* one of them fails and the inode is put back.
OpenFile(p) ==
    /\ At(p, "open: file")
    /\ icache' = [icache EXCEPT ![ip[p]].lock = Nobody]
    /\ \/ /\ Fdalloc(p, ip[p])
          /\ ip' = [ip EXCEPT ![p] = 0]
          /\ Goto(p, "user")
       \/ Goto(p, "iput") /\ UNCHANGED <<file, ip>>
    /\ UNCHANGED <<diskVars, dirVars, inum, name, panicked, stale>>

-----------------------------------------------------------------------------
(* write() and close() *)

\* writei() with entry e locked: the file grows by a block, and iupdate().
Writei(e) ==
    IF bitmap = Blocks
    THEN Panic("balloc: out of blocks") /\ UNCHANGED <<icache, diskVars>>
    ELSE LET d == Bmap(Loaded(e).d, Balloc) IN
         /\ bitmap' = bitmap \cup {Balloc}
         /\ icache' = [icache EXCEPT ![e] = [Loaded(e) EXCEPT !.d = d]]
         /\ dinode' = [dinode EXCEPT ![icache[e].inum] = d]
         /\ UNCHANGED panicked

\* filewrite(): ilock(), writei(), iunlock().
Write(p) ==
    /\ At(p, "user") /\ file[p] # 0
    /\ CanLock(file[p])
    /\ Cardinality(Loaded(file[p]).d.addrs) < MaxAddrs
    /\ IF NoType(file[p]) THEN Panic("ilock: no type") /\ UNCHANGED <<icache, diskVars>>
                          ELSE Writei(file[p])
    /\ UNCHANGED <<dirVars, pc, ip, inum, name, file, stale>>

\* close(): fileclose() of the last descriptor, which calls iput().
Close(p) ==
    /\ At(p, "user") /\ file[p] # 0
    /\ ip' = [ip EXCEPT ![p] = file[p]]
    /\ file' = [file EXCEPT ![p] = 0]
    /\ Goto(p, "iput")
    /\ UNCHANGED <<diskVars, dirVars, icache, inum, name, panicked, stale>>

-----------------------------------------------------------------------------
(* iput() *)

LastOfUnlinked(e) == icache[e].ref = 1 /\ icache[e].valid = 1 /\ icache[e].d.nlink = 0

\* The test, under icache.lock: the reference is dropped, or the lock is.
Iput(p) ==
    /\ At(p, "iput")
    /\ IF LastOfUnlinked(ip[p])
       THEN Goto(p, "iput: itrunc") /\ UNCHANGED <<icache, ip>>
       ELSE /\ icache' = [icache EXCEPT ![ip[p]].ref = @ - 1]
            /\ ip' = [ip EXCEPT ![p] = 0]
            /\ Goto(p, "user")
    /\ UNCHANGED <<diskVars, dirVars, inum, name, file, panicked, stale>>

\* Mutant: the blocks stay marked in use.
ItruncLeaks(p) ==
    /\ At(p, "iput: itrunc")
    /\ LET e == ip[p]
           d == [icache[e].d EXCEPT !.addrs = {}]
       IN /\ icache' = [icache EXCEPT ![e].d = d]
          /\ dinode' = [dinode EXCEPT ![icache[e].inum] = d]
    /\ Goto(p, "iput: free")
    /\ UNCHANGED <<bitmap, dirVars, ip, inum, name, file, panicked, stale>>

\* itrunc(): bfree() of every block, and iupdate().
Itrunc(p) ==
    /\ At(p, "iput: itrunc")
    /\ LET e == ip[p]
           d == [icache[e].d EXCEPT !.addrs = {}]
       IN /\ icache' = [icache EXCEPT ![e].d = d]
          /\ dinode' = [dinode EXCEPT ![icache[e].inum] = d]
          /\ Bfree(icache[e].d.addrs)
    /\ Goto(p, "iput: free")
    /\ UNCHANGED <<dirVars, ip, inum, name, file, stale>>

\* type = 0 and iupdate(): from here on ialloc() can choose the inode.
IputFrees(p) ==
    /\ At(p, "iput: free")
    /\ LET e == ip[p]
           d == [icache[e].d EXCEPT !.type = "free"]
       IN /\ icache' = [icache EXCEPT ![e].d = d]
          /\ dinode' = [dinode EXCEPT ![icache[e].inum] = d]
    /\ Goto(p, "iput: drop")
    /\ UNCHANGED <<bitmap, dirVars, ip, inum, name, file, panicked, stale>>

\* icache.lock again: flags = 0, and the reference is dropped.
IputDrops(p) ==
    /\ At(p, "iput: drop")
    /\ icache' = [icache EXCEPT ![ip[p]].valid = 0, ![ip[p]].ref = @ - 1]
    /\ ip' = [ip EXCEPT ![p] = 0]
    /\ Goto(p, "user")
    /\ UNCHANGED <<diskVars, dirVars, inum, name, file, panicked, stale>>

-----------------------------------------------------------------------------
(* unlink() and link() *)

\* sys_unlink(): the lookup; the directory stays locked when the name is there.
Unlink(p) ==
    /\ At(p, "unlink")
    /\ dirlock = Nobody
    /\ IF Dirlookup(name[p]) = 0
       THEN Goto(p, "user") /\ UNCHANGED <<dirlock, icache, ip, panicked>>
       ELSE dirlock' = p /\ Iget(p, Dirlookup(name[p]), "unlink: ilock")
    /\ UNCHANGED <<diskVars, dir, inum, name, file, stale>>

\* ilock(ip), the entry is cleared, the directory unlocked.
UnlinkEntry(p) ==
    /\ At(p, "unlink: ilock")
    /\ CanLock(ip[p])
    /\ IF NoType(ip[p]) THEN IlockPanics(ip[p])
       ELSE /\ icache' = [icache EXCEPT ![ip[p]] = [Loaded(ip[p]) EXCEPT !.lock = p]]
            /\ panicked' = IF Loaded(ip[p]).d.nlink < 1 THEN "unlink: nlink < 1" ELSE "no"
            /\ dir' = [dir EXCEPT ![name[p]] = 0]
            /\ dirlock' = Nobody
            /\ Goto(p, "unlink: nlink")
            /\ UNCHANGED <<diskVars, ip, inum, name, file, stale>>

\* nlink changes by one under the inode's lock, and iupdate().
SetNlink(p, e, n) ==
    LET d == [Loaded(e).d EXCEPT !.nlink = n]
    IN /\ icache' = [icache EXCEPT ![e] = [Loaded(e) EXCEPT !.d = d, !.lock = Nobody]]
       /\ dinode' = [dinode EXCEPT ![icache[e].inum] = d]

\* nlink--, iupdate(), iunlockput().
UnlinkDrops(p) ==
    /\ At(p, "unlink: nlink")
    /\ SetNlink(p, ip[p], icache[ip[p]].d.nlink - 1)
    /\ Goto(p, "iput")
    /\ UNCHANGED <<bitmap, dirVars, ip, inum, name, file, panicked, stale>>

\* sys_link(): namei(old); the new name replaces it as the argument.
Link(p) ==
    /\ Namei(p, "link", "link: ilock")
    /\ \E f \in Names : name' = [name EXCEPT ![p] = f]

\* ilock(ip), nlink++, iupdate(), iunlock().
LinkCounts(p) ==
    /\ At(p, "link: ilock")
    /\ CanLock(ip[p])
    /\ IF NoType(ip[p]) THEN IlockPanics(ip[p])
       ELSE /\ SetNlink(p, ip[p], Loaded(ip[p]).d.nlink + 1)
            /\ Goto(p, "link: dirlink")
            /\ UNCHANGED <<bitmap, dirVars, ip, inum, name, file, panicked, stale>>

\* dirlink() under the directory's lock fails when the name exists.
LinkEntry(p) ==
    /\ At(p, "link: dirlink")
    /\ dirlock = Nobody
    /\ IF Dirlookup(name[p]) # 0
       THEN Goto(p, "link: bad") /\ UNCHANGED dir
       ELSE Goto(p, "iput") /\ Dirlink(name[p], icache[ip[p]].inum)
    /\ UNCHANGED <<diskVars, dirlock, icache, ip, inum, name, file, panicked, stale>>

\* Mutant: the count is not taken back.
LinkBadForgets(p) ==
    /\ At(p, "link: bad")
    /\ CanLock(ip[p])
    /\ Goto(p, "iput")
    /\ UNCHANGED <<diskVars, dirVars, icache, ip, inum, name, file, panicked, stale>>

\* bad: ilock(ip), nlink--, iupdate(), iunlockput().
LinkBad(p) ==
    /\ At(p, "link: bad")
    /\ CanLock(ip[p])
    /\ IF NoType(ip[p]) THEN IlockPanics(ip[p])
       ELSE /\ SetNlink(p, ip[p], Loaded(ip[p]).d.nlink - 1)
            /\ Goto(p, "iput")
            /\ UNCHANGED <<bitmap, dirVars, ip, inum, name, file, panicked, stale>>

Halted == ~Running /\ UNCHANGED vars

Next ==
    \/ \E p \in Procs :
        \/ \E f \in Names : Call(p, f)
        \/ Open(p) \/ CreateFinds(p) \/ Ialloc(p) \/ CreateIget(p) \/ CreateIlock(p)
        \/ CreateInit(p) \/ OpenIlock(p) \/ OpenFile(p)
        \/ Write(p) \/ Close(p)
        \/ Iput(p) \/ Itrunc(p) \/ IputFrees(p) \/ IputDrops(p)
        \/ Unlink(p) \/ UnlinkEntry(p) \/ UnlinkDrops(p)
        \/ Link(p) \/ LinkCounts(p) \/ LinkEntry(p) \/ LinkBad(p)
    \/ Halted

Spec == Init /\ [][Next]_vars

-----------------------------------------------------------------------------
(* Properties *)

References(e) == {p \in Procs : ip[p] = e}
Opens(e) == {p \in Procs : file[p] = e}

\* iget(), iput(): an inode has at most one entry in the cache, and ip->ref is
\* the number of pointers to the entry, open files included; the kernel stops
\* for want of inodes or entries only, unless create() has taken over an entry
\* that iput() was still freeing.
RefsCounted ==
    /\ panicked \in {"no", "iget: no inodes", "ialloc: no inodes"} \/ stale = 1
    /\ \A k \in Inums : Cardinality(SlotsOf(k)) <= 1
    /\ \A e \in Slots : icache[e].ref = Cardinality(References(e)) + Cardinality(Opens(e))

At1(k, L) == {p \in Procs : ip[p] # 0 /\ icache[ip[p]].inum = k /\ pc[p] \in L}

\* create(), sys_link(), sys_unlink(): the link count on disk is the number of
\* names of the file, plus the link() calls that have counted a name they have
\* not entered and the unlink() calls that have cleared one they still count.
NlinkCountsNames ==
    stale = 0 => \A k \in Inums : dinode[k].type = "file" =>
        dinode[k].nlink = Cardinality({f \in Names : dir[f] = k})
                          + Cardinality(At1(k, {"link: dirlink", "link: bad", "unlink: nlink"}))

\* iput(), itrunc(), balloc(): a block is marked in use exactly when one file has
\* it, and a file that is neither named nor referenced is free.
NothingLeaks ==
    stale = 0 =>
        /\ bitmap = UNION {dinode[k].addrs : k \in Inums}
        /\ \A j, k \in Inums : j # k => dinode[j].addrs \cap dinode[k].addrs = {}
        /\ \A k \in Inums : dinode[k].type = "file" =>
            \/ \E f \in Names : dir[f] = k
            \/ SlotsOf(k) # {}
            \/ \E p \in Procs : inum[p] = k

\* ialloc(), iput(): an inode with a name is allocated.
NamedIsAllocated == \A f \in Names : dir[f] # 0 => dinode[dir[f]].type = "file"
=============================================================================
