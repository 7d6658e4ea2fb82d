------------------------------- MODULE Inode --------------------------------
(* The inode layer (fs.c) and the system calls that change the name space    *)
(* (sysfile.c): link, unlink, open, create, mkdir, chdir, close and chmod.   *)
(*                                                                           *)
(* A process runs one call at a time.  What it does between taking and       *)
(* releasing an inode's sleep-lock is one step, unless it waits for a second *)
(* lock meanwhile.  The inode cache is indexed by inode number: iget()       *)
(* returns the entry of a number if there is one.  The disk is what bread()  *)
(* sees (Log models the transactions).  A directory is a function from names *)
(* to inode numbers, 0 for none; file data and blocks are left out.          *)
EXTENDS Integers, Sequences, FiniteSets, FiniteSetsExt, TLC

CONSTANTS Procs,
          NInodes,     \* inodes 1 .. sb.ninodes - 1
          NINODE,      \* entries of the inode cache
          Names,       \* file names besides "." and ".."
          Calls,       \* the system calls each process makes, with their arguments
          MaxLost,     \* bound: references lost by chmod
          MaxLinks,    \* bound: no link() while a file has as many links
          Free         \* no process

Inums == 1 .. NInodes
Root == 1
Dots == {".", ".."}
Kinds == {"none", "FILE", "DIR"}

\* A path is a sequence of names; one that does not start with a slash is rel.
\* new is the second argument of link, mode that of chmod.
IsPath(path) == \A k \in DOMAIN path : path[k] \in Names \cup Dots
CallNames == {"link", "unlink", "create", "mkdir", "open", "close", "chdir", "chmod"}

ASSUME InodeConstants ==
  /\ NInodes \in Nat \ {0} /\ NINODE \in Nat \ {0} /\ Free \notin Procs
  /\ MaxLost \in Nat /\ MaxLinks \in Nat
  /\ Names \cap Dots = {}
  /\ \A p \in Procs : \A c \in Calls[p] :
       /\ c.call \in CallNames /\ IsPath(c.path) /\ IsPath(c.new)
       /\ c.rel \in BOOLEAN /\ c.mode \in Int

VARIABLES dinode,  \* on disk: type, nlink and mode of each inode
          dirent,  \* on disk: the entries of each directory
          inode,   \* in the cache: type, nlink and mode
          valid,   \* the inodes whose cache entry has ip->valid set
          ref,     \* ip->ref
          lost,    \* history: of ref, the references chmod did not give back
          lock,    \* the process that holds ip->lock
          cwd, ofile,  \* of each process: its directory, and an open file or 0
          tx,      \* the processes between begin_op() and end_op()
          at       \* where each process is in its call, with its variables

disk == <<dinode, dirent>>
cache == <<inode, valid, ref, lost>>
vars == <<dinode, dirent, inode, valid, ref, lost, lock, cwd, ofile, tx, at>>

\* cur, ip, dp, put: inodes the call has a pointer to.  put is being passed to
\* iput(), and next is where the call goes on then.  path is what namex() has
\* still to walk, parent its nameiparent argument.
Idle == [pc |-> "idle", call |-> "none", cur |-> 0, ip |-> 0, dp |-> 0, put |-> 0,
         next |-> "idle", path |-> <<>>, parent |-> FALSE, name |-> ".", new |-> <<>>,
         rel |-> FALSE, mode |-> 0]

Empty == [n \in Names \cup Dots |-> 0]

Init ==
  /\ dinode = [i \in Inums |-> IF i = Root THEN [type |-> "DIR", nlink |-> 1, mode |-> 493]
                               ELSE [type |-> "none", nlink |-> 0, mode |-> 0]]
  /\ dirent = [i \in Inums |-> IF i = Root THEN [n \in Dots |-> Root] @@ Empty ELSE Empty]
  /\ inode = [i \in Inums |-> [type |-> "none", nlink |-> 0, mode |-> 0]]
  /\ valid = {}
  /\ ref = [i \in Inums |-> IF i = Root THEN Cardinality(Procs) ELSE 0]
  /\ lost = [i \in Inums |-> 0]
  /\ lock = [i \in Inums |-> Free]
  /\ cwd = [p \in Procs |-> Root] /\ ofile = [p \in Procs |-> 0]
  /\ tx = {}
  /\ at = [p \in Procs |-> Idle]

-----------------------------------------------------------------------------
(* Pieces of the steps *)

Go(p, r) == at' = [at EXCEPT ![p] = r @@ @]

\* What ilock() finds: it fills the cache entry if that is not valid.
Loaded(i) == IF i \in valid THEN inode[i] ELSE dinode[i]

\* iget(j) recycles an entry if j has none; j = 0 stands for no call.
iget(j, ok) ==
  /\ ref' = [i \in Inums |-> IF i = j THEN ref[i] + 1 ELSE ref[i]]
  /\ valid' = IF j # 0 /\ ref[j] = 0 THEN ok \ {j} ELSE ok

\* ialloc() takes the first inode whose type on disk is 0.
Unused == {i \in Inums : dinode[i].type = "none"}
ialloc(i, type) == dinode' = [dinode EXCEPT ![i] = [type |-> type, nlink |-> 0, mode |-> 493]]

\* The inode whose lock p takes next, or 0.
Wants(p) ==
  LET a == at[p] IN
  CASE a.pc = "namex" -> a.cur
    [] a.pc = "iput" -> a.put
    [] a.pc \in {"dirlink", "unlink", "create", "mkdir"} -> a.dp
    [] a.pc \in {"link", "badlink", "unlink2", "existing", "created", "open", "chdir"} -> a.ip
    [] a.pc = "chmod" /\ a.mode <= 511 -> a.ip
    [] OTHER -> 0

\* The inode p, that has locked directory d, calls iget() for, or 0.
Gets(p, d) ==
  LET a == at[p] IN
  CASE a.pc = "namex" /\ a.path # <<>> /\ ~(a.parent /\ Len(a.path) = 1) -> dirent[d][Head(a.path)]
    [] a.pc = "dirlink" \/ (a.pc = "unlink" /\ a.name \notin Dots) -> dirent[d][a.name]
    [] a.pc \in {"create", "mkdir"} ->
         IF dirent[d][a.name] = 0 /\ Unused # {} THEN Min(Unused) ELSE dirent[d][a.name]
    [] OTHER -> 0

\* p is to panic: ilock() finds a free inode, iget() no cache entry, ialloc() no
\* inode, or unlink an inode without links.
Fatal(p) ==
  LET i == Wants(p)  a == at[p] IN
  /\ i # 0 /\ lock[i] = Free /\ a.pc # "iput"
  /\ \/ Loaded(i).type = "none"
     \/ /\ Gets(p, i) # 0 /\ ref[Gets(p, i)] = 0
        /\ Cardinality({k \in Inums : ref[k] > 0}) = NINODE
     \/ a.pc \in {"create", "mkdir"} /\ dirent[i][a.name] = 0 /\ Unused = {}
     \/ a.pc = "unlink2" /\ Loaded(i).nlink < 1

At(p, l) == at[p].pc = l /\ ~Fatal(p) /\ \A q \in Procs : at[q].pc # "panic"

panic(p) ==
  /\ Fatal(p) /\ \A q \in Procs : at[q].pc # "panic"
  /\ Go(p, [pc |-> "panic"])
  /\ UNCHANGED <<disk, cache, lock, cwd, ofile, tx>>

\* ilock(i), iget(j), and nothing written.
Examine(i, j) ==
  /\ inode' = [inode EXCEPT ![i] = Loaded(i)]
  /\ iget(j, valid \cup {i})
  /\ UNCHANGED disk

\* The locked inodes of new are changed to that and written by iupdate().
Update(new) ==
  /\ inode' = new @@ inode
  /\ dinode' = new @@ dinode
  /\ valid' = valid \cup DOMAIN new

\* Continue with iput(i), then at l.
Put(p, i, l, r) == Go(p, r @@ [pc |-> "iput", put |-> i, next |-> l])

\* end_op() and return.
Return(p) == at' = [at EXCEPT ![p] = Idle] /\ tx' = tx \ {p}

-----------------------------------------------------------------------------
(* iput() *)

\* Mutant: iput() does not look at the references of others.
LastAlways(i) == i \in valid /\ inode[i].nlink = 0

\* This is the last reference to a file without links.
Last(i) == i \in valid /\ inode[i].nlink = 0 /\ ref[i] = 1

iputKeep(p) ==
  /\ At(p, "iput") /\ lock[at[p].put] = Free /\ ~Last(at[p].put)
  /\ Go(p, [pc |-> "unref"])
  /\ UNCHANGED <<disk, cache, lock, cwd, ofile, tx>>

\* itrunc(), type = 0 and iupdate()
iputFree(p) ==
  LET i == at[p].put IN
  /\ At(p, "iput") /\ lock[i] = Free /\ Last(i)
  /\ lock' = [lock EXCEPT ![i] = p]
  /\ inode' = [inode EXCEPT ![i].type = "none"]
  /\ dinode' = [dinode EXCEPT ![i] = inode'[i]]
  /\ dirent' = [dirent EXCEPT ![i] = Empty]
  /\ Go(p, [pc |-> "freed"])
  /\ UNCHANGED <<valid, ref, lost, cwd, ofile, tx>>

iputInvalid(p) ==
  LET i == at[p].put IN
  /\ At(p, "freed")
  /\ valid' = valid \ {i}
  /\ lock' = [lock EXCEPT ![i] = Free]
  /\ Go(p, [pc |-> "unref"])
  /\ UNCHANGED <<disk, inode, ref, lost, cwd, ofile, tx>>

\* Drop the reference, and return or go on.
iputDone(p) ==
  /\ At(p, "unref")
  /\ ref' = [ref EXCEPT ![at[p].put] = @ - 1]
  /\ \/ at[p].next = "return" /\ Return(p)
     \/ /\ at[p].next = "putip"
        /\ Put(p, at[p].ip, "return", [ip |-> 0])
        /\ UNCHANGED tx
     \/ /\ at[p].next \notin {"return", "putip"}
        /\ Go(p, [pc |-> at[p].next, put |-> 0, next |-> "idle"])
        /\ UNCHANGED tx
  /\ UNCHANGED <<disk, inode, valid, lost, lock, cwd, ofile>>

-----------------------------------------------------------------------------
(* A call, and namex() *)

\* idup(cwd) or iget(root), and the path to walk
Walk(p, c, path, r) ==
  LET dir == IF c.rel THEN cwd[p] ELSE Root IN
  /\ iget(dir, valid)
  /\ Go(p, r @@ [pc |-> "namex", cur |-> dir, path |-> path])

Call(p) ==
  \E c \in Calls[p] :
    /\ At(p, "idle") /\ c.call # "close"
    /\ c.call \in {"open", "create"} => ofile[p] = 0
    /\ c.call = "chmod" => \A i \in Inums : lost[i] < MaxLost
    /\ c.call = "link" => \A i \in Inums : dinode[i].type = "FILE" => dinode[i].nlink < MaxLinks
    /\ tx' = IF c.call = "chmod" THEN tx ELSE tx \cup {p}
    /\ Walk(p, c, c.path, [call |-> c.call, parent |-> c.call \in {"unlink", "create", "mkdir"},
                           new |-> c.new, rel |-> c.rel, mode |-> c.mode])
    /\ UNCHANGED <<disk, inode, lost, lock, cwd, ofile>>

\* sys_close() of the last descriptor of a file: fileclose()
Close(p) ==
  /\ At(p, "idle") /\ ofile[p] # 0 /\ \E c \in Calls[p] : c.call = "close"
  /\ ofile' = [ofile EXCEPT ![p] = 0]
  /\ tx' = tx \cup {p}
  /\ Put(p, ofile[p], "return", [call |-> "close"])
  /\ UNCHANGED <<disk, cache, lock, cwd>>

\* Where a call goes on when namex() has found what it looked for, or not.
Found(c, parent) == IF c = "link" /\ parent THEN "dirlink" ELSE c
Lost(c, parent) == IF c = "link" /\ parent THEN "badlink" ELSE "return"

\* One pass of the loop of namex(), up to iunlock().
namex(p) ==
  LET a == at[p]  dir == a.cur  name == Head(a.path)  rest == Tail(a.path)
      next == dirent[dir][name]
      stop == a.parent /\ rest = <<>>
  IN
  /\ At(p, "namex") /\ a.path # <<>> /\ lock[dir] = Free
  /\ \/ /\ Loaded(dir).type # "DIR" \/ (~stop /\ next = 0)
        /\ Examine(dir, 0)
        /\ Put(p, dir, Lost(a.call, a.parent), [cur |-> 0, path |-> <<>>])
     \/ /\ Loaded(dir).type = "DIR" /\ stop
        /\ Examine(dir, 0)
        /\ Go(p, [pc |-> Found(a.call, TRUE), cur |-> 0, dp |-> dir, path |-> <<>>,
                  name |-> name])
     \/ /\ Loaded(dir).type = "DIR" /\ ~stop /\ next # 0
        /\ Examine(dir, next)
        /\ Put(p, dir, IF rest = <<>> THEN Found(a.call, FALSE) ELSE "namex",
               [path |-> rest, cur |-> IF rest = <<>> THEN 0 ELSE next,
                ip |-> IF rest = <<>> THEN next ELSE a.ip])
  /\ UNCHANGED <<lost, lock, cwd, ofile, tx>>

\* A path without names: it is the directory, and has no parent.
namexEmpty(p) ==
  LET a == at[p] IN
  /\ At(p, "namex") /\ a.path = <<>>
  /\ \/ a.parent /\ Put(p, a.cur, Lost(a.call, TRUE), [cur |-> 0])
     \/ ~a.parent /\ Go(p, [pc |-> Found(a.call, FALSE), cur |-> 0, ip |-> a.cur])
  /\ UNCHANGED <<disk, cache, lock, cwd, ofile, tx>>

-----------------------------------------------------------------------------
(* sys_link() *)

\* Mutant: the new link is not counted before its entry is written.
linkLate(p) ==
  LET i == at[p].ip IN
  /\ At(p, "link") /\ lock[i] = Free
  /\ \/ /\ Loaded(i).type = "DIR"
        /\ Examine(i, 0)
        /\ Put(p, i, "return", [ip |-> 0])
     \/ /\ Loaded(i).type = "FILE"
        /\ Examine(i, 0)
        /\ Go(p, [pc |-> "newname"])
  /\ UNCHANGED <<lost, lock, cwd, ofile, tx>>

link(p) ==
  LET i == at[p].ip IN
  /\ At(p, "link") /\ lock[i] = Free
  /\ \/ /\ Loaded(i).type = "DIR"
        /\ Examine(i, 0)
        /\ Put(p, i, "return", [ip |-> 0])
     \/ /\ Loaded(i).type = "FILE"
        /\ Update(i :> [Loaded(i) EXCEPT !.nlink = @ + 1])
        /\ Go(p, [pc |-> "newname"])
        /\ UNCHANGED <<dirent, ref>>
  /\ UNCHANGED <<lost, lock, cwd, ofile, tx>>

newname(p) ==
  /\ At(p, "newname")
  /\ Walk(p, at[p], at[p].new, [parent |-> TRUE, new |-> <<>>])
  /\ UNCHANGED <<disk, inode, lost, lock, cwd, ofile, tx>>

\* writei() of an entry writes the directory's inode too when it has grown.
Grown(d) == dinode' \in {dinode, [dinode EXCEPT ![d] = Loaded(d)]}

\* Mutant: what the lookup found is not put back.
dirlinkKeep(p) ==
  LET a == at[p]  d == a.dp  old == dirent[d][a.name] IN
  /\ At(p, "dirlink") /\ lock[d] = Free
  /\ \/ /\ old # 0
        /\ lock' = [lock EXCEPT ![d] = p]
        /\ Examine(d, old)
        /\ Go(p, [pc |-> "unlockdp", name |-> "."])
     \/ /\ old = 0
        /\ dirent' = [dirent EXCEPT ![d][a.name] = a.ip]
        /\ inode' = [inode EXCEPT ![d] = Loaded(d)] /\ valid' = valid \cup {d}
        /\ Grown(d)
        /\ Put(p, d, "putip", [dp |-> 0, name |-> "."])
        /\ UNCHANGED <<ref, lock>>
  /\ UNCHANGED <<lost, cwd, ofile, tx>>

\* dirlink() looks the name up first; it puts back what it found while the
\* caller holds the directory's lock.
dirlink(p) ==
  LET a == at[p]  d == a.dp  old == dirent[d][a.name] IN
  /\ At(p, "dirlink") /\ lock[d] = Free
  /\ \/ /\ old # 0
        /\ lock' = [lock EXCEPT ![d] = p]
        /\ Examine(d, old)
        /\ Put(p, old, "unlockdp", [name |-> "."])
     \/ /\ old = 0
        /\ dirent' = [dirent EXCEPT ![d][a.name] = a.ip]
        /\ inode' = [inode EXCEPT ![d] = Loaded(d)] /\ valid' = valid \cup {d}
        /\ Grown(d)
        /\ Put(p, d, "putip", [dp |-> 0, name |-> "."])
        /\ UNCHANGED <<ref, lock>>
  /\ UNCHANGED <<lost, cwd, ofile, tx>>

\* iunlockput(dp) on the way to an error return
unlockdp(p) ==
  LET d == at[p].dp IN
  /\ At(p, "unlockdp")
  /\ lock' = [lock EXCEPT ![d] = Free]
  /\ Put(p, d, Lost(at[p].call, TRUE), [dp |-> 0])
  /\ UNCHANGED <<disk, cache, cwd, ofile, tx>>

badlink(p) ==
  LET i == at[p].ip IN
  /\ At(p, "badlink") /\ lock[i] = Free
  /\ Update(i :> [Loaded(i) EXCEPT !.nlink = @ - 1])
  /\ Put(p, i, "return", [ip |-> 0])
  /\ UNCHANGED <<dirent, ref, lost, lock, cwd, ofile, tx>>

-----------------------------------------------------------------------------
(* sys_unlink() *)

unlink(p) ==
  LET a == at[p]  d == a.dp  i == dirent[d][a.name] IN
  /\ At(p, "unlink") /\ lock[d] = Free
  /\ \/ /\ a.name \in Dots \/ i = 0
        /\ Examine(d, 0)
        /\ Put(p, d, "return", [dp |-> 0, name |-> "."])
        /\ UNCHANGED lock
     \/ /\ a.name \notin Dots /\ i # 0
        /\ lock' = [lock EXCEPT ![d] = p]
        /\ Examine(d, i)
        /\ Go(p, [pc |-> "unlink2", ip |-> i])
  /\ UNCHANGED <<lost, cwd, ofile, tx>>

\* With both locks: isdirempty(), erase the entry, give up the directory.
unlinkEntry(p) ==
  LET a == at[p]  d == a.dp  i == a.ip
      full == Loaded(i).type = "DIR" /\ \E n \in Names : dirent[i][n] # 0
  IN
  /\ At(p, "unlink2") /\ lock[i] = Free
  /\ \/ /\ full
        /\ Examine(i, 0)
        /\ Put(p, i, "unlockdp", [ip |-> 0, name |-> "."])
        /\ UNCHANGED lock
     \/ /\ ~full
        /\ dirent' = [dirent EXCEPT ![d][a.name] = 0]
        /\ inode' = [inode EXCEPT ![i] = Loaded(i),
                     ![d].nlink = IF Loaded(i).type = "DIR" THEN @ - 1 ELSE @]
        /\ dinode' = IF Loaded(i).type = "DIR" THEN [dinode EXCEPT ![d] = inode'[d]] ELSE dinode
        /\ valid' = valid \cup {i}
        /\ lock' = [lock EXCEPT ![d] = Free, ![i] = p]
        /\ Put(p, d, "unlink3", [dp |-> 0, name |-> "."])
        /\ UNCHANGED ref
  /\ UNCHANGED <<lost, cwd, ofile, tx>>

unlinkInode(p) ==
  LET i == at[p].ip IN
  /\ At(p, "unlink3")
  /\ Update(i :> [inode[i] EXCEPT !.nlink = @ - 1])
  /\ lock' = [lock EXCEPT ![i] = Free]
  /\ Put(p, i, "return", [ip |-> 0])
  /\ UNCHANGED <<dirent, ref, lost, cwd, ofile, tx>>

-----------------------------------------------------------------------------
(* create(), and the rest of sys_open(), sys_mkdir(), sys_chdir(), sys_chmod() *)

create(p) ==
  LET a == at[p]  d == a.dp  i == dirent[d][a.name]  new == Min(Unused) IN
  /\ At(p, "create") \/ At(p, "mkdir")
  /\ lock[d] = Free
  /\ \/ /\ i # 0
        /\ Examine(d, i)
        /\ Put(p, d, "existing", [dp |-> 0, ip |-> i, name |-> "."])
        /\ UNCHANGED lock
     \/ /\ i = 0
        /\ lock' = [lock EXCEPT ![d] = p]
        /\ inode' = [inode EXCEPT ![d] = Loaded(d)]
        /\ ialloc(new, IF a.call = "mkdir" THEN "DIR" ELSE "FILE")
        /\ iget(new, valid \cup {d})
        /\ Go(p, [pc |-> "created", ip |-> new])
        /\ UNCHANGED dirent
  /\ UNCHANGED <<lost, cwd, ofile, tx>>

\* With both locks: nlink = 1, the dots, and the entry in the directory.
createEntry(p) ==
  LET a == at[p]  d == a.dp  i == a.ip
      made == i :> [Loaded(i) EXCEPT !.nlink = 1]
  IN
  /\ At(p, "created") /\ lock[i] = Free
  /\ IF a.call = "mkdir"
     THEN /\ Update(made @@ d :> [inode[d] EXCEPT !.nlink = @ + 1])
          /\ dirent' = [dirent EXCEPT ![d][a.name] = i, ![i]["."] = i, ![i][".."] = d]
     ELSE /\ \/ Update(made) \/ Update(made @@ d :> inode[d])
          /\ dirent' = [dirent EXCEPT ![d][a.name] = i]
  /\ lock' = [lock EXCEPT ![d] = Free, ![i] = p]
  /\ Put(p, d, "made", [dp |-> 0, name |-> "."])
  /\ UNCHANGED <<ref, lost, cwd, ofile, tx>>

\* sys_open() with the inode locked: it gets a descriptor, or there is none
\* left, or (open) it wants to write a directory.
Opened(p, i) ==
  \/ /\ ofile' = [ofile EXCEPT ![p] = i]
     /\ Return(p)
  \/ /\ Put(p, i, "return", [ip |-> 0])
     /\ UNCHANGED <<ofile, tx>>

createDone(p) ==
  LET i == at[p].ip IN
  /\ At(p, "made")
  /\ lock' = [lock EXCEPT ![i] = Free]
  /\ \/ at[p].call = "create" /\ Opened(p, i)
     \/ /\ at[p].call = "mkdir"
        /\ Put(p, i, "return", [ip |-> 0])
        /\ UNCHANGED <<ofile, tx>>
  /\ UNCHANGED <<disk, cache, cwd>>

\* open of what exists, by sys_open() or by create()
open(p) ==
  LET i == at[p].ip
      type == Loaded(i).type
      fits == IF type = "FILE" THEN at[p].call # "mkdir" ELSE at[p].call = "open"
  IN
  /\ At(p, "open") \/ At(p, "existing")
  /\ lock[i] = Free
  /\ Examine(i, 0)
  /\ \/ fits /\ Opened(p, i)
     \/ ~fits /\ Put(p, i, "return", [ip |-> 0]) /\ UNCHANGED <<ofile, tx>>
  /\ UNCHANGED <<lost, lock, cwd>>

chdir(p) ==
  LET i == at[p].ip IN
  /\ At(p, "chdir") /\ lock[i] = Free
  /\ Examine(i, 0)
  /\ \/ Loaded(i).type = "DIR" /\ Put(p, cwd[p], "newcwd", <<>>)
     \/ Loaded(i).type # "DIR" /\ Put(p, i, "return", [ip |-> 0])
  /\ UNCHANGED <<lost, lock, cwd, ofile, tx>>

newcwd(p) ==
  /\ At(p, "newcwd")
  /\ cwd' = [cwd EXCEPT ![p] = at[p].ip]
  /\ Return(p)
  /\ UNCHANGED <<disk, cache, lock, ofile>>

\* chmod() opens its transaction after namei(), and writes the inode after it
\* has unlocked it.  No path gives the reference of namei() back.
chmod(p) ==
  LET i == at[p].ip IN
  /\ At(p, "chmod")
  /\ \/ /\ at[p].mode > 511
        /\ lost' = [lost EXCEPT ![i] = @ + 1]
        /\ Return(p)
        /\ UNCHANGED <<disk, inode, valid, ref, lock, cwd, ofile>>
     \/ /\ at[p].mode <= 511 /\ lock[i] = Free
        /\ tx' = tx \cup {p}
        /\ inode' = [inode EXCEPT ![i] = [Loaded(i) EXCEPT !.mode = at[p].mode]]
        /\ valid' = valid \cup {i}
        /\ Go(p, [pc |-> "iupdate", mode |-> 0])
        /\ UNCHANGED <<disk, ref, lost, lock, cwd, ofile>>

chmodUpdate(p) ==
  LET i == at[p].ip IN
  /\ At(p, "iupdate")
  /\ dinode' = [dinode EXCEPT ![i] = inode[i]]
  /\ lost' = [lost EXCEPT ![i] = @ + 1]
  /\ Return(p)
  /\ UNCHANGED <<dirent, inode, valid, ref, lock, cwd, ofile>>

-----------------------------------------------------------------------------

Next ==
  \E p \in Procs :
    \/ Call(p) \/ Close(p) \/ namex(p) \/ namexEmpty(p) \/ panic(p)
    \/ iputKeep(p) \/ iputFree(p) \/ iputInvalid(p) \/ iputDone(p)
    \/ link(p) \/ newname(p) \/ dirlink(p) \/ unlockdp(p) \/ badlink(p)
    \/ unlink(p) \/ unlinkEntry(p) \/ unlinkInode(p)
    \/ create(p) \/ createEntry(p) \/ createDone(p) \/ open(p)
    \/ chdir(p) \/ newcwd(p) \/ chmod(p) \/ chmodUpdate(p)

Spec == Init /\ [][Next]_vars

-----------------------------------------------------------------------------
(* Properties *)

Attr == [type : Kinds, nlink : 0 .. 2 * Cardinality(Names) * NInodes, mode : Int]
Points == {"idle", "namex", "iput", "freed", "unref", "link", "newname", "dirlink",
           "unlockdp", "badlink", "unlink", "unlink2", "unlink3", "create", "mkdir",
           "existing", "created", "made", "open", "chdir", "newcwd", "chmod", "iupdate", "panic"}

\* The state has its type, in every state the code reaches.
TypeOK ==
  /\ dinode \in [Inums -> Attr] /\ inode \in [Inums -> Attr]
  /\ dirent \in [Inums -> [Names \cup Dots -> Inums \cup {0}]]
  /\ valid \subseteq Inums
  /\ ref \in [Inums -> Nat] /\ lost \in [Inums -> Nat]
  /\ lock \in [Inums -> Procs \cup {Free}]
  /\ cwd \in [Procs -> Inums] /\ ofile \in [Procs -> Inums \cup {0}]
  /\ tx \subseteq Procs
  /\ \A p \in Procs : /\ at[p].pc \in Points
                      /\ {at[p].cur, at[p].ip, at[p].dp, at[p].put} \subseteq Inums \cup {0}

\* sys_chdir() has passed its old directory to iput() and not yet the new one
\* to p->cwd.
Moving(p) == at[p].call = "chdir" /\ (at[p].pc = "newcwd" \/ at[p].next = "newcwd")

\* The pointers there are to inode i: of calls, open files and directories.
Pointers(i) ==
  Cardinality({x \in Procs \X {"cur", "ip", "dp", "put"} : at[x[1]][x[2]] = i})
    + Cardinality({p \in Procs : ofile[p] = i})
    + Cardinality({p \in Procs : cwd[p] = i /\ ~Moving(p)})

\* No call but chmod loses a reference, whatever way it returns, and none is
\* dropped twice: ip->ref counts the pointers there are and those chmod lost.
RefsCounted ==
  \A i \in Inums : ref[i] = lost[i] + Pointers(i)

\* ip->ref tracks the number of in-memory pointers to the entry.
RefTracksPointers ==
  \A i \in Inums : ref[i] = Pointers(i)

\* The cache is write-through: an inode nobody has locked is on disk as it is
\* in the cache, unless a chmod has unlocked it before its iupdate().
WriteThrough ==
  \A i \in valid :
    \/ lock[i] # Free \/ ref[i] = 0
    \/ \E p \in Procs : at[p].pc = "iupdate" /\ at[p].ip = i
    \/ inode[i] = dinode[i]

\* iput() does not free an inode that is an open file or a current directory,
\* whatever links are removed, and none is allocated twice.
InUseAllocated ==
  \A p \in Procs : /\ ofile[p] # 0 => dinode[ofile[p]].type # "none"
                   /\ ~Moving(p) => dinode[cwd[p]].type = "DIR"

Linked(d) == dinode[d].type = "DIR" /\ dinode[d].nlink > 0
Entries(i) == {e \in Inums \X Names : Linked(e[1]) /\ dirent[e[1]][e[2]] = i}

\* Also in the middle of calls, a file has at least as many links as directory
\* entries: no entry of a directory that can be reached names a free inode.
LinksSuffice ==
  \A i \in Inums : Cardinality(Entries(i)) <= dinode[i].nlink

\* If iput() drops the last reference and the inode has no links to it, the
\* inode is freed on disk.
LastPutFrees ==
  (\A p \in Procs : at[p].pc = "idle") =>
    \A i \in Inums : dinode[i].nlink = 0 /\ ref[i] = 0 => dinode[i].type = "none"

\* No processes wait for inode locks of each other.
NoDeadlock ==
  \A S \in SUBSET Procs \ {{}} :
    \E p \in S : Wants(p) = 0 \/ lock[Wants(p)] \notin S

\* ip->ref is exact but for what chmod() keeps, through every early return of the
\* calls, and the cache is write-through (iget, iput, iupdate).
CacheExact == TypeOK /\ RefsCounted /\ WriteThrough
=============================================================================
