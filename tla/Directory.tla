------------------------------ MODULE Directory ------------------------------
(***************************************************************************)
(* Names on disk (src/fs.c, src/string.c): path elements are cut out into  *)
(* a buffer of DIRSIZ characters without a NUL when they fill it, copied   *)
(* into directory entries and compared with them.  Inode models the locks  *)
(* and the counts of the same operations; here they run one at a time.     *)
(*                                                                         *)
(* A path is a sequence of characters, ended by its length; a name is a    *)
(* function on 1 .. DIRSIZ.  A directory is a sequence of entries.         *)
(***************************************************************************)
EXTENDS Integers, Sequences, FiniteSets, SequencesExt

CONSTANTS DIRSIZ,
          DirInum, FileInum,   \* inodes, 1 is the root directory
          Path,                \* paths given to the system calls
          Junk                 \* what an uninitialised name can hold

VARIABLES dirs,     \* inum -> entries
          place     \* inum -> [parent, name], as it was asked for

directoryVars == <<dirs, place>>

NUL == "nul"
Root == 1
NoEntry == [inum |-> 0, name |-> [i \in 1 .. DIRSIZ |-> NUL]]

\* strncpy(): up to and including the NUL, and NULs behind it.
strncpy(t, n) ==
  [i \in 1 .. n |-> IF \E j \in 1 .. i : t[j] = NUL THEN NUL ELSE t[i]]

\* strncmp() = 0: equal up to a NUL in both, or for n characters.
strncmpEqual(p, q, n) ==
  \E k \in 0 .. n :
    /\ \A i \in 1 .. k : p[i] = q[i] /\ p[i] # NUL
    /\ k = n \/ (p[k + 1] = q[k + 1] /\ p[k + 1] = NUL)
namecmpShort(s, t) == strncmpEqual(s, t, DIRSIZ - 1)
namecmp(s, t) == strncmpEqual(s, t, DIRSIZ)

\* The offset of the entry with a name, 0 if there is none.
Matches(d, name) == {k \in 1 .. Len(d) : d[k].inum # 0 /\ namecmp(name, d[k].name)}
dirlookup(d, name) ==
  IF Matches(d, name) = {} THEN 0 ELSE CHOOSE k \in Matches(d, name) : \A j \in Matches(d, name) : k <= j

\* The first entry that is not in use, or one more.
Slot(d) == CHOOSE k \in 1 .. Len(d) + 1 :
             /\ k = Len(d) + 1 \/ d[k].inum = 0
             /\ \A j \in 1 .. k - 1 : d[j].inum # 0
Entry(name, inum) == [inum |-> inum, name |-> strncpy(name, DIRSIZ)]
dirlink(d, name, inum) ==
  [k \in 1 .. (IF Slot(d) > Len(d) THEN Len(d) + 1 ELSE Len(d)) |->
     IF k = Slot(d) THEN Entry(name, inum) ELSE d[k]]

\* skipelem(): the next element into name, which keeps what it had behind the NUL.
SkipTo(path, i, stop) ==
  CHOOSE k \in i .. Len(path) + 1 :
    /\ k = Len(path) + 1 \/ stop = (path[k] = "/")
    /\ \A j \in i .. k - 1 : stop # (path[j] = "/")
copyelem(path, s, len, name) ==
  [i \in 1 .. DIRSIZ |-> CASE i <= len -> path[s + i - 1]
                           [] i = len + 1 -> NUL
                           [] OTHER -> name[i]]
ElemFrom(path, s, e, name) ==
  IF s > Len(path) THEN [more |-> FALSE, at |-> s, name |-> name]
  ELSE [more |-> TRUE, at |-> SkipTo(path, e, FALSE), name |-> copyelem(path, s, e - s, name)]
ElemAt(path, s, name) == ElemFrom(path, s, SkipTo(path, s, TRUE), name)
skipelem(path, i, name) == ElemAt(path, SkipTo(path, i, FALSE), name)

\* namex(), a turn of its loop; w is [ip, at, name, end], with ip = 0 for failure.
Found(w, k) == IF k = 0 THEN 0 ELSE dirs[w.ip][k].inum
Descend(w, path, parent, e) ==
  CASE ~e.more -> [w EXCEPT !.end = TRUE, !.ip = IF parent THEN 0 ELSE @]
    [] e.more /\ w.ip \notin DirInum -> [w EXCEPT !.end = TRUE, !.ip = 0]
    [] e.more /\ w.ip \in DirInum /\ parent /\ e.at > Len(path) ->
         [w EXCEPT !.end = TRUE, !.name = e.name]
    [] OTHER -> [w EXCEPT !.ip = Found(w, dirlookup(dirs[w.ip], e.name)), !.name = e.name, !.at = e.at]
Turned(w, path, parent) ==
  IF w.end \/ w.ip = 0 THEN w ELSE Descend(w, path, parent, skipelem(path, w.at, w.name))
namex(path, parent, junk) ==
  LET w[n \in 0 .. Len(path) + 1] ==
        IF n = 0 THEN [ip |-> Root, at |-> 1, name |-> [i \in 1 .. DIRSIZ |-> junk], end |-> FALSE]
        ELSE Turned(w[n - 1], path, parent)
  IN w[Len(path) + 1]

\* isdirempty(): nothing behind the first two entries.
isdiremptyLate(d) == \A k \in 4 .. Len(d) : d[k].inum = 0
isdirempty(d) == \A k \in 3 .. Len(d) : d[k].inum = 0

-----------------------------------------------------------------------------
Dot == [i \in 1 .. DIRSIZ |-> IF i = 1 THEN "." ELSE NUL]
DotDot == [i \in 1 .. DIRSIZ |-> IF i <= 2 THEN "." ELSE NUL]
NewDir(inum, parent) == <<Entry(Dot, inum), Entry(DotDot, parent)>>

DirectoryInit ==
  /\ dirs = [i \in DirInum |-> IF i = Root THEN NewDir(Root, Root) ELSE << >>]
  /\ place = << >>
DirectoryIdle == dirs = << >> /\ place = << >>    \* no file system

Linked == {Root} \cup DOMAIN place
Unplaced == (DirInum \cup FileInum) \ Linked

\* What is in a name buffer, as a string.
Text(name) == SubSeq([i \in 1 .. DIRSIZ |-> name[i]], 1,
                     Cardinality({i \in 1 .. DIRSIZ : \A j \in 1 .. i : name[j] # NUL}))

\* create(): a new file or directory, unless the name is taken.
CreateAt(w, inum) ==
  /\ w.ip # 0 /\ dirlookup(dirs[w.ip], w.name) = 0
  /\ dirs' = [i \in DirInum |->
       CASE i = w.ip -> dirlink(dirs[i], w.name, inum)
         [] i = inum -> NewDir(inum, w.ip)
         [] OTHER -> dirs[i]]
  /\ place' = [i \in DOMAIN place \cup {inum} |->
       IF i = inum THEN [parent |-> w.ip, name |-> Text(w.name)] ELSE place[i]]
DirCreate(path, junk) == \E inum \in Unplaced : CreateAt(namex(path, TRUE, junk), inum)

\* sys_unlink(): the entry is cleared, and the inode freed with its last link.
UnlinkAt(w, k, inum) ==
  /\ inum \in DirInum => isdirempty(dirs[inum])
  /\ dirs' = [i \in DirInum |->
       CASE i = w.ip -> [dirs[i] EXCEPT ![k] = NoEntry]
         [] i = inum -> << >>
         [] OTHER -> dirs[i]]
  /\ place' = [i \in DOMAIN place \ {inum} |-> place[i]]
UnlinkFound(w, k) == k # 0 /\ UnlinkAt(w, k, dirs[w.ip][k].inum)
UnlinkName(w) ==
  /\ w.ip # 0 /\ ~namecmp(w.name, Dot) /\ ~namecmp(w.name, DotDot)
  /\ UnlinkFound(w, dirlookup(dirs[w.ip], w.name))
DirUnlink(path, junk) == UnlinkName(namex(path, TRUE, junk))

DirectoryNext == \E path \in Path, junk \in Junk : DirCreate(path, junk) \/ DirUnlink(path, junk)

-----------------------------------------------------------------------------
\* The elements of a path, cut to DIRSIZ characters.
Elements(path) ==
  LET first == {i \in 1 .. Len(path) : path[i] # "/" /\ (i = 1 \/ path[i - 1] = "/")}
      Length(i) == Max({n \in 1 .. DIRSIZ : i + n - 1 <= Len(path) /\ \A j \in i .. i + n - 1 : path[j] # "/"})
      Nth(k) == CHOOSE i \in first : Cardinality({j \in first : j < i}) = k - 1
  IN [k \in 1 .. Cardinality(first) |-> SubSeq(path, Nth(k), Nth(k) + Length(Nth(k)) - 1)]

\* Where a list of elements leads in the tree of what was created.
Follow(ip, e) ==
  CASE ip \notin DirInum -> 0
    [] ip \in DirInum /\ e = <<".">> -> ip
    [] ip \in DirInum /\ e = <<".", ".">> -> IF ip = Root THEN Root ELSE place[ip].parent
    [] OTHER -> LET here == {i \in DOMAIN place : place[i] = [parent |-> ip, name |-> e]}
                IN IF here = {} THEN 0 ELSE CHOOSE i \in here : TRUE
Resolved(path) == FoldLeft(Follow, Root, Elements(path))

\* namei() finds what was created under the path's elements and not unlinked since,
\* whatever the name buffer held before, for names that fill it and longer ones.
PathsResolve ==
  Root \in DOMAIN dirs =>
    \A path \in Path, junk \in Junk : namex(path, FALSE, junk).ip = Resolved(path)

\* The directories are the tree: each has . and .. first, one entry for each of its
\* children and no other, and only directories without children are removed.
TreeExact ==
  /\ \A i \in DOMAIN place : place[i].parent \in Linked
  /\ \A i \in DOMAIN dirs :
       IF i \notin Linked THEN dirs[i] = << >>
       ELSE LET up == IF i = Root THEN Root ELSE place[i].parent
                rest == {k \in 3 .. Len(dirs[i]) : dirs[i][k].inum # 0}
            IN /\ SubSeq(dirs[i], 1, 2) = NewDir(i, up)
               /\ Cardinality(rest) = Cardinality({j \in DOMAIN place : place[j].parent = i})
               /\ \A k \in rest : place[dirs[i][k].inum] = [parent |-> i, name |-> Text(dirs[i][k].name)]

\* namex() finds what was made under a path, names cut at DIRSIZ included, and the
\* directories form a tree from which only empty ones are removed.
NamesRight == PathsResolve /\ TreeExact
=============================================================================
