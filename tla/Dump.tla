-------------------------------- MODULE Dump --------------------------------
(***************************************************************************)
(* TP3-FileSystem from the directory layer up: directory_findname(),       *)
(* pathname_lookup(), GetDirEntries() and diskimageaccess.c with its two   *)
(* walks, -i over the inodes and -p down from the root.  The file layer    *)
(* below is FileLayer: here a file is its content, two checksums are equal *)
(* when the contents are, and a sector that cannot be read never can.      *)
(*                                                                         *)
(* A name that fills d_name has no NUL after it, and sprintf() goes on     *)
(* into the number and the name that follow: a component of a path is a    *)
(* name and its tail.                                                      *)
(*                                                                         *)
(* A definition marked "mutant of" is no part of the model.                *)
(***************************************************************************)
EXTENDS InodeGeometry, FiniteSets, SequencesExt

CONSTANTS
  Names,       \* names of files
  LongNames,   \* those of 14 characters, which fill d_name
  Contents,    \* contents of regular files
  Isize,       \* s_isize: the sectors of the i-list
  MaxEntries,  \* 10000: the entries one directory is read up to
  MaxDepth,    \* the longest path that leads anywhere
  ByteRange,   \* 256: a number in an entry is two bytes, the lower one first
  SlashByte,   \* the byte '/', 47
  Images       \* the i-lists, from the first inode to the last, and their bad sectors

LastInode == Isize * InodeCount
Root      == 1
Dots      == {".", ".."}
Error     == -1

\* An entry whose file was removed keeps its name and has inumber 0.
Entry(n, i) == [name |-> n, inumber |-> i]
Entries     == [name : Names \cup Dots, inumber : 0..LastInode]

\* An inode: the entries its size covers; those directory_findname() gets to see,
\* which are more when something is left behind the last one in its sector, and
\* fewer when one of its sectors cannot be read; whether it is whole, so that none
\* is such a sector; its content.
InodeOf(mode, entries, seen, contents) ==
  [mode : {mode}, entries : entries, seen : seen, whole : BOOLEAN, content : contents]
Regular     == InodeOf("regular", {<<>>}, {<<>>}, Contents)
Block       == InodeOf("block", {<<>>}, Seq(Entries), Contents)
Directories == InodeOf("directory", Seq(Entries), Seq(Entries), {"none"})

Free    == [mode |-> "free", entries |-> <<>>, seen |-> <<>>, whole |-> TRUE,
            content |-> "none"]
NoInode == [Free EXCEPT !.mode = "none"]
Lists   == [1..LastInode -> Directories \cup Block \cup Regular \cup {Free}]

\* What leads from the root through directories.
Chains(n) == {c \in [0..n -> 1..LastInode] : c[0] = Root}

\* The directories form a hierarchy: "." and ".." apart, no way leads down for ever.
ASSUME DumpAssumption ==
  /\ LongNames \subseteq Names /\ Names \cap Dots = {}
  /\ {"none", "more", "slash"} \cap (Names \cup Dots) = {}
  /\ Isize \in Nat \ {0} /\ MaxEntries \in Nat /\ MaxDepth \in Nat
  /\ ByteRange \in Nat \ {0} /\ SlashByte \in 1..ByteRange - 1
  /\ Images \subseteq [list : Lists, bad : SUBSET (InodeStartSector..InodeStartSector + Isize - 1)]
  /\ \A image \in Images :
       /\ image.list[Root].mode = "directory"
       /\ \A i \in 1..LastInode :
            LET in == image.list[i]
            IN  in.mode = "directory" => IF in.whole THEN IsPrefix(in.entries, in.seen)
                                                     ELSE IsPrefix(in.seen, in.entries)
  /\ \A c \in Chains(MaxDepth + 1), image \in Images : \E k \in 1..MaxDepth + 1 :
       \A n \in Names : Entry(n, c[k]) \notin Range(image.list[c[k - 1]].entries)

\* The components of a path.  A tail with a '/' in it is a component of its own to
\* strtok(): a name, or "slash" for one that is in no directory.
Component(name, tail) == [name |-> name, tail |-> tail]
Tails      == {"none", "more", "slash"} \cup Names \cup Dots
Single(c)  == c.tail \in {"none", "more"}
Components == {c \in [name : Names, tail : Tails] : c.tail = "none" \/ c.name \in LongNames}

VARIABLES
  options,     \* which of -i and -p are given
  inodes,      \* the i-list, from the first inode to the last
  bad,         \* its sectors that cannot be read
  phase,       \* "inodes" in DumpInodeChecksum(), "paths" in DumpPathnameChecksum()
  inumber,     \* the loop variable of the first
  inodeLines,  \* what it has printed
  work,        \* the calls of DumpPathAndChildren() still to make, the next first
  pathLines,   \* what they have printed
  complaints   \* what they have refused

vars == <<options, inodes, bad, phase, inumber, inodeLines, work, pathLines, complaints>>

Init ==
  /\ options \in SUBSET {"i", "p"}
  /\ \E image \in Images : inodes = image.list /\ bad = image.bad
  /\ phase = "inodes" /\ inumber = 1
  /\ inodeLines = <<>> /\ pathLines = <<>> /\ complaints = <<>>
  /\ work = <<[path |-> <<>>, inumber |-> Root]>>
-----------------------------------------------------------------------------
\* The i-list on the disk, and inode_iget().
Sector(s) == [p \in 0..InodeCount - 1 |-> inodes[(s - InodeStartSector) * InodeCount + p + 1]]

Iget(i) ==
  IF i <= 0 \/ InodeSector(i) \in bad THEN NoInode
  ELSE LET in == Sector(InodeSector(i))[InodePosition(i)]
       IN  IF in.mode = "free" THEN NoInode ELSE in

\* directory_findname(): the first entry of that name, of which strncmp() looks at
\* no more than the 14 characters of d_name.  The bit of IFDIR is set in the mode of
\* a block special file too.
WholeString(c, e) == c = Component(e.name, "none")           \* mutant of SameName
SameName(c, e)    == c.name = e.name
Findname(i, c) ==
  LET in   == Iget(i)
      hits == {k \in 1..Len(in.seen) : SameName(c, in.seen[k])}
  IN  IF in.mode \notin {"directory", "block"} \/ hits = {} THEN Error
      ELSE in.seen[Min(hits)].inumber

\* pathname_lookup() of an absolute path.
Follow(i, c) ==
  IF Single(c) THEN Findname(i, c)
  ELSE Findname(Findname(i, c), Component(c.tail, "none"))
PathnameLookup(path) ==
  LET curr[k \in 0..Len(path)] ==
        IF k = 0 THEN Root
        ELSE IF curr[k - 1] < 0 THEN Error ELSE Follow(curr[k - 1], path[k])
  IN  curr[Len(path)]

\* GetDirEntries(), without the error that leaves its caller nothing to do.
GetDirEntries(i) ==
  LET in == Iget(i)
  IN  IF in.mode # "directory" \/ ~in.whole THEN <<>>
      ELSE SubSeq(in.entries, 1, IF Len(in.entries) < MaxEntries
                                 THEN Len(in.entries) ELSE MaxEntries)

\* chksumfile_byinumber() and chksumfile_bypathname(): what they digest.
NoChecksum  == <<>>
Checksum(i) ==
  LET in == Iget(i)
  IN  IF in = NoInode \/ ~in.whole THEN NoChecksum ELSE <<in.entries, in.content>>
-----------------------------------------------------------------------------
\* One turn of the loop of DumpInodeChecksum(): without a checksum, no line.
DumpInode ==
  /\ phase = "inodes" /\ "i" \in options /\ inumber < LastInode /\ Iget(inumber) # NoInode
  /\ inodeLines' = IF Checksum(inumber) = NoChecksum THEN inodeLines
                   ELSE Append(inodeLines, [inumber |-> inumber, sum |-> Checksum(inumber)])
  /\ inumber' = inumber + 1
  /\ UNCHANGED <<options, inodes, bad, phase, work, pathLines, complaints>>

\* It is not called, or returns at the first inode that inode_iget() refuses, or
\* at the end.
InodesEnd ==
  /\ phase = "inodes"
  /\ "i" \notin options \/ inumber >= LastInode \/ Iget(inumber) = NoInode
  /\ phase' = "paths"
  /\ UNCHANGED <<options, inodes, bad, inumber, inodeLines, work, pathLines, complaints>>

\* One call of DumpPathAndChildren(), up to the calls it makes itself.
BreadthFirst(calls, rest) == rest \o calls                   \* mutant of Recurse
Recurse(calls, rest) == calls \o rest

EveryEntry(e) == TRUE                                        \* mutant of NotDot
NotDot(e)     == e.name.name \notin Dots

\* What sprintf() puts behind the name of the k-th entry: the two bytes of the
\* next one's number, the lower first, and its name, up to a NUL.  strtok() drops a
\* '/' at the end.  What only left tells may be anything: what the array held
\* before, the rest of another long name, a name with a byte in front.
Tail14(entries, k, left) ==
  LET next == entries[k + 1]
      low  == next.inumber % ByteRange
      high == next.inumber \div ByteRange
  IN  IF entries[k].name \notin LongNames THEN "none"
      ELSE IF k = Len(entries) THEN left[k]
      ELSE IF low = 0 \/ (low = SlashByte /\ high = 0) THEN "none"
      ELSE IF high = 0 THEN "more"
      ELSE IF next.name \in LongNames THEN left[k]
      ELSE IF high = SlashByte THEN next.name
      ELSE IF low = SlashByte THEN left[k] ELSE "more"

\* One tail for each long name.
Lefts(entries) == [{k \in DOMAIN entries : entries[k].name \in LongNames} -> Tails]

Listing(entries, left) ==
  [k \in DOMAIN entries |-> Entry(Component(entries[k].name, Tail14(entries, k, left)),
                                  entries[k].inumber)]

\* The entries for which it calls itself, in their order.
Children(list) ==
  LET kept[k \in 0..Len(list)] ==
        IF k = 0 THEN <<>>
        ELSE IF NotDot(list[k]) THEN Append(kept[k - 1], list[k]) ELSE kept[k - 1]
  IN  kept[Len(list)]

DumpPath ==
  /\ phase = "paths" /\ "p" \in options /\ work # <<>>
  /\ \E left \in Lefts(GetDirEntries(Head(work).inumber)) :
       LET call  == Head(work)
           found == PathnameLookup(call.path)
           sum   == Checksum(call.inumber)
           kids  == Children(Listing(GetDirEntries(call.inumber), left))
       IN  IF sum = NoChecksum \/ found < 0 \/ Checksum(found) # sum
           THEN /\ complaints' = Append(complaints, call)
                /\ work' = Tail(work)
                /\ UNCHANGED pathLines
           ELSE /\ pathLines' = Append(pathLines, call)
                /\ work' = Recurse([k \in 1..Len(kids) |->
                                      [path    |-> Append(call.path, kids[k].name),
                                       inumber |-> kids[k].inumber]], Tail(work))
                /\ UNCHANGED complaints
  /\ UNCHANGED <<options, inodes, bad, phase, inumber, inodeLines>>

PathsEnd ==
  /\ phase = "paths" /\ ("p" \notin options \/ work = <<>>)
  /\ phase' = "done"
  /\ UNCHANGED <<options, inodes, bad, inumber, inodeLines, work, pathLines, complaints>>

Next == DumpInode \/ InodesEnd \/ DumpPath \/ PathsEnd

Spec == Init /\ [][Next]_vars
-----------------------------------------------------------------------------
Calls == [path : Seq(Components), inumber : 0..LastInode]

TypeOK ==
  /\ phase \in {"inodes", "paths", "done"} /\ inumber \in 1..LastInode
  /\ {work, pathLines, complaints} \subseteq Seq(Calls)

\* The inodes of a sector of the i-list, and what can be read: the inode, or all of it.
Held(s) == (s - InodeStartSector) * InodeCount + 1..(s - InodeStartSector + 1) * InodeCount
Readable(i) == \A s \in bad : i \notin Held(s)
Intact == {i \in 1..LastInode : Readable(i) /\ inodes[i].mode # "free" /\ inodes[i].whole}

\* What Unix v6 keeps true of its directories: a live entry is the first of its
\* name, since a free slot in front of it would have been reused, and nothing is
\* left behind the last one in its sector.  Nor is a block special file searched.
Live(i) == {k \in 1..Len(inodes[i].entries) : inodes[i].entries[k].inumber # 0}
ProperDirectory(i) ==
  LET e == inodes[i].entries
  IN  /\ \A k \in Live(i) : \A j \in 1..k - 1 : e[j].name # e[k].name
      /\ Len(e) <= MaxEntries
      /\ inodes[i].mode = "directory" /\ inodes[i].whole => inodes[i].seen = e
      /\ inodes[i].mode = "block" => inodes[i].seen = <<>>
WellFormed == \A i \in 1..LastInode : ProperDirectory(i)

\* No name of 14 characters is the last of its directory, or in front of a number
\* with a '/' in it and a second byte.
Terminated ==
  \A i \in 1..LastInode :
    LET e == inodes[i].entries
    IN  \A left \in Lefts(e) : \A k \in DOMAIN e : Tail14(e, k, left) \in {"none", "more"}

\* The hierarchy of names, by definition, as far as it is in some inodes.
Linked(i, n, j) ==
  Readable(i) /\ inodes[i].mode = "directory" /\ Entry(n, j) \in Range(inodes[i].seen)
Named(path) == [k \in DOMAIN path |-> path[k].name]
Links == [path : BoundedSeq(Names, MaxDepth), inumber : 1..LastInode]
Hierarchy(inside) ==
  {l \in Links : \E c \in Chains(Len(l.path)) :
     /\ c[Len(l.path)] = l.inumber /\ Range(c) \subseteq inside
     /\ \A k \in 1..Len(l.path) : Linked(c[k - 1], l.path[k], c[k])}
Tree == Hierarchy(Intact)
Plain(call) == [path |-> Named(call.path), inumber |-> call.inumber]

\* -p prints every path of the tree of what can be read exactly once, and refuses
\* only names that were removed, lead to a free inode or to one that cannot be read;
\* also below names without a NUL, unless their tails make components of their own.
WalkIsTree ==
  WellFormed /\ Terminated /\ phase = "done" /\ "p" \in options =>
    /\ {Plain(c) : c \in Range(pathLines)} = Tree
    /\ Len(pathLines) = Cardinality(Tree)
    /\ \A k \in 1..Len(complaints) : complaints[k].inumber \notin Intact

\* The walk is depth first: between a directory and something below it nothing
\* is printed that is not below it.
DepthFirst ==
  WellFormed => \A j, m, k \in 1..Len(pathLines) :
    j < m /\ m < k /\ IsPrefix(pathLines[j].path, pathLines[k].path)
      => IsPrefix(pathLines[j].path, pathLines[m].path)

\* The paths of which no tail makes a component of its own.
SinglePaths == BoundedSeq({c \in Components : Single(c)}, MaxDepth)

\* A path that lookup resolves to an inode is in the hierarchy under that inode, and
\* the other way round: the name layer agrees with the directories' contents, as far
\* as they can be read and whatever follows the 14th character of a component.
LookupIsTree ==
  WellFormed =>
    LET all == Hierarchy(1..LastInode)
    IN  \A path \in SinglePaths :
          LET found == PathnameLookup(path)
          IN  \A i \in 1..LastInode :
                found = i <=> [path |-> Named(path), inumber |-> i] \in all

\* Every line of -i is true of the inode it names, and they are in order; of the
\* inodes the loop has passed just those without a line cannot be read to the end;
\* and it ends in front of the last inode, or at one that is free or not readable.
InodeLinesTrue ==
  /\ \A k \in 1..Len(inodeLines) :
       LET l == inodeLines[k]
       IN  /\ l.inumber \in Intact /\ l.inumber < inumber
           /\ l.sum = <<inodes[l.inumber].entries, inodes[l.inumber].content>>
           /\ \A j \in 1..k - 1 : inodeLines[j].inumber < l.inumber
  /\ \A i \in Intact : i < inumber => \E k \in 1..Len(inodeLines) : inodeLines[k].inumber = i
  /\ phase # "inodes" /\ "i" \in options =>
       inumber = LastInode \/ inodes[inumber].mode = "free" \/ ~Readable(inumber)

\* diskimageaccess.c:90: "Output to the specified file the checksum of all
\* allocated inodes."
AllAllocatedDumped ==
  phase # "inodes" /\ "i" \in options =>
    \A i \in 1..LastInode : inodes[i].mode # "free" =>
      \E k \in 1..Len(inodeLines) : inodeLines[k].inumber = i

=============================================================================
