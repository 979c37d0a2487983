------------------------------- MODULE MCDump -------------------------------
EXTENDS Dump

\* Each directory has itself as its first entry, then up to so many names.
Directory(e) ==
  [mode |-> "directory", entries |-> e, seen |-> e, whole |-> TRUE, content |-> "none"]
DirectoriesOf(self, targets, size) ==
  {Directory(<<Entry(".", self)>> \o e) :
      e \in BoundedSeq([name : Names, inumber : targets], size)}
Files == {in \in Regular : in.whole}

\* The root may name anything, inode 2 may be a directory of the others: trees,
\* hard links, names that are repeated, that were removed or that lead nowhere.
SoundLists ==
  {<<root, second, third, fourth>> :
     root   \in DirectoriesOf(1, {0} \cup 2..LastInode, 2),
     second \in DirectoriesOf(2, {0} \cup 3..LastInode, 1) \cup Files \cup {Free},
     third  \in Files \cup {Free},
     fourth \in Files \cup {Free}}
Image(list, sectors) == [list |-> list, bad |-> sectors]
SoundImages == {Image(list, {}) : list \in SoundLists}

\* One inode that cannot be read to its end, or has something behind it, or is a
\* block special file.
Damaged(in) ==
  IF in.mode = "directory"
  THEN {[in EXCEPT !.whole = FALSE, !.seen = SubSeq(@, 1, k)] : k \in {0, Len(in.seen) - 1}}
       \cup {[in EXCEPT !.seen = @ \o <<Entry(n, LastInode)>>] : n \in Names}
  ELSE {[in EXCEPT !.whole = FALSE]}
       \cup {[in EXCEPT !.mode = "block", !.seen = e] : e \in BoundedSeq({Entry("..", 1)}, 1)}

\* Or one sector of the i-list that cannot be read; all of them below a root with
\* two different names.
MCImages ==
  LET base == {list \in SoundLists :
                 /\ list[3].mode = "regular" /\ list[4].mode = "regular"
                 /\ list[3].content # list[4].content /\ list[2].mode # "free"
                 /\ Len(list[1].entries) = 3 /\ ~\E e \in Range(list[1].entries) : e.inumber = 0
                 /\ IsInjective([k \in 1..3 |-> list[1].entries[k].name])}
  IN  SoundImages
      \cup {Image(list, {s}) : list \in base, s \in 2..3}
      \cup UNION {{Image([list EXCEPT ![i] = d], {}) : d \in Damaged(list[i])} :
                    list \in base, i \in 1..LastInode}

\* Contents are compared and nothing else.
ContentSymmetry == Permutations(Contents)
=============================================================================
