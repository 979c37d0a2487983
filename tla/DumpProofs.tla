----------------------------- MODULE DumpProofs -----------------------------
(***************************************************************************)
(* The two walks over an image, for any hierarchy of directories, any      *)
(* names, any layout of the i-list and whatever of it cannot be read: -i   *)
(* tells the truth about each inode, lookup agrees with the hierarchy of   *)
(* names, and -p prints the tree of what is intact, each path once, depth  *)
(* first.                                                                  *)
(***************************************************************************)
EXTENDS Dump, Arithmetic, SequenceTheorems

\* The i-list and its bad sectors are those of an image.
OnDisk == \E image \in Images : inodes = image.list /\ bad = image.bad

\* What an image is.
LEMMA OfImage ==
  ASSUME OnDisk
  PROVE  /\ LastInode \in Nat \ {0} /\ Root \in 1..LastInode
         /\ inodes \in Lists /\ bad \subseteq Int
         /\ inodes[Root].mode = "directory"
         /\ \A i \in 1..LastInode :
              inodes[i].mode = "directory" =>
                IF inodes[i].whole THEN IsPrefix(inodes[i].entries, inodes[i].seen)
                                   ELSE IsPrefix(inodes[i].seen, inodes[i].entries)
         /\ \A c \in Chains(MaxDepth + 1) : \E k \in 1..MaxDepth + 1 :
              \A n \in Names : Entry(n, c[k]) \notin Range(inodes[c[k - 1]].entries)
<1>1. LastInode \in Nat \ {0} /\ Root \in 1..LastInode
  <2>1. LastInode \in Nat \ {0}
    BY DumpAssumption, GeometryAssumption DEF LastInode
  <2> QED
    BY <2>1 DEF Root
<1>2. PICK image \in Images : inodes = image.list /\ bad = image.bad
  BY DEF OnDisk
<1>3. inodes \in Lists /\ bad \subseteq Int
  <2>1. image \in [list : Lists, bad : SUBSET (InodeStartSector..InodeStartSector + Isize - 1)]
    BY DumpAssumption
  <2>2. image.list \in Lists /\ image.bad \subseteq InodeStartSector..InodeStartSector + Isize - 1
    BY <2>1
  <2> QED
    BY <1>2, <2>2
<1>4. /\ inodes[Root].mode = "directory"
      /\ \A i \in 1..LastInode :
           inodes[i].mode = "directory" =>
             IF inodes[i].whole THEN IsPrefix(inodes[i].entries, inodes[i].seen)
                                ELSE IsPrefix(inodes[i].seen, inodes[i].entries)
  BY <1>2, DumpAssumption, Zenon
<1>5. \A c \in Chains(MaxDepth + 1) : \E k \in 1..MaxDepth + 1 :
        \A n \in Names : Entry(n, c[k]) \notin Range(inodes[c[k - 1]].entries)
  BY <1>2, DumpAssumption, Zenon
<1> QED
  BY <1>1, <1>3, <1>4, <1>5

\* An inode is one of four kinds; only a directory has entries, and in nothing else
\* than a directory or a block special file is anything looked for.
LEMMA Kinds ==
  ASSUME OnDisk, NEW i \in 1..LastInode
  PROVE  /\ inodes[i].mode \in {"directory", "block", "regular", "free"}
         /\ inodes[i].entries \in Seq(Entries) /\ inodes[i].seen \in Seq(Entries)
         /\ inodes[i].mode # "directory" => inodes[i].entries = <<>>
         /\ inodes[i].mode \notin {"directory", "block"} => inodes[i].seen = <<>>
         /\ inodes[i].mode # NoInode.mode /\ inodes[i].whole \in BOOLEAN
<1>1. inodes[i] \in Directories \cup Block \cup Regular \cup {Free}
  BY OfImage DEF Lists
<1>2. NoInode.mode = "none" /\ <<>> \in Seq(Entries)
  BY DEF NoInode, Free
<1>3. CASE inodes[i] \in Directories
  BY <1>2, <1>3 DEF Directories, InodeOf
<1>4. CASE inodes[i] \in Block
  BY <1>2, <1>4 DEF Block, InodeOf
<1>5. CASE inodes[i] \in Regular
  BY <1>2, <1>5 DEF Regular, InodeOf
<1>6. CASE inodes[i] = Free
  BY <1>2, <1>6 DEF Free
<1> QED
  BY <1>1, <1>3, <1>4, <1>5, <1>6

\* An inode is held by its sector and by no other.
LEMMA HeldThere ==
  ASSUME NEW i \in Nat \ {0}, NEW s \in Int
  PROVE  i \in Held(s) <=> s = InodeSector(i)
<1> DEFINE q == (i - 1) \div InodeCount
           r == (i - 1) % InodeCount
           t == s - InodeStartSector
           C == InodeCount
<1>1. C \in Nat \ {0} /\ t \in Int /\ s = InodeStartSector + t /\ i - 1 \in Int
  BY GeometryAssumption DEF InodeStartSector
<1>2. q \in Int /\ r \in 0..C - 1 /\ i - 1 = C * q + r
  BY <1>1, DivMod, Zenon
<1>3. InodeSector(i) = InodeStartSector + q
  BY DEF InodeSector, Index
<1>4. i \in Held(s) <=> t * C + 1 <= i /\ i <= (t + 1) * C
  BY <1>1 DEF Held
<1> HIDE DEF q, r, t, C
<1>5. ASSUME t = q PROVE t * C + 1 <= i /\ i <= (t + 1) * C
  <2>1. C * q = t * C /\ (t + 1) * C = t * C + C /\ t * C \in Int
    BY <1>1, <1>2, <1>5
  <2> HIDE <1>5
  <2> QED
    BY <1>1, <1>2, <2>1
<1>6. ASSUME t < q, i <= (t + 1) * C PROVE FALSE
  <2>1. (t + 1) * C <= q * C /\ q * C = C * q /\ C * q \in Int /\ (t + 1) * C \in Int
    BY <1>1, <1>2, <1>6
  <2> QED
    BY <1>1, <1>2, <1>6, <2>1
<1>7. ASSUME t > q, t * C + 1 <= i PROVE FALSE
  <2>1. t * C >= (q + 1) * C /\ (q + 1) * C = C * q + C /\ C * q \in Int /\ t * C \in Int
    BY <1>1, <1>2, <1>7
  <2> QED
    BY <1>1, <1>2, <1>7, <2>1
<1>8. t = q <=> s = InodeStartSector + q
  BY <1>1, <1>2 DEF InodeStartSector
<1> QED
  BY <1>1, <1>2, <1>3, <1>4, <1>5, <1>6, <1>7, <1>8

\* Sector and position lead to the inode, the first one being number 1, unless the
\* sector cannot be read.
LEMMA InodeFound ==
  ASSUME OnDisk, NEW i \in 1..LastInode
  PROVE  Iget(i) = IF inodes[i].mode = "free" \/ ~Readable(i) THEN NoInode ELSE inodes[i]
<1> DEFINE q == (i - 1) \div InodeCount
           r == (i - 1) % InodeCount
<1>1. i \in Nat \ {0} /\ InodeCount \in Nat \ {0}
  BY OfImage, GeometryAssumption
<1>2. q \in Int /\ r \in 0..InodeCount - 1 /\ i - 1 = InodeCount * q + r
  <2>1. i - 1 \in Int
    BY <1>1
  <2> QED
    BY <1>1, <2>1, DivMod, Zenon
<1>3. InodeSector(i) = 2 + q /\ InodePosition(i) = r
  BY <1>1 DEF InodeSector, InodePosition, Index, InodeStartSector
<1> HIDE DEF q, r
<1>4. (2 + q) - 2 = q
  BY <1>2
<1>5. q * InodeCount + r + 1 = i
  BY <1>1, <1>2
<1>6. Sector(2 + q)[r] = inodes[q * InodeCount + r + 1]
  BY <1>2, <1>4 DEF Sector, InodeStartSector
<1>7. Sector(InodeSector(i))[InodePosition(i)] = inodes[i]
  BY <1>3, <1>5, <1>6
<1>8. InodeSector(i) \in bad <=> ~Readable(i)
  <2>1. \A s \in bad : i \in Held(s) <=> s = InodeSector(i)
    BY <1>1, OfImage, HeldThere
  <2> QED
    BY <2>1 DEF Readable
<1> QED
  BY <1>1, <1>7, <1>8 DEF Iget

\* There is nothing at number 0, nor at an error.
LEMMA NoInodeThere == \A i \in {Error, 0} : Iget(i) = NoInode
BY DEF Iget, Error

\* The types of what the walks keep.
TypeInv ==
  /\ phase \in {"inodes", "paths", "done"} /\ inumber \in 1..LastInode
  /\ OnDisk
  /\ work \in Seq(Calls) /\ pathLines \in Seq(Calls) /\ complaints \in Seq(Calls)
-----------------------------------------------------------------------------
(***************************************************************************)
(* What a sequence starts with.                                            *)
(***************************************************************************)
Starts(s, t) == Len(s) <= Len(t) /\ \A k \in 1..Len(s) : s[k] = t[k]

\* A sequence is a prefix when it is the beginning element by element.
LEMMA PrefixStarts ==
  ASSUME NEW S, NEW s \in Seq(S), NEW t \in Seq(S)
  PROVE  IsPrefix(s, t) <=> Starts(s, t)
<1> DEFINE n == Len(s)
<1>1. n \in Nat /\ Len(t) \in Nat
  OBVIOUS
<1>2. SubSeq(s, 1, n) = s
  OBVIOUS
<1>3. ASSUME n <= Len(t) PROVE s = SubSeq(t, 1, n) <=> \A i \in 1..n : s[i] = t[i]
  <2> DEFINE u == SubSeq(t, 1, n)
  <2>1. u \in Seq(S) /\ Len(u) = n /\ \A i \in 1..n : u[i] = t[i]
    BY <1>1, <1>3
  <2> HIDE DEF u
  <2>2. s = [i \in 1..n |-> s[i]] /\ u = [i \in 1..n |-> u[i]]
    BY <2>1
  <2>3. (\A i \in 1..n : s[i] = u[i]) => s = u
    <3> HIDE DEF n
    <3> SUFFICES ASSUME \A i \in 1..n : s[i] = u[i] PROVE s = u
      OBVIOUS
    <3>1. [i \in 1..n |-> s[i]] = [i \in 1..n |-> u[i]]
      OBVIOUS
    <3> QED
      BY <2>2, <3>1
  <2> QED
    BY <2>1, <2>3 DEF u
<1> QED
  BY <1>2, <1>3 DEF IsPrefix, Starts

\* What directory_findname() sees of a well-formed directory is its entries, up to
\* the first sector that cannot be read.
LEMMA SeenFirst ==
  ASSUME OnDisk, WellFormed, NEW i \in 1..LastInode, inodes[i].mode = "directory"
  PROVE  /\ Starts(inodes[i].seen, inodes[i].entries)
         /\ inodes[i].whole => inodes[i].seen = inodes[i].entries
<1>1. inodes[i].entries \in Seq(Entries) /\ inodes[i].seen \in Seq(Entries)
  BY Kinds
<1>2. inodes[i].whole => inodes[i].seen = inodes[i].entries
  BY DEF WellFormed, ProperDirectory
<1>3. ~inodes[i].whole => IsPrefix(inodes[i].seen, inodes[i].entries)
  BY OfImage
<1> DEFINE e == inodes[i].entries
           f == inodes[i].seen
<1>4. IsPrefix(f, e) => Starts(f, e)
  <2> HIDE DEF e, f
  <2> QED
    BY <1>1, PrefixStarts DEF e, f
<1>5. f = e => Starts(f, e)
  <2>1. Len(e) \in Nat
    BY <1>1
  <2> QED
    BY <2>1 DEF Starts
<1> QED
  BY <1>2, <1>3, <1>4, <1>5
-----------------------------------------------------------------------------
(***************************************************************************)
(* The entries below a directory.                                          *)
(***************************************************************************)

Chosen(list, c) ==
  \E h \in [1..Len(c) -> 1..Len(list)] :
    /\ \A k \in DOMAIN h : c[k] = list[h[k]] /\ NotDot(list[h[k]])
    /\ \A j, k \in DOMAIN h : j < k => h[j] < h[k]
    /\ \A m \in 1..Len(list) : NotDot(list[m]) => \E k \in DOMAIN h : h[k] = m

\* The entries for which the walk calls itself are those with a name of their own,
\* in their order, each once.
LEMMA ChildrenAre ==
  ASSUME NEW S, NEW list \in Seq(S)
  PROVE  Children(list) \in Seq(S) /\ Chosen(list, Children(list))
<1> DEFINE n == Len(list)
           step(s, k) == IF NotDot(list[k]) THEN Append(s, list[k]) ELSE s
           g == [x \in Seq(S) \X (1..n) |-> step(x[1], x[2])]
           IsKept(f) == f = [k \in 0..n |-> IF k = 0 THEN <<>> ELSE step(f[k - 1], k)]
<1>1. n \in Nat /\ \A k \in 1..n : list[k] \in S
  OBVIOUS
<1>2. PICK f \in [0..n -> Seq(S)] : f[0] = <<>> /\ \A k \in 1..n : f[k] = step(f[k - 1], k)
  <2>1. g \in [Seq(S) \X (1..n) -> Seq(S)]
    BY <1>1
  <2>2. Recursive(n, Seq(S), <<>>, g)
    BY <1>1, <2>1 DEF Recursive
  <2> HIDE DEF n, g, step
  <2>5. PICK f : Unfolds(n, Seq(S), <<>>, g, f)
    BY <2>2, Recursion, Zenon
  <2>3. /\ f \in [0..n -> Seq(S)] /\ f[0] = <<>>
        /\ \A k \in 1..n : f[k] = g[<<f[k - 1], k>>]
    BY <2>5 DEF Unfolds
  <2>4. ASSUME NEW k \in 1..n PROVE f[k] = step(f[k - 1], k)
    <3>1. f[k - 1] \in Seq(S)
      BY <1>1, <2>3
    <3>2. <<f[k - 1], k>> \in Seq(S) \X (1..n)
      BY <3>1
    <3> HIDE DEF step
    <3>3. g[<<f[k - 1], k>>] = step(f[k - 1], k)
      BY <3>2 DEF g
    <3> QED
      BY <2>3, <3>3
  <2> QED
    BY <2>3, <2>4
<1>3. IsKept(f)
  <2>1. \A k \in 0..n : f[k] = IF k = 0 THEN <<>> ELSE step(f[k - 1], k)
    <3> HIDE DEF step
    <3> QED
      BY <1>1, <1>2
  <2>2. f = [k \in 0..n |-> f[k]]
    OBVIOUS
  <2> HIDE DEF step
  <2> QED
    BY <2>1, <2>2
<1> DEFINE kept == CHOOSE e : IsKept(e)
<1>4. IsKept(kept)
  <2> HIDE DEF IsKept
  <2> QED
    BY <1>3, Zenon
<1>5. Children(list) = kept[n]
  BY DEF Children
<1>6. \A k \in 1..n : kept[0] = <<>> /\ kept[k] = step(kept[k - 1], k)
  <2>1. \A k \in 0..n : kept[k] = IF k = 0 THEN <<>> ELSE step(kept[k - 1], k)
    BY <1>4
  <2> HIDE DEF kept, IsKept, step
  <2> QED
    BY <1>1, <2>1
<1>a. kept[0] = <<>>
  <2>1. \A k \in 0..n : kept[k] = IF k = 0 THEN <<>> ELSE step(kept[k - 1], k)
    BY <1>4
  <2> HIDE DEF kept, IsKept, step
  <2> QED
    BY <1>1, <2>1
<1> HIDE DEF kept, IsKept, g
\* The same, for the first k entries.
<1> DEFINE Picks(k, h) ==
             /\ \A a \in DOMAIN h : kept[k][a] = list[h[a]] /\ NotDot(list[h[a]])
             /\ \A a, b \in DOMAIN h : a < b => h[a] < h[b]
             /\ \A m \in 1..k : NotDot(list[m]) => \E a \in DOMAIN h : h[a] = m
           Good == {k \in 0..n : /\ kept[k] \in Seq(S)
                                 /\ \E h \in [1..Len(kept[k]) -> 1..k] : Picks(k, h)}
<1>7. 0 \in Good
  <2>1. kept[0] \in Seq(S) /\ Len(kept[0]) = 0
    BY <1>a
  <2> DEFINE h == [a \in 1..0 |-> a]
  <2>2. h \in [1..0 -> 1..0] /\ Picks(0, h)
    OBVIOUS
  <2> HIDE DEF Picks, h
  <2> QED
    BY <1>1, <2>1, <2>2
<1>8. ASSUME NEW k \in 0..n - 1, k \in Good PROVE k + 1 \in Good
  <2>1. kept[k] \in Seq(S) /\ k \in Nat /\ k + 1 \in 1..n /\ (k + 1) - 1 = k
    BY <1>1, <1>8
  <2>2. PICK h \in [1..Len(kept[k]) -> 1..k] : Picks(k, h)
    BY <1>8
  <2>3. kept[k + 1] = step(kept[k], k + 1)
    <3> HIDE DEF step, Good, Picks
    <3> QED
      BY <1>6, <2>1
  <2>4. CASE NotDot(list[k + 1])
    <3> DEFINE l == Len(kept[k])
               e == [a \in 1..l + 1 |-> IF a = l + 1 THEN k + 1 ELSE h[a]]
    <3>1. l \in Nat /\ kept[k + 1] = Append(kept[k], list[k + 1])
      BY <2>1, <2>3, <2>4
    <3>2. kept[k + 1] \in Seq(S) /\ Len(kept[k + 1]) = l + 1
      BY <1>1, <2>1, <3>1
    <3>3. /\ \A a \in 1..l : kept[k + 1][a] = kept[k][a]
          /\ kept[k + 1][l + 1] = list[k + 1]
      BY <1>1, <2>1, <3>1
    <3>4. e \in [1..l + 1 -> 1..k + 1]
      BY <2>1, <2>2, <3>1
    <3>5. e[l + 1] = k + 1 /\ \A a \in 1..l : e[a] = h[a] /\ h[a] \in 1..k /\ a # l + 1
      <4>1. \A a \in 1..l : h[a] \in 1..k /\ a # l + 1 /\ a \in 1..l + 1
        BY <2>2, <3>1
      <4>2. l + 1 \in 1..l + 1
        BY <3>1
      <4> QED
        BY <4>1, <4>2
    <3>6. DOMAIN e = 1..l + 1 /\ DOMAIN h = 1..l /\ 1..l + 1 = (1..l) \cup {l + 1}
      BY <2>2, <3>1
    <3> HIDE DEF e, l, Good
    <3>7. \A a \in DOMAIN e : kept[k + 1][a] = list[e[a]] /\ NotDot(list[e[a]])
      <4> SUFFICES ASSUME NEW a \in DOMAIN e
                   PROVE  kept[k + 1][a] = list[e[a]] /\ NotDot(list[e[a]])
        OBVIOUS
      <4>1. CASE a = l + 1
        BY <2>4, <3>3, <3>5, <4>1
      <4>2. CASE a \in 1..l
        BY <2>2, <3>3, <3>5, <3>6, <4>2
      <4> QED
        BY <3>6, <4>1, <4>2
    <3>8. \A a, b \in DOMAIN e : a < b => e[a] < e[b]
      <4> SUFFICES ASSUME NEW a \in DOMAIN e, NEW b \in DOMAIN e, a < b PROVE e[a] < e[b]
        OBVIOUS
      <4>1. a \in 1..l
        BY <3>1, <3>6
      <4>2. CASE b = l + 1
        BY <2>1, <3>5, <4>1, <4>2
      <4>3. CASE b \in 1..l
        BY <2>2, <3>5, <3>6, <4>1, <4>3
      <4> QED
        BY <3>6, <4>2, <4>3
    <3>9. \A m \in 1..k + 1 : NotDot(list[m]) => \E a \in DOMAIN e : e[a] = m
      <4> SUFFICES ASSUME NEW m \in 1..k + 1, NotDot(list[m]) PROVE \E a \in DOMAIN e : e[a] = m
        OBVIOUS
      <4>1. CASE m = k + 1
        BY <3>5, <3>6, <4>1
      <4>2. CASE m \in 1..k
        <5>1. PICK a \in 1..l : h[a] = m
          BY <2>2, <3>6, <4>2
        <5> QED
          BY <3>5, <3>6, <5>1
      <4> QED
        BY <2>1, <4>1, <4>2
    <3>10. Picks(k + 1, e)
      BY <3>7, <3>8, <3>9
    <3> HIDE DEF Picks
    <3> QED
      BY <1>1, <2>1, <3>2, <3>4, <3>10 DEF Good
  <2>5. CASE ~NotDot(list[k + 1])
    <3>1. kept[k + 1] = kept[k]
      BY <2>3, <2>5
    <3>2. h \in [1..Len(kept[k]) -> 1..k + 1]
      BY <2>1, <2>2
    <3>3. \A m \in 1..k + 1 : m = k + 1 \/ m \in 1..k
      BY <2>1
    <3>4. Picks(k + 1, h)
      BY <2>2, <2>5, <3>1, <3>3
    <3>5. /\ k + 1 \in 0..n /\ kept[k + 1] \in Seq(S)
          /\ h \in [1..Len(kept[k + 1]) -> 1..k + 1]
      BY <1>1, <2>1, <3>1, <3>2
    <3> HIDE DEF Picks
    <3> QED
      BY <3>4, <3>5
  <2> QED
    BY <2>4, <2>5
<1>9. n \in Good
  <2>1. \A k \in 0..n - 1 : k \in Good => k + 1 \in Good
    BY <1>8
  <2> HIDE DEF Good, n
  <2>2. \A k \in 0..n : k \in Good
    BY <1>1, <1>7, <2>1, Upwards
  <2> QED
    BY <1>1, <2>2
<1> QED
  BY <1>5, <1>9 DEF Chosen
-----------------------------------------------------------------------------
(***************************************************************************)
(* Names that lead from the root to an inode, through some inodes only,    *)
(* and the hierarchy.                                                      *)
(***************************************************************************)
Leads(inside, names, i) ==
  \E c \in Chains(Len(names)) :
    /\ c[Len(names)] = i
    /\ \A k \in 0..Len(names) : c[k] \in inside
    /\ \A k \in 1..Len(names) : Linked(c[k - 1], names[k], c[k])

\* What leads there through some inodes does so through more.
LEMMA LeadsThroughMore ==
  ASSUME NEW S, NEW T, S \subseteq T, NEW s, NEW i, Leads(S, s, i)
  PROVE  Leads(T, s, i)
BY DEF Leads

\* One more name leads one link further.
LEMMA LeadsOn ==
  ASSUME OnDisk, NEW S, NEW s \in Seq(Names), NEW i, Leads(S, s, i),
         NEW n \in Names, NEW j \in 1..LastInode, j \in S, Linked(i, n, j)
  PROVE  Leads(S, Append(s, n), j)
<1>1. PICK c \in Chains(Len(s)) : /\ c[Len(s)] = i
                                  /\ \A k \in 0..Len(s) : c[k] \in S
                                  /\ \A k \in 1..Len(s) : Linked(c[k - 1], s[k], c[k])
  BY DEF Leads
<1> DEFINE l == Len(s)
           t == Append(s, n)
           d == [k \in 0..l + 1 |-> IF k = l + 1 THEN j ELSE c[k]]
<1>2. l \in Nat /\ Len(t) = l + 1 /\ t[l + 1] = n /\ \A k \in 1..l : t[k] = s[k]
  OBVIOUS
<1>3. c \in [0..l -> 1..LastInode] /\ c[0] = Root
  BY DEF Chains
<1>4. d[l + 1] = j /\ \A k \in 0..l : d[k] = c[k]
  BY <1>2
<1>5. d \in Chains(l + 1)
  <2>1. d \in [0..l + 1 -> 1..LastInode]
    BY <1>2, <1>3
  <2> HIDE DEF d, l
  <2> QED
    BY <1>2, <1>3, <1>4, <2>1 DEF Chains
<1>6. ASSUME NEW k \in 1..l + 1 PROVE Linked(d[k - 1], t[k], d[k])
  <2> HIDE DEF d, l, t
  <2>1. CASE k = l + 1
    <3>1. k - 1 = l /\ l \in 0..l
      BY <1>2, <2>1
    <3>2. d[k - 1] = i /\ t[k] = n /\ d[k] = j
      BY <1>1, <1>2, <1>4, <2>1, <3>1 DEF l
    <3> QED
      BY <3>2
  <2>2. CASE k # l + 1
    <3>1. k \in 1..l /\ k - 1 \in 0..l /\ k \in 0..l
      BY <1>2, <2>2
    <3>2. d[k - 1] = c[k - 1] /\ t[k] = s[k] /\ d[k] = c[k]
      BY <1>2, <1>4, <3>1
    <3>3. Linked(c[k - 1], s[k], c[k])
      BY <1>1, <3>1 DEF l
    <3> QED
      BY <3>2, <3>3
  <2> QED
    BY <2>1, <2>2
<1>7. \A k \in 0..l + 1 : d[k] \in S
  <2>1. \A k \in 0..l + 1 : k = l + 1 \/ k \in 0..l
    BY <1>2
  <2>2. \A k \in 0..l : c[k] \in S
    BY <1>1
  <2> HIDE DEF d, l
  <2> QED
    BY <1>4, <2>1, <2>2
<1> HIDE DEF d, l, t
<1>8. Leads(S, t, j)
  BY <1>2, <1>4, <1>5, <1>6, <1>7 DEF Leads
<1> QED
  BY <1>8 DEF t

\* The first names of a path lead to the inode before the next link.
LEMMA LeadsUp ==
  ASSUME NEW S, NEW s \in Seq(Names), NEW j, Leads(S, s, j), NEW k \in 0..Len(s) - 1
  PROVE  \E h, i \in 1..LastInode : /\ Leads(S, SubSeq(s, 1, k), h) /\ i \in S
                                    /\ Linked(h, s[k + 1], i)
<1>1. PICK c \in Chains(Len(s)) : /\ \A m \in 0..Len(s) : c[m] \in S
                                 /\ \A m \in 1..Len(s) : Linked(c[m - 1], s[m], c[m])
  BY DEF Leads
<1> DEFINE l == Len(s)
           t == SubSeq(s, 1, k)
           d == [m \in 0..k |-> c[m]]
<1>2. l \in Nat /\ k \in Nat /\ Len(t) = k /\ \A m \in 1..k : t[m] = s[m]
  OBVIOUS
<1>3. c \in [0..l -> 1..LastInode] /\ c[0] = Root
  BY DEF Chains
<1>4. \A m \in 0..k : m \in 0..l
  BY <1>2
<1>5. d \in Chains(k) /\ \A m \in 0..k : d[m] = c[m]
  BY <1>2, <1>3, <1>4 DEF Chains
<1>6. ASSUME NEW m \in 1..k PROVE Linked(d[m - 1], t[m], d[m])
  <2>1. m \in 1..l /\ m \in 0..k /\ m - 1 \in 0..k
    BY <1>2
  <2> HIDE DEF d, t, l
  <2>2. d[m] = c[m] /\ d[m - 1] = c[m - 1] /\ t[m] = s[m]
    BY <1>2, <1>5, <2>1
  <2>3. Linked(c[m - 1], s[m], c[m])
    BY <1>1, <2>1 DEF l
  <2> QED
    BY <2>2, <2>3
<1>7. k \in 0..k /\ k \in 0..l /\ k + 1 \in 0..l /\ k + 1 \in 1..l /\ (k + 1) - 1 = k
  BY <1>2
<1>8. Linked(c[k], s[k + 1], c[k + 1]) /\ c[k + 1] \in S
  <2>1. Linked(c[(k + 1) - 1], s[k + 1], c[k + 1])
    BY <1>1, <1>7
  <2> QED
    BY <1>1, <1>7, <2>1
<1>9. \A m \in 0..k : d[m] \in S
  <2>1. \A m \in 0..l : c[m] \in S
    BY <1>1
  <2> HIDE DEF d, l
  <2> QED
    BY <1>4, <1>5, <2>1
<1> HIDE DEF d, t, l
<1>10. Leads(S, t, c[k])
  BY <1>2, <1>5, <1>6, <1>7, <1>9 DEF Leads
<1> QED
  BY <1>3, <1>7, <1>8, <1>10 DEF t

\* Only the root is at the end of no names.
LEMMA LeadsRoot ==
  ASSUME OnDisk, NEW S
  PROVE  \A i : Leads(S, <<>>, i) <=> i = Root /\ i \in S
<1>1. \A i : Leads(S, <<>>, i) => i = Root /\ i \in S
  BY DEF Leads, Chains
<1>2. ASSUME Root \in S PROVE Leads(S, <<>>, Root)
  <2> DEFINE d == [k \in 0..0 |-> Root]
  <2>1. d \in Chains(0) /\ d[0] = Root
    BY OfImage DEF Chains
  <2>2. Len(<<>>) = 0 /\ 1..0 = {} /\ \A k \in 0..0 : k = 0
    OBVIOUS
  <2> HIDE DEF d
  <2> QED
    BY <1>2, <2>1, <2>2 DEF Leads
<1> QED
  BY <1>1, <1>2

\* A link is one of the entries of its directory.
LEMMA LinkIsEntry ==
  ASSUME OnDisk, WellFormed, NEW i \in 1..LastInode, NEW n, NEW j, Linked(i, n, j)
  PROVE  Entry(n, j) \in Range(inodes[i].entries)
<1> DEFINE e == inodes[i].entries
           f == inodes[i].seen
<1>1. e \in Seq(Entries) /\ f \in Seq(Entries)
  BY Kinds
<1>2. Starts(f, e)
  BY SeenFirst DEF Linked
<1>3. Entry(n, j) \in Range(f)
  BY DEF Linked
<1> HIDE DEF e, f
<1>4. PICK k \in 1..Len(f) : f[k] = Entry(n, j)
  BY <1>1, <1>3 DEF Range
<1>5. k \in 1..Len(e) /\ e[k] = Entry(n, j)
  <2>1. Len(e) \in Nat /\ Len(f) \in Nat
    BY <1>1
  <2> QED
    BY <1>2, <1>4, <2>1 DEF Starts
<1>6. Entry(n, j) \in Range(e)
  BY <1>1, <1>5 DEF Range
<1> QED
  BY <1>6 DEF e

\* No path that leads somewhere is longer than MaxDepth.
LEMMA Shallow ==
  ASSUME OnDisk, WellFormed, NEW S, NEW s \in Seq(Names), NEW j, Leads(S, s, j)
  PROVE  Len(s) <= MaxDepth
<1> SUFFICES ASSUME Len(s) > MaxDepth PROVE FALSE
  BY DumpAssumption
<1>1. PICK c \in Chains(Len(s)) : \A m \in 1..Len(s) : Linked(c[m - 1], s[m], c[m])
  BY DEF Leads
<1> DEFINE e == MaxDepth + 1
           d == [m \in 0..e |-> c[m]]
<1>2. e \in Nat /\ e <= Len(s) /\ \A m \in 0..e : m \in 0..Len(s)
  BY DumpAssumption
<1>3. d \in Chains(e) /\ \A m \in 0..e : d[m] = c[m]
  BY <1>2 DEF Chains
<1>4. PICK k \in 1..e : \A n \in Names : Entry(n, d[k]) \notin Range(inodes[d[k - 1]].entries)
  <2> HIDE DEF d
  <2> QED
    BY <1>3, OfImage
<1>5. k \in 1..Len(s) /\ k \in 0..e /\ k - 1 \in 0..e
  BY <1>2
<1>6. Linked(d[k - 1], s[k], d[k]) /\ d[k - 1] \in 1..LastInode
  <2>1. d[k] = c[k] /\ d[k - 1] = c[k - 1]
    BY <1>3, <1>5
  <2>2. d \in [0..e -> 1..LastInode]
    BY <1>3 DEF Chains
  <2> HIDE DEF d
  <2> QED
    BY <1>1, <1>5, <2>1, <2>2
<1>7. s[k] \in Names
  BY <1>5
<1> HIDE DEF d
<1>8. Entry(s[k], d[k]) \in Range(inodes[d[k - 1]].entries)
  BY <1>6, LinkIsEntry
<1> QED
  BY <1>4, <1>7, <1>8

\* The hierarchy is what names lead to.
LEMMA HierarchyLeads ==
  ASSUME OnDisk, WellFormed, NEW S, NEW s \in Seq(Names), NEW i \in 1..LastInode
  PROVE  [path |-> s, inumber |-> i] \in Hierarchy(S) <=> Leads(S, s, i)
<1> DEFINE l == [path |-> s, inumber |-> i]
           m == Len(s)
           Way(c) == /\ c[m] = i /\ Range(c) \subseteq S
                     /\ \A k \in 1..m : Linked(c[k - 1], s[k], c[k])
<1>1. l \in Hierarchy(S) <=> l \in Links /\ \E c \in Chains(m) : Way(c)
  BY DEF Hierarchy
<1>2. \A c \in Chains(m) : Range(c) \subseteq S <=> \A k \in 0..m : c[k] \in S
  BY DEF Chains, Range
<1>3. Leads(S, s, i) <=> \E c \in Chains(m) : Way(c)
  BY <1>2 DEF Leads
<1>4. ASSUME Leads(S, s, i) PROVE l \in Links
  <2>1. Len(s) \in 0..MaxDepth
    BY <1>4, Shallow, DumpAssumption
  <2>2. s \in [1..Len(s) -> Names]
    OBVIOUS
  <2>3. s \in BoundedSeq(Names, MaxDepth)
    BY <2>1, <2>2 DEF BoundedSeq, SeqOf
  <2> QED
    BY <2>3 DEF Links
<1> QED
  BY <1>1, <1>3, <1>4

\* And every element of it is such a pair.
LEMMA HierarchyPaths ==
  ASSUME OnDisk, WellFormed, NEW S, NEW l \in Hierarchy(S)
  PROVE  /\ l.path \in Seq(Names) /\ l.inumber \in 1..LastInode /\ Leads(S, l.path, l.inumber)
         /\ l = [path |-> l.path, inumber |-> l.inumber]
<1>1. l \in Links
  BY DEF Hierarchy
<1>2. l.path \in BoundedSeq(Names, MaxDepth) /\ l.inumber \in 1..LastInode
  BY <1>1 DEF Links
<1>3. PICK m \in 0..MaxDepth : l.path \in [1..m -> Names]
  BY <1>2 DEF BoundedSeq, SeqOf
<1>4. l.path \in Seq(Names)
  <2>1. m \in Nat
    BY DumpAssumption
  <2> QED
    BY <1>3, <2>1
<1>5. l = [path |-> l.path, inumber |-> l.inumber]
  BY <1>1 DEF Links
<1>6. Leads(S, l.path, l.inumber)
  BY <1>2, <1>4, <1>5, HierarchyLeads
<1> QED
  BY <1>2, <1>4, <1>5, <1>6
-----------------------------------------------------------------------------
(***************************************************************************)
(* Lookup.                                                                 *)
(***************************************************************************)
Numbers == {Error} \cup 0..LastInode

\* directory_findname() returns a number or fails; on a well-formed image it finds
\* just the links, whatever has the same name behind one or follows the name in the
\* path.
LEMMA FindnameFinds ==
  ASSUME OnDisk, NEW i \in Numbers, NEW c
  PROVE  /\ Findname(i, c) \in Numbers
         /\ WellFormed => \A j \in 1..LastInode :
              /\ Findname(i, c) = j => i \in 1..LastInode /\ Linked(i, c.name, j)
              /\ i \in 1..LastInode /\ Linked(i, c.name, j) => Findname(i, c) = j
<1>0. LastInode \in Nat \ {0}
  BY OfImage
<1>1. CASE Iget(i) = NoInode
  <2>1. NoInode.mode = "none"
    BY DEF NoInode, Free
  <2>2. Findname(i, c) = Error
    BY <1>1, <2>1 DEF Findname
  <2>3. i \in 1..LastInode => \A n, j : ~Linked(i, n, j)
    <3> SUFFICES ASSUME i \in 1..LastInode, NEW n, NEW j, Linked(i, n, j) PROVE FALSE
      OBVIOUS
    <3>1. Iget(i) = inodes[i] /\ inodes[i].mode # NoInode.mode
      BY InodeFound, Kinds DEF Linked
    <3> QED
      BY <1>1, <3>1
  <2> QED
    BY <1>0, <2>2, <2>3 DEF Numbers, Error
<1>2. CASE Iget(i) # NoInode
  <2> DEFINE e == inodes[i].seen
             hits == {k \in 1..Len(e) : e[k].name = c.name}
             dir == inodes[i].mode \in {"directory", "block"}
  <2>0. i \in 1..LastInode /\ Iget(i) = inodes[i] /\ Readable(i)
    <3>1. i \in 1..LastInode
      BY <1>0, <1>2, NoInodeThere DEF Numbers
    <3> QED
      BY <1>2, <3>1, InodeFound
  <2>1. e \in Seq(Entries)
    BY <2>0, Kinds
  <2>2. Findname(i, c) = IF ~dir \/ hits = {} THEN Error ELSE e[Min(hits)].inumber
    BY <2>0 DEF Findname, SameName
  <2>3. hits # {} => Min(hits) \in hits /\ \A k \in hits : Min(hits) <= k
    <3>1. hits \subseteq Nat
      OBVIOUS
    <3> HIDE DEF hits
    <3> SUFFICES ASSUME hits # {} PROVE Min(hits) \in hits /\ \A k \in hits : Min(hits) <= k
      OBVIOUS
    <3>2. \E m \in hits : \A k \in hits : m <= k
      BY <3>1, LeastNatural
    <3> QED
      BY <3>2 DEF Min
  <2>9. \A k \in 1..Len(e) : e[k] \in Entries /\ e[k] \in Range(e)
    <3> HIDE DEF e
    <3> QED
      BY <2>1 DEF Range
  <2>10. \A x \in Entries : x.inumber \in 0..LastInode /\ x = Entry(x.name, x.inumber)
    BY DEF Entries, Entry
  <2>4. \A k \in hits : e[k] \in Entries /\ e[k].inumber \in 0..LastInode /\ e[k].name = c.name
    <3> HIDE DEF e
    <3> QED
      BY <2>9, <2>10
  <2>5. \A k \in 1..Len(e) : e[k] = Entry(e[k].name, e[k].inumber) /\ e[k] \in Range(e)
    <3> HIDE DEF e
    <3> QED
      BY <2>9, <2>10
  <2>6. Findname(i, c) \in Numbers
    <3> HIDE DEF hits, e, dir
    <3> QED
      BY <1>0, <2>2, <2>3, <2>4 DEF Numbers
  <2>7. ASSUME WellFormed, NEW j \in 1..LastInode, Findname(i, c) = j PROVE Linked(i, c.name, j)
    <3>1. dir /\ hits # {} /\ e[Min(hits)].inumber = j
      <4> HIDE DEF hits, e, dir
      <4> QED
        BY <1>0, <2>2, <2>7 DEF Error
    <3>2. PICK k \in hits : e[k].inumber = j
      BY <2>3, <3>1
    <3>3. e[k] = Entry(c.name, j) /\ e[k] \in Range(e)
      BY <2>4, <2>5, <3>2
    <3>4. inodes[i].mode # "block"
      <4> SUFFICES ASSUME inodes[i].mode = "block" PROVE FALSE
        OBVIOUS
      <4>1. inodes[i].seen = <<>>
        BY <2>0, <2>7 DEF WellFormed, ProperDirectory
      <4> QED
        BY <4>1
    <3> QED
      BY <2>0, <3>1, <3>3, <3>4 DEF Linked
  <2>8. ASSUME WellFormed, NEW j \in 1..LastInode, Linked(i, c.name, j)
        PROVE  Findname(i, c) = j
    <3>1. PICK k \in 1..Len(e) : e[k] = Entry(c.name, j)
      <4>1. Entry(c.name, j) \in Range(e)
        BY <2>8 DEF Linked
      <4> QED
        BY <2>1, <4>1 DEF Range
    <3>2. e[k].name = c.name /\ e[k].inumber = j /\ j # 0
      BY <1>0, <3>1 DEF Entry
    <3>3. dir /\ k \in hits
      BY <2>8, <3>2 DEF Linked
    <3> DEFINE a == inodes[i].entries
    <3>4. Starts(e, a) /\ a \in Seq(Entries)
      BY <2>0, <2>8, SeenFirst, Kinds DEF Linked
    <3>5. k \in 1..Len(a) /\ a[k] = e[k] /\ \A m \in 1..k : a[m] = e[m]
      <4>1. Len(a) \in Nat /\ Len(e) \in Nat
        BY <2>1, <3>4
      <4> HIDE DEF a, e
      <4>2. k \in 1..Len(a) /\ \A m \in 1..k : m \in 1..Len(e)
        BY <3>4, <4>1 DEF Starts
      <4> QED
        BY <3>4, <4>1, <4>2 DEF Starts
    <3>6. k \in Live(i)
      BY <3>2, <3>5 DEF Live
    <3>7. \A m \in 1..k - 1 : a[m].name # a[k].name
      BY <2>0, <2>8, <3>6 DEF WellFormed, ProperDirectory
    <3>8. \A m \in 1..k - 1 : e[m].name # c.name
      <4>1. \A m \in 1..k - 1 : m \in 1..k
        OBVIOUS
      <4> HIDE DEF a, e
      <4> QED
        BY <3>2, <3>5, <3>7, <4>1
    <3>9. Min(hits) = k
      <4>1. Min(hits) \in hits /\ Min(hits) <= k
        <5> HIDE DEF hits, e, dir
        <5> QED
          BY <2>3, <3>3
      <4>2. PICK m \in hits : m = Min(hits)
        BY <4>1
      <4>3. m \in 1..Len(e) /\ e[m].name = c.name /\ m <= k
        <5> HIDE DEF Min
        <5> QED
          BY <4>1, <4>2
      <4>4. ~(m \in 1..k - 1)
        BY <3>8, <4>3
      <4>5. m = k
        BY <4>3, <4>4
      <4> QED
        BY <4>2, <4>5
    <3> HIDE DEF hits, e, dir
    <3> QED
      BY <2>2, <3>2, <3>3, <3>9
  <2> QED
    BY <2>0, <2>6, <2>7, <2>8
<1> QED
  BY <1>1, <1>2

\* A component leads to a number or to an error.
LEMMA FollowGoes ==
  ASSUME OnDisk, NEW i \in Numbers, NEW c
  PROVE  Follow(i, c) \in Numbers
<1>1. Findname(i, c) \in Numbers
  BY FindnameFinds
<1>2. Findname(Findname(i, c), Component(c.tail, "none")) \in Numbers
  BY <1>1, FindnameFinds
<1> QED
  BY <1>1, <1>2 DEF Follow

\* pathname_lookup() goes from number to number.
LEMMA LookupGoes ==
  ASSUME OnDisk, NEW path \in Seq(Components)
  PROVE  \E f \in [0..Len(path) -> Numbers] :
           /\ f[0] = Root /\ PathnameLookup(path) = f[Len(path)]
           /\ \A k \in 1..Len(path) :
                f[k] = IF f[k - 1] < 0 THEN Error ELSE Follow(f[k - 1], path[k])
<1> DEFINE n == Len(path)
           step(i, k) == IF i < 0 THEN Error ELSE Follow(i, path[k])
           IsCurr(f) == f = [k \in 0..n |-> IF k = 0 THEN Root ELSE step(f[k - 1], k)]
           S == Numbers
<1>1. n \in Nat /\ \A k \in 1..n : path[k] \in Components
  OBVIOUS
<1>2. Root \in S
  BY OfImage DEF Numbers
<1>3. \A i \in S, k \in 1..n : step(i, k) \in S
  <2> SUFFICES ASSUME NEW i \in S, NEW k \in 1..n PROVE step(i, k) \in S
    OBVIOUS
  <2>1. Error \in S
    BY DEF Numbers
  <2> QED
    BY <2>1, FollowGoes
<1>4. PICK f : IsCurr(f)
  <2> DEFINE g == [x \in S \X (1..n) |-> step(x[1], x[2])]
  <2>1. g \in [S \X (1..n) -> S]
    <3> HIDE DEF step, S
    <3> QED
      BY <1>3
  <2>2. Recursive(n, S, Root, g)
    <3> HIDE DEF g, S
    <3> QED
      BY <1>1, <1>2, <2>1 DEF Recursive
  <2>3. PICK f : Unfolds(n, S, Root, g, f)
    <3> HIDE DEF n, S, g
    <3> QED
      BY <2>2, Recursion, Zenon
  <2>4. f \in [0..n -> S] /\ f[0] = Root /\ \A k \in 1..n : f[k] = g[<<f[k - 1], k>>]
    <3> HIDE DEF g, S
    <3> QED
      BY <2>3 DEF Unfolds
  <2>5. \A k \in 1..n : f[k] = step(f[k - 1], k)
    <3> SUFFICES ASSUME NEW k \in 1..n PROVE f[k] = step(f[k - 1], k)
      OBVIOUS
    <3>1. <<f[k - 1], k>> \in S \X (1..n)
      <4>1. k - 1 \in 0..n
        BY <1>1
      <4> HIDE DEF S, g
      <4> QED
        BY <2>4, <4>1
    <3> HIDE DEF step, S
    <3>2. g[<<f[k - 1], k>>] = step(f[k - 1], k)
      BY <3>1
    <3> HIDE DEF g
    <3> QED
      BY <2>4, <3>2
  <2>6. \A k \in 0..n : f[k] = IF k = 0 THEN Root ELSE step(f[k - 1], k)
    <3> HIDE DEF step, g, S
    <3> QED
      BY <1>1, <2>4, <2>5
  <2> HIDE DEF step, g, S
  <2>7. f = [k \in 0..n |-> f[k]]
    BY <2>4
  <2>8. IsCurr(f)
    BY <2>6, <2>7
  <2> QED
    BY <2>8
<1> DEFINE curr == CHOOSE c : IsCurr(c)
<1>5. IsCurr(curr)
  <2> HIDE DEF IsCurr
  <2> QED
    BY <1>4, Zenon
<1>6. PathnameLookup(path) = curr[n]
  BY DEF PathnameLookup
<1>7. DOMAIN curr = 0..n /\ \A k \in 0..n : curr[k] = IF k = 0 THEN Root ELSE step(curr[k - 1], k)
  <2> HIDE DEF curr, step
  <2> QED
    BY <1>5
<1> HIDE DEF curr, IsCurr
<1> DEFINE Good == {k \in 0..n : curr[k] \in S}
<1>8. 0 \in Good
  BY <1>1, <1>2, <1>7
<1>9. ASSUME NEW k \in 0..n - 1, k \in Good PROVE k + 1 \in Good
  <2>1. k + 1 \in 0..n /\ k + 1 \in 1..n /\ k + 1 # 0 /\ (k + 1) - 1 = k
    BY <1>1
  <2> HIDE DEF step, S
  <2>2. curr[k + 1] = step(curr[k], k + 1)
    BY <1>7, <2>1
  <2>3. step(curr[k], k + 1) \in S
    BY <1>3, <1>9, <2>1
  <2> QED
    BY <2>1, <2>2, <2>3
<1>10. \A k \in 0..n : curr[k] \in S
  <2>1. \A k \in 0..n - 1 : k \in Good => k + 1 \in Good
    BY <1>9
  <2>2. \A k \in 0..n : k \in Good
    <3> HIDE DEF Good, n
    <3> QED
      BY <1>1, <1>8, <2>1, Upwards
  <2> QED
    BY <2>2
<1>11. curr \in [0..n -> S]
  <2>1. \A k \in 0..n : (IF k = 0 THEN Root ELSE step(curr[k - 1], k)) \in S
    <3> HIDE DEF step, S
    <3> QED
      BY <1>7, <1>10
  <2> HIDE DEF step, S
  <2> QED
    BY <1>5, <2>1 DEF IsCurr
<1>12. /\ curr[0] = Root
       /\ \A k \in 1..n : curr[k] = step(curr[k - 1], k)
  <2>1. \A k \in 1..n : k \in 0..n /\ k # 0
    BY <1>1
  <2>2. 0 \in 0..n
    BY <1>1
  <2> HIDE DEF step
  <2> QED
    BY <1>7, <2>1, <2>2
<1> QED
  BY <1>6, <1>11, <1>12

\* A path without a slash in a component leads lookup to where its names lead.
LEMMA LookupLeads ==
  ASSUME OnDisk, WellFormed, NEW path \in Seq(Components),
         \A k \in DOMAIN path : Single(path[k]), NEW i \in 1..LastInode
  PROVE  PathnameLookup(path) = i <=> Leads(1..LastInode, Named(path), i)
<1> DEFINE n == Len(path)
           s == Named(path)
           All == 1..LastInode
<1>0. /\ n \in Nat /\ LastInode \in Nat \ {0} /\ Root \in 1..LastInode
      /\ \A k \in 1..n : path[k] \in Components /\ Single(path[k])
  BY OfImage
<1>1. s \in Seq(Names) /\ Len(s) = n /\ \A k \in 1..n : s[k] = path[k].name
  <2>1. \A k \in 1..n : path[k].name \in Names
    BY <1>0 DEF Components
  <2>2. s = [k \in 1..n |-> path[k].name]
    BY DEF Named
  <2> HIDE DEF s, n
  <2> QED
    BY <1>0, <2>1, <2>2
<1>2. PICK f \in [0..n -> Numbers] :
        /\ f[0] = Root /\ PathnameLookup(path) = f[n]
        /\ \A k \in 1..n : f[k] = IF f[k - 1] < 0 THEN Error ELSE Follow(f[k - 1], path[k])
  BY LookupGoes
<1> HIDE DEF s, n
<1>3. ASSUME NEW k \in 1..n PROVE f[k] = IF f[k - 1] = Error THEN Error ELSE Findname(f[k - 1], path[k])
  <2>1. f[k - 1] \in Numbers
    BY <1>0
  <2>2. f[k - 1] < 0 <=> f[k - 1] = Error
    BY <1>0, <2>1 DEF Numbers, Error
  <2>3. Follow(f[k - 1], path[k]) = Findname(f[k - 1], path[k])
    BY <1>0 DEF Follow
  <2> QED
    BY <1>2, <2>2, <2>3
<1>4. ASSUME f[n] = i PROVE Leads(All, s, i)
  <2> DEFINE Good == {k \in 0..n : f[n - k] \in 1..LastInode}
  <2>1. 0 \in Good
    BY <1>0, <1>4
  <2>2. ASSUME NEW k \in 1..n, NEW j \in 1..LastInode, f[k] = j
        PROVE  f[k - 1] \in 1..LastInode /\ Linked(f[k - 1], s[k], f[k])
    <3>1. f[k - 1] \in Numbers
      BY <1>0
    <3>2. Findname(f[k - 1], path[k]) = j
      BY <1>0, <1>3, <2>2 DEF Error
    <3>3. f[k - 1] \in 1..LastInode /\ Linked(f[k - 1], path[k].name, j)
      BY <3>1, <3>2, FindnameFinds, Zenon
    <3> QED
      BY <1>1, <2>2, <3>3
  <2>3. ASSUME NEW k \in 0..n - 1, k \in Good PROVE k + 1 \in Good
    <3>1. n - k \in 1..n /\ n - (k + 1) = (n - k) - 1 /\ k + 1 \in 0..n
      BY <1>0
    <3> QED
      BY <2>2, <2>3, <3>1
  <2>4. \A k \in 0..n : k \in Good
    <3>1. \A k \in 0..n - 1 : k \in Good => k + 1 \in Good
      BY <2>3
    <3> HIDE DEF Good
    <3> QED
      BY <1>0, <2>1, <3>1, Upwards
  <2>5. \A k \in 0..n : f[k] \in 1..LastInode
    <3> SUFFICES ASSUME NEW k \in 0..n PROVE f[k] \in 1..LastInode
      OBVIOUS
    <3>1. n - k \in 0..n /\ n - (n - k) = k
      BY <1>0
    <3>2. n - k \in Good
      BY <2>4, <3>1
    <3> QED
      BY <3>1, <3>2
  <2>6. f \in Chains(n)
    BY <1>2, <2>5 DEF Chains
  <2>7. \A k \in 1..n : Linked(f[k - 1], s[k], f[k])
    <3> SUFFICES ASSUME NEW k \in 1..n PROVE Linked(f[k - 1], s[k], f[k])
      OBVIOUS
    <3>1. f[k] \in 1..LastInode
      BY <1>0, <2>5
    <3> QED
      BY <2>2, <3>1
  <2> QED
    BY <1>1, <1>4, <2>5, <2>6, <2>7 DEF Leads
<1>5. ASSUME Leads(All, s, i) PROVE f[n] = i
  <2>1. PICK c \in Chains(n) : c[n] = i /\ \A k \in 1..n : Linked(c[k - 1], s[k], c[k])
    BY <1>1, <1>5 DEF Leads
  <2>2. c \in [0..n -> 1..LastInode] /\ c[0] = Root
    BY DEF Chains
  <2> DEFINE Good == {k \in 0..n : f[k] = c[k]}
  <2>3. 0 \in Good
    BY <1>0, <1>2, <2>2
  <2>4. ASSUME NEW k \in 0..n - 1, k \in Good PROVE k + 1 \in Good
    <3>1. k + 1 \in 1..n /\ k + 1 \in 0..n /\ (k + 1) - 1 = k /\ k \in 0..n
      BY <1>0
    <3>2. c[k] \in 1..LastInode /\ c[k + 1] \in 1..LastInode /\ f[k] = c[k]
      BY <2>2, <2>4, <3>1
    <3>3. c[k] \in Numbers /\ c[k] # Error
      BY <1>0, <3>2 DEF Numbers, Error
    <3>4. Linked(c[k], path[k + 1].name, c[k + 1])
      <4>1. Linked(c[(k + 1) - 1], s[k + 1], c[k + 1])
        BY <2>1, <3>1
      <4> QED
        BY <1>1, <3>1, <4>1
    <3>5. Findname(c[k], path[k + 1]) = c[k + 1]
      BY <3>2, <3>3, <3>4, FindnameFinds
    <3>6. f[k + 1] = IF f[k] = Error THEN Error ELSE Findname(f[k], path[k + 1])
      <4>1. f[k + 1] = IF f[(k + 1) - 1] = Error THEN Error ELSE Findname(f[(k + 1) - 1], path[k + 1])
        BY <1>3, <3>1
      <4> QED
        BY <3>1, <4>1
    <3> QED
      BY <3>1, <3>2, <3>3, <3>5, <3>6
  <2>5. \A k \in 0..n : k \in Good
    <3>1. \A k \in 0..n - 1 : k \in Good => k + 1 \in Good
      BY <2>4
    <3> HIDE DEF Good
    <3> QED
      BY <1>0, <2>3, <3>1, Upwards
  <2> QED
    BY <1>0, <2>1, <2>5
<1> QED
  BY <1>2, <1>4, <1>5 DEF s

\* Names lead to one inode.
LEMMA LeadsOnce ==
  ASSUME OnDisk, WellFormed, NEW S, S \subseteq 1..LastInode, NEW s \in Seq(Names),
         NEW i \in 1..LastInode, NEW j \in 1..LastInode, Leads(S, s, i), Leads(S, s, j)
  PROVE  i = j
<1> DEFINE p == [k \in DOMAIN s |-> Component(s[k], "none")]
<1>1. \A x \in Names : /\ Component(x, "none") \in Components /\ Single(Component(x, "none"))
                       /\ Component(x, "none").name = x
  BY DEF Components, Component, Tails, Single
<1>2. p \in Seq(Components) /\ DOMAIN p = DOMAIN s /\ \A k \in DOMAIN p : Single(p[k])
  BY <1>1
<1>3. Named(p) = s
  <2>1. \A k \in DOMAIN s : p[k].name = s[k]
    BY <1>1
  <2>2. s = [k \in DOMAIN s |-> s[k]]
    OBVIOUS
  <2> HIDE DEF p
  <2> QED
    BY <1>2, <2>1, <2>2 DEF Named
<1> HIDE DEF p
<1>4. Leads(1..LastInode, s, i) /\ Leads(1..LastInode, s, j)
  BY LeadsThroughMore
<1>5. PathnameLookup(p) = i /\ PathnameLookup(p) = j
  BY <1>2, <1>3, <1>4, LookupLeads
<1> QED
  BY <1>5
-----------------------------------------------------------------------------
\* The image never changes, so all that is said of it holds for ever.
LEMMA ImageKept == Spec => []OnDisk
<1>1. Init => OnDisk
  BY DEF Init, OnDisk
<1>2. OnDisk /\ [Next]_vars => OnDisk'
  BY DEF Next, DumpInode, InodesEnd, DumpPath, PathsEnd, vars, OnDisk
<1> QED
  BY <1>1, <1>2, PTL DEF Spec

\* pathname_lookup() and the directories agree on every path, whatever follows the
\* 14th character of a name and whatever cannot be read, if each live name is the
\* first of its directory, nothing is left behind the last one, and no block special
\* file holds names.
THEOREM LookupIsTreeHolds == Spec => []LookupIsTree
<1>1. OnDisk => LookupIsTree
  <2> SUFFICES ASSUME OnDisk, WellFormed, NEW path \in SinglePaths, NEW i \in 1..LastInode
               PROVE  PathnameLookup(path) = i
                        <=> [path |-> Named(path), inumber |-> i] \in Hierarchy(1..LastInode)
    BY DEF LookupIsTree
  <2>1. path \in Seq(Components) /\ \A k \in DOMAIN path : Single(path[k])
    <3>1. PICK m \in 0..MaxDepth : path \in [1..m -> {c \in Components : Single(c)}]
      BY DEF SinglePaths, BoundedSeq, SeqOf
    <3>2. m \in Nat
      BY DumpAssumption
    <3>3. \A k \in 1..m : path[k] \in Components /\ Single(path[k])
      BY <3>1
    <3> QED
      BY <3>1, <3>2, <3>3
  <2>2. Named(path) \in Seq(Names)
    <3>1. \A k \in 1..Len(path) : path[k].name \in Names
      BY <2>1 DEF Components
    <3>2. Named(path) = [k \in 1..Len(path) |-> path[k].name] /\ Len(path) \in Nat
      BY <2>1 DEF Named
    <3> QED
      BY <3>1, <3>2
  <2>3. /\ [path |-> Named(path), inumber |-> i] \in Hierarchy(1..LastInode)
             <=> Leads(1..LastInode, Named(path), i)
        /\ PathnameLookup(path) = i <=> Leads(1..LastInode, Named(path), i)
    <3>1. OnDisk /\ WellFormed
      OBVIOUS
    <3>2. [path |-> Named(path), inumber |-> i] \in Hierarchy(1..LastInode)
             <=> Leads(1..LastInode, Named(path), i)
      BY <2>2, <3>1, HierarchyLeads
    <3>3. PathnameLookup(path) = i <=> Leads(1..LastInode, Named(path), i)
      BY <2>1, <3>1, LookupLeads
    <3> QED
      BY <3>2, <3>3
  <2> QED
    BY <2>3
<1> QED
  BY <1>1, ImageKept, PTL
-----------------------------------------------------------------------------
(***************************************************************************)
(* One call of the walk.                                                   *)
(***************************************************************************)

\* Just the intact inodes have a checksum, and what is digested is what is in them.
LEMMA Checksums ==
  ASSUME OnDisk, NEW i \in 0..LastInode
  PROVE  /\ Checksum(i) # NoChecksum <=> i \in Intact
         /\ i \in Intact => Checksum(i) = <<inodes[i].entries, inodes[i].content>>
<1>0. LastInode \in Nat \ {0} /\ Intact \subseteq 1..LastInode
  BY OfImage DEF Intact
<1>1. CASE i = 0
  <2>1. Iget(i) = NoInode /\ i \notin Intact
    BY <1>0, <1>1, NoInodeThere
  <2> QED
    BY <2>1 DEF Checksum
<1>2. CASE i \in 1..LastInode /\ (inodes[i].mode = "free" \/ ~Readable(i))
  <2>1. Iget(i) = NoInode /\ i \notin Intact
    BY <1>2, InodeFound DEF Intact
  <2> QED
    BY <2>1 DEF Checksum
<1>3. CASE i \in 1..LastInode /\ inodes[i].mode # "free" /\ Readable(i)
  <2>1. Iget(i) = inodes[i] /\ inodes[i] # NoInode /\ (i \in Intact <=> inodes[i].whole)
    BY <1>3, InodeFound, Kinds DEF Intact
  <2>2. Checksum(i) = IF ~inodes[i].whole THEN NoChecksum
                      ELSE <<inodes[i].entries, inodes[i].content>>
    BY <2>1 DEF Checksum
  <2>3. \A x, y : <<x, y>> # NoChecksum
    BY DEF NoChecksum
  <2> QED
    BY <2>1, <2>2, <2>3
<1> QED
  BY <1>0, <1>1, <1>2, <1>3

\* The entries the walk is given are those of the directory, if it can be read, in
\* their order, up to the size of the array.
LEMMA EntriesGot ==
  ASSUME OnDisk, NEW i \in Intact
  PROVE  /\ GetDirEntries(i) \in Seq(Entries)
         /\ Len(GetDirEntries(i)) <= Len(inodes[i].entries)
         /\ \A k \in 1..Len(GetDirEntries(i)) : GetDirEntries(i)[k] = inodes[i].entries[k]
         /\ WellFormed => GetDirEntries(i) = inodes[i].entries
<1> DEFINE e == inodes[i].entries
           n == IF Len(e) < MaxEntries THEN Len(e) ELSE MaxEntries
           d == SubSeq(e, 1, n)
<1>0. i \in 1..LastInode /\ Iget(i) = inodes[i] /\ inodes[i].whole
  BY InodeFound DEF Intact
<1>1. e \in Seq(Entries) /\ (inodes[i].mode # "directory" => e = <<>>)
  BY <1>0, Kinds
<1>2. GetDirEntries(i) = IF inodes[i].mode # "directory" THEN <<>> ELSE d
  BY <1>0 DEF GetDirEntries
<1>3. WellFormed => Len(e) <= MaxEntries
  BY <1>0 DEF WellFormed, ProperDirectory
<1>4. n \in Nat /\ n <= Len(e) /\ (Len(e) <= MaxEntries => n = Len(e))
  <2> HIDE DEF e
  <2> QED
    BY <1>1, DumpAssumption
<1> HIDE DEF n
<1>5. d \in Seq(Entries) /\ Len(d) = n /\ \A k \in 1..n : d[k] = e[k]
  <2> HIDE DEF e
  <2> QED
    BY <1>1, <1>4
<1>8. n = Len(e) => d = e
  <2> HIDE DEF e
  <2> QED
    BY <1>1
<1> HIDE DEF d
<1>6. CASE inodes[i].mode # "directory"
  <2>1. GetDirEntries(i) = <<>> /\ e = <<>>
    BY <1>1, <1>2, <1>6
  <2> HIDE DEF e
  <2>2. Len(e) = 0
    BY <2>1
  <2> QED
    BY <2>1, <2>2 DEF e
<1>7. CASE inodes[i].mode = "directory"
  <2>1. GetDirEntries(i) = d
    BY <1>2, <1>7
  <2> HIDE DEF e
  <2>2. WellFormed => d = e
    BY <1>3, <1>4, <1>8
  <2> QED
    BY <1>4, <1>5, <2>1, <2>2 DEF e
<1> QED
  BY <1>6, <1>7

\* An entry as the walk sees it: its name has a tail.
Seen == [name : [name : Names \cup Dots, tail : Tails], inumber : 0..LastInode]

\* What it sees of an entry: one of a name of its own is a component of a path.
LEMMA ListingShows ==
  ASSUME NEW d \in Seq(Entries), NEW left \in Lefts(d)
  PROVE  /\ Listing(d, left) \in Seq(Seen) /\ Len(Listing(d, left)) = Len(d)
         /\ \A k \in 1..Len(d) :
              /\ Listing(d, left)[k].inumber = d[k].inumber
              /\ Listing(d, left)[k].name.name = d[k].name
              /\ Listing(d, left)[k].name.tail = Tail14(d, k, left)
              /\ d[k].name \in Names => Listing(d, left)[k].name \in Components
<1> DEFINE n == Len(d)
           x(k) == Entry(Component(d[k].name, Tail14(d, k, left)), d[k].inumber)
<1>1. n \in Nat /\ \A k \in 1..n : d[k].name \in Names \cup Dots /\ d[k].inumber \in 0..LastInode
  <2>1. \A y \in Entries : y.name \in Names \cup Dots /\ y.inumber \in 0..LastInode
    BY DEF Entries
  <2>2. \A k \in 1..n : d[k] \in Entries
    OBVIOUS
  <2> QED
    BY <2>1, <2>2
<1>2. ASSUME NEW k \in 1..n
      PROVE  /\ Tail14(d, k, left) \in Tails
             /\ d[k].name \notin LongNames => Tail14(d, k, left) = "none"
  <2>1. CASE d[k].name \notin LongNames
    BY <2>1 DEF Tail14, Tails
  <2>2. CASE d[k].name \in LongNames
    <3>1. left[k] \in Tails
      BY <1>2, <2>2 DEF Lefts
    <3>2. k # n => d[k + 1].name \in Tails
      <4>1. k # n => k + 1 \in 1..n
        BY <1>1
      <4> QED
        BY <1>1, <4>1 DEF Tails
    <3>3. "none" \in Tails /\ "more" \in Tails
      BY DEF Tails
    <3> QED
      BY <2>2, <3>1, <3>2, <3>3 DEF Tail14
  <2> QED
    BY <2>1, <2>2
<1>3. ASSUME NEW k \in 1..n
      PROVE  /\ x(k) \in Seen /\ x(k).inumber = d[k].inumber /\ x(k).name.name = d[k].name
             /\ x(k).name.tail = Tail14(d, k, left)
  BY <1>1, <1>2, <1>3 DEF Entry, Component, Seen
<1>4. ASSUME NEW k \in 1..n, d[k].name \in Names PROVE x(k).name \in Components
  <2>1. x(k).name = [name |-> d[k].name, tail |-> Tail14(d, k, left)]
    BY DEF Entry, Component
  <2> QED
    BY <1>2, <1>4, <2>1 DEF Components
<1>5. Listing(d, left) = [k \in 1..n |-> x(k)]
  BY DEF Listing
<1>6. \A k \in 1..n : Listing(d, left)[k] = x(k)
  <2> HIDE DEF x
  <2> QED
    BY <1>5
<1>7. Listing(d, left) \in Seq(Seen) /\ Len(Listing(d, left)) = n
  <2> HIDE DEF x
  <2> QED
    BY <1>1, <1>3, <1>5
<1> QED
  BY <1>3, <1>4, <1>6, <1>7

\* The calls that the call h makes itself.
Under(h, kids) ==
  /\ h.inumber \in Intact
  /\ \A k \in 1..Len(kids) :
       /\ kids[k].path = Append(h.path, Last(kids[k].path))
       /\ Last(kids[k].path) \in Components
       /\ WellFormed /\ Terminated => Single(Last(kids[k].path))
  /\ WellFormed =>
       /\ \A k \in 1..Len(kids) : kids[k].inumber # 0
            => Linked(h.inumber, Last(kids[k].path).name, kids[k].inumber)
       /\ \A j, k \in 1..Len(kids) :
            j # k /\ kids[j].inumber # 0 /\ kids[k].inumber # 0
              => Last(kids[j].path).name # Last(kids[k].path).name
       /\ \A n \in Names, i \in 1..LastInode : Linked(h.inumber, n, i) =>
            \E k \in 1..Len(kids) : Last(kids[k].path).name = n /\ kids[k].inumber = i

Called(h, left) ==
  LET kids == Children(Listing(GetDirEntries(h.inumber), left))
  IN  [k \in 1..Len(kids) |-> [path |-> Append(h.path, kids[k].name), inumber |-> kids[k].inumber]]

\* They are one for each entry but the dots, so for each link.
LEMMA CallsUnder ==
  ASSUME OnDisk, NEW h \in Calls, h.inumber \in Intact,
         NEW left \in Lefts(GetDirEntries(h.inumber))
  PROVE  Called(h, left) \in Seq(Calls) /\ Under(h, Called(h, left))
<1> DEFINE i == h.inumber
           e == inodes[i].entries
           d == GetDirEntries(i)
           l == Listing(d, left)
           c == Children(l)
           kids == Called(h, left)
<1>0. /\ LastInode \in Nat \ {0} /\ h.path \in Seq(Components)
      /\ i \in Intact /\ i \in 1..LastInode /\ Readable(i) /\ inodes[i].whole
  BY OfImage DEF Calls, Intact
<1>1. /\ d \in Seq(Entries) /\ Len(d) <= Len(e) /\ e \in Seq(Entries)
      /\ \A k \in 1..Len(d) : d[k] = e[k]
      /\ WellFormed => d = e
  BY <1>0, EntriesGot, Kinds
<1>2. /\ l \in Seq(Seen) /\ Len(l) = Len(d)
      /\ \A k \in 1..Len(d) :
           /\ l[k].inumber = d[k].inumber /\ l[k].name.name = d[k].name
           /\ d[k].name \in Names => l[k].name \in Components
           /\ l[k].name.tail = Tail14(d, k, left)
  <2>1. left \in Lefts(d)
    OBVIOUS
  <2> HIDE DEF d
  <2> QED
    BY <1>1, <2>1, ListingShows
<1>3. c \in Seq(Seen) /\ Chosen(l, c)
  <2> HIDE DEF l
  <2> QED
    BY <1>2, ChildrenAre
<1>4. PICK g \in [1..Len(c) -> 1..Len(l)] :
              /\ \A k \in DOMAIN g : c[k] = l[g[k]] /\ NotDot(l[g[k]])
              /\ \A j, k \in DOMAIN g : j < k => g[j] < g[k]
              /\ \A m \in 1..Len(l) : NotDot(l[m]) => \E k \in DOMAIN g : g[k] = m
  <2> HIDE DEF l, c
  <2> QED
    BY <1>3 DEF Chosen
<1>5. kids = [k \in 1..Len(c) |-> [path |-> Append(h.path, c[k].name), inumber |-> c[k].inumber]]
  BY DEF Called
<1>6. Names \cap Dots = {}
  BY DumpAssumption
<1>7. \A m \in 1..Len(d) : /\ e[m] \in Entries /\ e[m].name \in Names \cup Dots
                           /\ e[m].inumber \in 0..LastInode
                           /\ e[m] = Entry(e[m].name, e[m].inumber) /\ e[m] \in Range(e)
  <2>1. \A x \in Entries : /\ x.name \in Names \cup Dots /\ x.inumber \in 0..LastInode
                           /\ x = Entry(x.name, x.inumber)
    BY DEF Entries, Entry
  <2>2. \A m \in 1..Len(d) : e[m] \in Entries /\ e[m] \in Range(e)
    <3>1. \A m \in 1..Len(d) : m \in 1..Len(e)
      BY <1>1
    <3> HIDE DEF e, d
    <3> QED
      BY <1>1, <3>1 DEF Range
  <2> HIDE DEF e, d
  <2> QED
    BY <2>1, <2>2
<1> HIDE DEF kids, c, l, d, e
\* Call k is that of entry g[k].
<1>8. ASSUME NEW k \in 1..Len(c)
      PROVE  /\ g[k] \in 1..Len(d)
             /\ c[k].name.name = e[g[k]].name /\ c[k].inumber = e[g[k]].inumber
             /\ c[k].name \in Components /\ e[g[k]].name \in Names
             /\ WellFormed /\ Terminated => Single(c[k].name)
  <2>1. g[k] \in 1..Len(d) /\ c[k] = l[g[k]] /\ NotDot(l[g[k]])
    BY <1>2, <1>4
  <2>2. d[g[k]] = e[g[k]]
    BY <1>1, <2>1
  <2>3. c[k].name.name = e[g[k]].name /\ c[k].inumber = e[g[k]].inumber
    BY <1>2, <2>1, <2>2
  <2>4. e[g[k]].name \notin Dots
    BY <2>1, <2>3 DEF NotDot
  <2>5. e[g[k]].name \in Names
    BY <1>7, <2>1, <2>4
  <2>6. c[k].name \in Components
    BY <1>2, <2>1, <2>2, <2>5
  <2>7. ASSUME WellFormed, Terminated PROVE Single(c[k].name)
    <3>1. d = e /\ c[k].name.tail = Tail14(d, g[k], left)
      BY <1>1, <1>2, <2>1, <2>7
    <3>2. left \in Lefts(e) /\ g[k] \in DOMAIN e
      BY <1>1, <2>1, <3>1 DEF d
    <3>3. Tail14(e, g[k], left) \in {"none", "more"}
      BY <1>0, <2>7, <3>2 DEF Terminated, e
    <3> QED
      BY <3>1, <3>3 DEF Single
  <2> QED
    BY <2>1, <2>3, <2>5, <2>6, <2>7
<1>9. ASSUME NEW k \in 1..Len(c)
      PROVE  /\ kids[k] = [path |-> Append(h.path, c[k].name), inumber |-> c[k].inumber]
             /\ kids[k].path = Append(h.path, c[k].name) /\ kids[k].inumber = c[k].inumber
             /\ Last(kids[k].path) = c[k].name
             /\ kids[k] \in Calls
  <2>1. /\ kids[k] = [path |-> Append(h.path, c[k].name), inumber |-> c[k].inumber]
        /\ kids[k].path = Append(h.path, c[k].name) /\ kids[k].inumber = c[k].inumber
    BY <1>5
  <2>2. c[k].name \in Components /\ c[k].inumber \in 0..LastInode
    BY <1>7, <1>8
  <2>3. Append(h.path, c[k].name) \in Seq(Components)
    BY <1>0, <2>2
  <2>4. Last(kids[k].path) = c[k].name
    <3> DEFINE p == h.path
               y == c[k].name
    <3>1. p \in Seq(Components) /\ y \in Components
      BY <1>0, <2>2
    <3> HIDE DEF p, y
    <3>2. Append(p, y)[Len(Append(p, y))] = y
      BY <3>1
    <3> QED
      BY <2>1, <3>2 DEF Last, p, y
  <2> QED
    BY <2>1, <2>2, <2>3, <2>4 DEF Calls
<1>10. kids \in Seq(Calls) /\ Len(kids) = Len(c)
  <2>1. Len(c) \in Nat
    BY <1>3
  <2>2. kids = [k \in 1..Len(c) |-> kids[k]]
    BY <1>5
  <2> QED
    BY <1>9, <2>1, <2>2
<1>11. ASSUME WellFormed, NEW k \in 1..Len(c), kids[k].inumber # 0
       PROVE  Linked(i, Last(kids[k].path).name, kids[k].inumber)
  <2>1. kids[k].inumber = e[g[k]].inumber /\ Last(kids[k].path).name = e[g[k]].name
    BY <1>8, <1>9
  <2>2. g[k] \in 1..Len(d) /\ e # <<>>
    BY <1>1, <1>8
  <2>3. inodes[i].mode = "directory" /\ inodes[i].seen = e
    BY <1>0, <1>11, <2>2, Kinds DEF WellFormed, ProperDirectory, e
  <2> QED
    BY <1>0, <1>7, <2>1, <2>2, <2>3 DEF Linked
<1>12. ASSUME WellFormed, NEW j \in 1..Len(c), NEW k \in 1..Len(c), j < k,
              kids[k].inumber # 0
       PROVE  Last(kids[j].path).name # Last(kids[k].path).name
  <2>1. /\ Last(kids[j].path).name = e[g[j]].name /\ Last(kids[k].path).name = e[g[k]].name
        /\ e[g[k]].inumber # 0 /\ g[j] \in 1..Len(d) /\ g[k] \in 1..Len(d)
    BY <1>8, <1>9, <1>12
  <2>2. g[j] < g[k]
    BY <1>4, <1>12
  <2>3. g[k] \in Live(i)
    BY <1>1, <1>12, <2>1 DEF Live, e
  <2>4. g[j] \in 1..g[k] - 1
    BY <1>1, <2>1, <2>2
  <2>5. \A a \in Live(i) : \A b \in 1..a - 1 : e[b].name # e[a].name
    BY <1>0, <1>12 DEF WellFormed, ProperDirectory, e
  <2> QED
    BY <2>1, <2>3, <2>4, <2>5
<1>13. ASSUME WellFormed, NEW n \in Names, NEW j \in 1..LastInode, Linked(i, n, j)
       PROVE  \E k \in 1..Len(c) : Last(kids[k].path).name = n /\ kids[k].inumber = j
  <2>1. PICK m \in 1..Len(e) : e[m] = Entry(n, j)
    <3>1. Entry(n, j) \in Range(e)
      BY <1>0, <1>13, LinkIsEntry DEF e
    <3> QED
      BY <1>1, <3>1 DEF Range
  <2>2. m \in 1..Len(d) /\ e[m].name = n /\ e[m].inumber = j
    BY <1>1, <1>13, <2>1 DEF Entry
  <2>3. NotDot(l[m])
    BY <1>1, <1>2, <1>6, <2>2 DEF NotDot
  <2>4. PICK k \in 1..Len(c) : g[k] = m
    BY <1>2, <1>4, <2>2, <2>3
  <2>5. c[k].name.name = n /\ c[k].inumber = j
    BY <1>8, <2>2, <2>4
  <2> QED
    BY <1>9, <2>5
<1>14. Under(h, kids)
  <2>1. \A k \in 1..Len(c) : /\ kids[k].path = Append(h.path, Last(kids[k].path))
                             /\ Last(kids[k].path) \in Components
                             /\ WellFormed /\ Terminated => Single(Last(kids[k].path))
    BY <1>8, <1>9
  <2>2. ASSUME WellFormed, NEW j \in 1..Len(c), NEW k \in 1..Len(c), j # k,
               kids[j].inumber # 0, kids[k].inumber # 0
        PROVE  Last(kids[j].path).name # Last(kids[k].path).name
    <3>1. CASE j < k
      BY <1>12, <2>2, <3>1
    <3>2. CASE k < j
      BY <1>12, <2>2, <3>2
    <3> QED
      BY <1>3, <2>2, <3>1, <3>2
  <2>3. ASSUME WellFormed
        PROVE  \A k \in 1..Len(kids) : kids[k].inumber # 0
                 => Linked(h.inumber, Last(kids[k].path).name, kids[k].inumber)
    BY <1>10, <1>11, <2>3
  <2>4. ASSUME WellFormed
        PROVE  \A j, k \in 1..Len(kids) : j # k /\ kids[j].inumber # 0 /\ kids[k].inumber # 0
                 => Last(kids[j].path).name # Last(kids[k].path).name
    BY <1>10, <2>2, <2>4
  <2>5. ASSUME WellFormed
        PROVE  \A n \in Names, j \in 1..LastInode : Linked(h.inumber, n, j) =>
                 \E k \in 1..Len(kids) : Last(kids[k].path).name = n /\ kids[k].inumber = j
    BY <1>10, <1>13, <2>5
  <2>6. h.inumber \in Intact
    BY <1>0
  <2>7. \A k \in 1..Len(kids) :
          /\ kids[k].path = Append(h.path, Last(kids[k].path))
          /\ Last(kids[k].path) \in Components
          /\ WellFormed /\ Terminated => Single(Last(kids[k].path))
    BY <1>10, <2>1
  <2> QED
    BY <2>3, <2>4, <2>5, <2>6, <2>7, Zenon DEF Under
<1> QED
  BY <1>10, <1>14 DEF kids

Refused(h) ==
  \/ Checksum(h.inumber) = NoChecksum
  \/ PathnameLookup(h.path) < 0
  \/ Checksum(PathnameLookup(h.path)) # Checksum(h.inumber)

\* What DumpPathAndChildren() does with its call: it refuses it, or prints it and
\* puts the calls it makes in front of the others.
LEMMA OneCall ==
  ASSUME TypeInv, DumpPath
  PROVE  /\ work # <<>> /\ Head(work) \in Calls /\ Tail(work) \in Seq(Calls)
         /\ phase = "paths" /\ UNCHANGED <<options, inodes, bad, phase, inumber, inodeLines>>
         /\ \/ /\ Refused(Head(work)) /\ complaints' = Append(complaints, Head(work))
               /\ work' = Tail(work) /\ pathLines' = pathLines
            \/ /\ ~Refused(Head(work)) /\ Head(work).inumber \in Intact
               /\ pathLines' = Append(pathLines, Head(work))
               /\ complaints' = complaints
               /\ \E kids \in Seq(Calls) : work' = kids \o Tail(work) /\ Under(Head(work), kids)
<1> DEFINE h == Head(work)
<1>1. /\ work # <<>> /\ h \in Calls /\ Tail(work) \in Seq(Calls)
      /\ phase = "paths" /\ UNCHANGED <<options, inodes, bad, phase, inumber, inodeLines>>
  <2>1. work # <<>> /\ phase = "paths" /\ UNCHANGED <<options, inodes, bad, phase, inumber, inodeLines>>
    BY DEF DumpPath
  <2> QED
    BY <2>1 DEF TypeInv
<1>2. PICK left \in Lefts(GetDirEntries(h.inumber)) :
        IF Refused(h)
        THEN /\ complaints' = Append(complaints, h) /\ work' = Tail(work)
             /\ UNCHANGED pathLines
        ELSE /\ pathLines' = Append(pathLines, h) /\ work' = Called(h, left) \o Tail(work)
             /\ UNCHANGED complaints
  BY Zenon DEF DumpPath, Refused, Recurse, Called
<1>3. ASSUME ~Refused(h)
      PROVE  /\ h.inumber \in Intact
             /\ Called(h, left) \in Seq(Calls) /\ Under(h, Called(h, left))
  <2>1. OnDisk /\ h.inumber \in 0..LastInode
    BY <1>1 DEF TypeInv, Calls
  <2>2. h.inumber \in Intact
    <3>1. Checksum(h.inumber) # NoChecksum
      BY <1>3 DEF Refused
    <3> HIDE DEF h
    <3> QED
      BY <2>1, <3>1, Checksums
  <2> HIDE DEF h
  <2> QED
    BY <1>1, <2>1, <2>2, CallsUnder
<1> HIDE DEF h
<1>4. CASE Refused(h)
  BY <1>1, <1>2, <1>4 DEF h
<1>5. CASE ~Refused(h)
  BY <1>1, <1>2, <1>3, <1>5 DEF h
<1> QED
  BY <1>4, <1>5
-----------------------------------------------------------------------------
\* One step keeps the types.
LEMMA TypeStep == TypeInv /\ [Next]_vars => TypeInv'
<1> SUFFICES ASSUME TypeInv, [Next]_vars PROVE TypeInv'
  OBVIOUS
<1>0. LastInode \in Nat \ {0} /\ inumber \in 1..LastInode
  BY OfImage DEF TypeInv
<1>1. CASE DumpInode
  <2>1. inumber' \in 1..LastInode
    BY <1>0, <1>1 DEF DumpInode
  <2> QED
    BY <1>1, <2>1 DEF DumpInode, TypeInv, OnDisk
<1>2. CASE InodesEnd
  BY <1>2 DEF InodesEnd, TypeInv, OnDisk
<1>3. CASE DumpPath
  <2> DEFINE h == Head(work)
             rest == Tail(work)
  <2>1. /\ h \in Calls /\ rest \in Seq(Calls)
        /\ UNCHANGED <<options, inodes, bad, phase, inumber, inodeLines>>
        /\ \/ complaints' = Append(complaints, h) /\ work' = rest /\ pathLines' = pathLines
           \/ /\ pathLines' = Append(pathLines, h) /\ complaints' = complaints
              /\ \E kids \in Seq(Calls) : work' = kids \o rest
    BY <1>3, OneCall
  <2> HIDE DEF h, rest
  <2>2. work' \in Seq(Calls) /\ pathLines' \in Seq(Calls) /\ complaints' \in Seq(Calls)
    <3>1. \A s \in Seq(Calls) : Append(s, h) \in Seq(Calls) /\ s \o rest \in Seq(Calls)
      BY <2>1
    <3>2. pathLines \in Seq(Calls) /\ complaints \in Seq(Calls)
      BY DEF TypeInv
    <3>3. work' = rest \/ \E kids \in Seq(Calls) : work' = kids \o rest
      BY <2>1
    <3>4. work' \in Seq(Calls)
      BY <2>1, <3>1, <3>3, Zenon
    <3> QED
      BY <2>1, <3>1, <3>2, <3>4, Zenon
  <2> QED
    BY <2>1, <2>2 DEF TypeInv, OnDisk
<1>4. CASE PathsEnd
  BY <1>4 DEF PathsEnd, TypeInv, OnDisk
<1>5. CASE UNCHANGED vars
  BY <1>5 DEF vars, TypeInv, OnDisk
<1> QED
  BY <1>1, <1>2, <1>3, <1>4, <1>5 DEF Next

\* The call for the root is the first.
LEMMA InitialTypes == Init => TypeInv
<1> SUFFICES ASSUME Init PROVE TypeInv
  OBVIOUS
<1>1. OnDisk /\ LastInode \in Nat \ {0} /\ Root \in 1..LastInode
  <2>1. OnDisk
    BY DEF Init, OnDisk
  <2> QED
    BY <2>1, OfImage
<1>2. work \in Seq(Calls)
  <2>1. [path |-> <<>>, inumber |-> Root] \in Calls
    BY <1>1 DEF Calls
  <2> QED
    BY <2>1 DEF Init
<1> QED
  BY <1>1, <1>2 DEF Init, TypeInv

\* The types are kept.
LEMMA Typed == Spec => []TypeInv
BY InitialTypes, TypeStep, PTL DEF Spec

\* Paths consist of names and tails as sprintf() makes them, never of dots, and the
\* loop over the inodes stays in the i-list.
THEOREM TypeCorrect == Spec => []TypeOK
<1>1. TypeInv => TypeOK
  BY DEF TypeInv, TypeOK
<1> QED
  BY <1>1, Typed, PTL
-----------------------------------------------------------------------------
-----------------------------------------------------------------------------
\* What the loop of -i prints of an inode, and where it stops.
Line(k) == [inumber |-> k, sum |-> <<inodes[k].entries, inodes[k].content>>]

LinesInv == inodeLines \in Seq({Line(k) : k \in Intact}) /\ InodeLinesTrue

\* -i prints of each inode what is in it, in order; of those it has passed it leaves
\* out just the ones that cannot be read to the end; and it stops only in front of
\* the last, or at one that is free or whose sector cannot be read.
THEOREM InodeLinesHold == Spec => []InodeLinesTrue
<1>1. Init => LinesInv
  <2> SUFFICES ASSUME Init PROVE LinesInv
    OBVIOUS
  <2>1. inodeLines = <<>> /\ inumber = 1 /\ phase = "inodes"
    BY DEF Init
  <2>2. Len(inodeLines) = 0 /\ \A i \in Intact : ~(i < inumber)
    BY <2>1 DEF Intact
  <2> QED
    BY <2>1, <2>2 DEF LinesInv, InodeLinesTrue
<1>2. TypeInv /\ LinesInv /\ [Next]_vars => LinesInv'
  <2> SUFFICES ASSUME TypeInv, LinesInv, [Next]_vars PROVE LinesInv'
    OBVIOUS
  <2>0. /\ UNCHANGED <<options, inodes, bad>> /\ Intact' = Intact
        /\ inumber \in 1..LastInode /\ LastInode \in Nat \ {0} /\ OnDisk
    <3>1. UNCHANGED <<options, inodes, bad>>
      BY DEF Next, DumpInode, InodesEnd, DumpPath, PathsEnd, vars
    <3> QED
      BY <3>1, OfImage DEF Intact, Readable, TypeInv
  <2> DEFINE S == {Line(k) : k \in Intact}
             n == Len(inodeLines)
  <2>1. S' = S
    BY <2>0 DEF Line
  <2>2. inodeLines \in Seq(S) /\ n \in Nat
    BY DEF LinesInv
  <2>3. CASE DumpInode
    <3> DEFINE ll == inodeLines'
    <3>1. /\ inumber' = inumber + 1 /\ phase' = "inodes" /\ Iget(inumber) # NoInode
          /\ ll = IF Checksum(inumber) = NoChecksum THEN inodeLines
                  ELSE Append(inodeLines, [inumber |-> inumber, sum |-> Checksum(inumber)])
      BY <2>3 DEF DumpInode
    <3>2. /\ Checksum(inumber) # NoChecksum <=> inumber \in Intact
          /\ inumber \in Intact
               => Line(inumber) = [inumber |-> inumber, sum |-> Checksum(inumber)]
      <4>1. inumber \in 0..LastInode
        BY <2>0
      <4> QED
        BY <2>0, <4>1, Checksums DEF Line
    <3>3. CASE inumber \notin Intact
      <4>1. ll = inodeLines
        BY <3>1, <3>2, <3>3
      <4>2. \A i \in Intact : i < inumber + 1 => i < inumber
        BY <2>0, <3>3 DEF Intact
      <4>3. \A k \in 1..n : inodeLines[k].inumber \in Int /\ inodeLines[k].inumber < inumber
        BY <2>0 DEF LinesInv, InodeLinesTrue, Intact
      <4>4. \A k \in 1..n : inodeLines[k].inumber < inumber + 1
        BY <2>0, <4>3
      <4> HIDE DEF ll
      <4>5. InodeLinesTrue'
        BY <2>0, <3>1, <4>1, <4>2, <4>4 DEF LinesInv, InodeLinesTrue, ll
      <4> QED
        BY <2>1, <2>2, <4>1, <4>5 DEF LinesInv, ll
    <3>4. CASE inumber \in Intact
      <4>1. ll = Append(inodeLines, Line(inumber)) /\ Line(inumber) \in S
        BY <3>1, <3>2, <3>4
      <4> HIDE DEF S
      <4>2. /\ ll \in Seq(S) /\ Len(ll) = n + 1 /\ ll[n + 1] = Line(inumber)
            /\ \A k \in 1..n : ll[k] = inodeLines[k]
        BY <2>2, <4>1
      <4> HIDE DEF ll
      <4>3. \A k \in 1..n + 1 : k = n + 1 \/ k \in 1..n
        BY <2>2
      <4>4. ASSUME NEW k \in 1..n
            PROVE  /\ ll[k].inumber \in Intact /\ ll[k].inumber < inumber
                   /\ ll[k].sum = <<inodes[ll[k].inumber].entries, inodes[ll[k].inumber].content>>
                   /\ \A j \in 1..k - 1 : ll[j].inumber < ll[k].inumber
        <5>1. /\ inodeLines[k].inumber \in Intact /\ inodeLines[k].inumber < inumber
              /\ inodeLines[k].sum = <<inodes[inodeLines[k].inumber].entries,
                                       inodes[inodeLines[k].inumber].content>>
              /\ \A j \in 1..k - 1 : inodeLines[j].inumber < inodeLines[k].inumber
          BY DEF LinesInv, InodeLinesTrue
        <5>2. \A j \in 1..k - 1 : j \in 1..n
          BY <2>2
        <5> HIDE DEF n
        <5> QED
          BY <4>2, <5>1, <5>2
      <4>5. ASSUME NEW k \in 1..n + 1
            PROVE  /\ ll[k].inumber \in Intact /\ ll[k].inumber < inumber + 1
                   /\ ll[k].sum = <<inodes[ll[k].inumber].entries, inodes[ll[k].inumber].content>>
                   /\ \A j \in 1..k - 1 : ll[j].inumber < ll[k].inumber
        <5>1. CASE k \in 1..n
          <6>1. ll[k].inumber \in Int
            BY <2>0, <4>4, <5>1 DEF Intact
          <6> QED
            BY <2>0, <4>4, <5>1, <6>1
        <5>2. CASE k = n + 1
          <6>1. /\ ll[k].inumber = inumber
                /\ ll[k].sum = <<inodes[inumber].entries, inodes[inumber].content>>
            BY <4>2, <5>2 DEF Line
          <6>2. \A j \in 1..k - 1 : j \in 1..n
            BY <2>2, <5>2
          <6> QED
            BY <2>0, <3>4, <4>4, <6>1, <6>2
        <5> QED
          BY <4>3, <5>1, <5>2
      <4>6. ASSUME NEW i \in Intact, i < inumber + 1 PROVE \E k \in 1..n + 1 : ll[k].inumber = i
        <5>1. CASE i = inumber
          <6>1. ll[n + 1].inumber = i /\ n + 1 \in 1..n + 1
            BY <2>2, <4>2, <5>1 DEF Line
          <6> QED
            BY <6>1
        <5>2. CASE i < inumber
          <6>1. PICK k \in 1..n : inodeLines[k].inumber = i
            BY <5>2 DEF LinesInv, InodeLinesTrue
          <6>2. k \in 1..n + 1 /\ ll[k].inumber = i
            BY <2>2, <4>2, <6>1
          <6> QED
            BY <6>2
        <5> QED
          BY <2>0, <4>6, <5>1, <5>2 DEF Intact
      <4>7. InodeLinesTrue'
        <5>1. Len(inodeLines') = n + 1
          BY <4>2 DEF ll
        <5> HIDE DEF n
        <5> QED
          BY <2>0, <3>1, <4>5, <4>6, <5>1 DEF InodeLinesTrue, ll
      <4> QED
        BY <2>1, <4>2, <4>7 DEF LinesInv, ll, S
    <3> QED
      BY <3>3, <3>4
  <2>4. CASE InodesEnd
    <3>1. UNCHANGED <<inumber, inodeLines>> /\ ("i" \notin options \/ inumber >= LastInode \/ Iget(inumber) = NoInode)
      BY <2>4 DEF InodesEnd
    <3>2. Iget(inumber) = NoInode => inodes[inumber].mode = "free" \/ ~Readable(inumber)
      BY <2>0, InodeFound, Kinds
    <3>3. inumber >= LastInode => inumber = LastInode
      BY <2>0
    <3>4. Readable(inumber)' = Readable(inumber)
      BY <2>0, <3>1 DEF Readable
    <3> QED
      BY <2>0, <2>1, <3>1, <3>2, <3>3, <3>4 DEF LinesInv, InodeLinesTrue
  <2>5. CASE UNCHANGED <<inumber, inodeLines>> /\ (phase # "inodes" <=> phase' # "inodes")
    <3>1. Readable(inumber)' = Readable(inumber)
      BY <2>0, <2>5 DEF Readable
    <3> QED
      BY <2>0, <2>1, <2>5, <3>1 DEF LinesInv, InodeLinesTrue
  <2> QED
    BY <2>3, <2>4, <2>5 DEF Next, DumpPath, PathsEnd, vars
<1>3. LinesInv => InodeLinesTrue
  BY DEF LinesInv
<1> QED
  BY <1>1, <1>2, <1>3, Typed, PTL DEF Spec
-----------------------------------------------------------------------------
(***************************************************************************)
(* The order of the walk.                                                  *)
(***************************************************************************)
\* c leads to d, or to where d is.
Over(c, d) == Starts(Named(c.path), Named(d.path))

\* The calls still to make that will print something: none is above another, nor
\* above what was printed.
Apart(w) ==
  \A j, k \in 1..Len(w) :
    j # k /\ w[j].inumber # 0 /\ w[k].inumber # 0 => ~Over(w[j], w[k])
NotAgain(l, w) ==
  \A j \in 1..Len(l), k \in 1..Len(w) : w[k].inumber # 0 => ~Over(w[k], l[j])
Different(l) == \A j, k \in 1..Len(l) : j < k => ~Over(l[k], l[j])

\* Between a line and what is below it, printed or to be printed, everything is.
LineLineLine(l) ==
  \A j, m, k \in 1..Len(l) :
    j < m /\ m < k /\ Starts(l[j].path, l[k].path) => Starts(l[j].path, l[m].path)
LineLineCall(l, w) ==
  \A j, m \in 1..Len(l), k \in 1..Len(w) :
    j < m /\ w[k].inumber # 0 /\ Starts(l[j].path, w[k].path)
      => Starts(l[j].path, l[m].path)
LineCallCall(l, w) ==
  \A j \in 1..Len(l), m, k \in 1..Len(w) :
    m < k /\ w[k].inumber # 0 /\ Starts(l[j].path, w[k].path)
      => Starts(l[j].path, w[m].path)

Ordered(l, w) == /\ Apart(w) /\ NotAgain(l, w) /\ Different(l)
                 /\ LineLineLine(l) /\ LineLineCall(l, w) /\ LineCallCall(l, w)
OrderInv == Ordered(pathLines, work)

\* A longer path starts with the shorter, and is started by nothing else but that.
LEMMA Extended ==
  ASSUME NEW S, NEW p \in Seq(S), NEW x \in S
  PROVE  /\ Starts(p, Append(p, x)) /\ ~Starts(Append(p, x), p)
         /\ \A s \in Seq(S) : /\ Starts(Append(p, x), s) => Starts(p, s)
                              /\ Starts(s, Append(p, x)) => Starts(s, p) \/ Starts(p, s)
         /\ \A y \in S : Starts(Append(p, x), Append(p, y)) => x = y
<1> DEFINE q == Append(p, x)
<1>1. Len(p) \in Nat /\ Len(q) = Len(p) + 1 /\ q[Len(p) + 1] = x /\ \A k \in 1..Len(p) : q[k] = p[k]
  OBVIOUS
<1>2. Starts(p, q) /\ ~Starts(q, p)
  <2> HIDE DEF q
  <2> QED
    BY <1>1 DEF Starts
<1>3. ASSUME NEW s \in Seq(S), Starts(q, s) PROVE Starts(p, s)
  <2> HIDE DEF q
  <2>1. Len(s) \in Nat
    OBVIOUS
  <2> QED
    BY <1>1, <1>3, <2>1 DEF Starts
<1>4. ASSUME NEW s \in Seq(S), Starts(s, q) PROVE Starts(s, p) \/ Starts(p, s)
  <2> HIDE DEF q
  <2>1. Len(s) \in Nat
    OBVIOUS
  <2>2. CASE Len(s) <= Len(p)
    BY <1>1, <1>4, <2>1, <2>2 DEF Starts
  <2>3. CASE Len(s) > Len(p)
    BY <1>1, <1>4, <2>1, <2>3 DEF Starts
  <2> QED
    BY <1>1, <2>1, <2>2, <2>3
<1>5. ASSUME NEW y \in S, Starts(q, Append(p, y)) PROVE x = y
  <2>1. Append(p, y)[Len(p) + 1] = y
    OBVIOUS
  <2>2. Len(p) + 1 \in 1..Len(q)
    BY <1>1
  <2> HIDE DEF q
  <2> QED
    BY <1>1, <1>5, <2>1, <2>2 DEF Starts
<1> QED
  BY <1>2, <1>3, <1>4, <1>5

\* A start of a start is a start.
LEMMA StartsOn ==
  ASSUME NEW S, NEW s \in Seq(S), NEW t \in Seq(S), NEW u \in Seq(S), Starts(s, t), Starts(t, u)
  PROVE  Starts(s, u)
<1>1. Len(s) \in Nat /\ Len(t) \in Nat /\ Len(u) \in Nat
  OBVIOUS
<1> QED
  BY <1>1 DEF Starts

\* The names of a path.
LEMMA NamesOf ==
  ASSUME NEW p \in Seq(Components)
  PROVE  /\ Named(p) \in Seq(Names) /\ Len(Named(p)) = Len(p)
         /\ \A k \in 1..Len(p) : Named(p)[k] = p[k].name
         /\ \A x \in Components : Named(Append(p, x)) = Append(Named(p), x.name) /\ x.name \in Names
         /\ \A q \in Seq(Components) : Starts(p, q) => Starts(Named(p), Named(q))
<1> DEFINE f(q) == [k \in 1..Len(q) |-> q[k].name]
<1>0. \A x \in Components : x.name \in Names
  BY DEF Components
<1>1. ASSUME NEW q \in Seq(Components)
      PROVE  Named(q) = f(q) /\ f(q) \in Seq(Names) /\ Len(f(q)) = Len(q)
  <2>1. \A k \in 1..Len(q) : q[k].name \in Names
    BY <1>0
  <2>2. Len(q) \in Nat
    OBVIOUS
  <2> QED
    BY <2>1, <2>2 DEF Named
<1>2. ASSUME NEW x \in Components PROVE Named(Append(p, x)) = Append(Named(p), x.name)
  <2> DEFINE q == Append(p, x)
             r == Append(f(p), x.name)
  <2>1. q \in Seq(Components) /\ Len(q) = Len(p) + 1 /\ q[Len(p) + 1] = x /\ \A k \in 1..Len(p) : q[k] = p[k]
    OBVIOUS
  <2>2. f(p) \in Seq(Names) /\ Len(f(p)) = Len(p) /\ \A k \in 1..Len(p) : f(p)[k] = p[k].name
    BY <1>1
  <2>3. r \in Seq(Names) /\ Len(r) = Len(p) + 1 /\ r[Len(p) + 1] = x.name /\ \A k \in 1..Len(p) : r[k] = f(p)[k]
    <3> HIDE DEF f
    <3> QED
      BY <1>0, <2>2
  <2>4. Len(p) \in Nat
    OBVIOUS
  <2> HIDE DEF r, q
  <2>5. f(q) = [k \in 1..Len(p) + 1 |-> q[k].name]
    BY <2>1
  <2>6. \A k \in 1..Len(p) + 1 : q[k].name = r[k]
    <3> SUFFICES ASSUME NEW k \in 1..Len(p) + 1 PROVE q[k].name = r[k]
      OBVIOUS
    <3>1. CASE k = Len(p) + 1
      BY <2>1, <2>3, <3>1
    <3>2. CASE k \in 1..Len(p)
      <4> HIDE DEF f
      <4> QED
        BY <2>1, <2>2, <2>3, <3>2
    <3> QED
      BY <2>4, <3>1, <3>2
  <2>7. r = [k \in 1..Len(p) + 1 |-> r[k]]
    <3> HIDE DEF f
    <3> QED
      BY <2>3
  <2>8. f(q) = r
    <3> HIDE DEF f
    <3> QED
      BY <2>5, <2>6, <2>7
  <2>9. Named(q) = f(q) /\ Named(p) = f(p)
    BY <1>1, <2>1
  <2> QED
    BY <2>8, <2>9 DEF q, r
<1>3. ASSUME NEW q \in Seq(Components), Starts(p, q) PROVE Starts(Named(p), Named(q))
  <2>1. Len(p) \in Nat /\ Len(q) \in Nat
    OBVIOUS
  <2>2. \A k \in 1..Len(p) : f(p)[k] = p[k].name
    OBVIOUS
  <2>3. \A k \in 1..Len(q) : f(q)[k] = q[k].name
    OBVIOUS
  <2>4. Named(p) = f(p) /\ Named(q) = f(q) /\ Len(f(p)) = Len(p) /\ Len(f(q)) = Len(q)
    BY <1>1
  <2> HIDE DEF f
  <2> QED
    BY <1>3, <2>1, <2>2, <2>3, <2>4 DEF Starts
<1>4. \A k \in 1..Len(p) : f(p)[k] = p[k].name
  OBVIOUS
<1> HIDE DEF f
<1> QED
  BY <1>0, <1>1, <1>2, <1>3, <1>4

\* Where the calls of a call stand to the others.
LEMMA KidsBelow ==
  ASSUME NEW h \in Calls, NEW kids \in Seq(Calls), Under(h, kids), NEW k \in 1..Len(kids)
  PROVE  /\ Starts(h.path, kids[k].path) /\ Over(h, kids[k]) /\ ~Over(kids[k], h)
         /\ \A c \in Calls :
              /\ Over(kids[k], c) => Over(h, c)
              /\ Over(c, kids[k]) => Over(c, h) \/ Over(h, c)
              /\ Starts(c.path, kids[k].path) => Starts(c.path, h.path) \/ Over(h, c)
         /\ WellFormed =>
              \A j \in 1..Len(kids) :
                j # k /\ kids[j].inumber # 0 /\ kids[k].inumber # 0 => ~Over(kids[j], kids[k])
<1> DEFINE p == h.path
           x == Last(kids[k].path)
<1>1. p \in Seq(Components) /\ x \in Components /\ kids[k].path = Append(p, x)
  BY DEF Calls, Under
<1>2. /\ Named(p) \in Seq(Names) /\ x.name \in Names
      /\ Named(kids[k].path) = Append(Named(p), x.name)
  <2> HIDE DEF p, x
  <2> QED
    BY <1>1, NamesOf
<1>3. Starts(p, kids[k].path)
  <2> HIDE DEF p, x
  <2> QED
    BY <1>1, Extended
<1>4. Starts(Named(p), Append(Named(p), x.name)) /\ ~Starts(Append(Named(p), x.name), Named(p))
  <2> HIDE DEF p, x
  <2> QED
    BY <1>2, Extended
<1>5. ASSUME NEW c \in Calls
      PROVE  /\ Over(kids[k], c) => Over(h, c)
             /\ Over(c, kids[k]) => Over(c, h) \/ Over(h, c)
             /\ Starts(c.path, kids[k].path) => Starts(c.path, h.path) \/ Over(h, c)
  <2>1. c.path \in Seq(Components)
    BY DEF Calls
  <2>2. Named(c.path) \in Seq(Names)
    BY <2>1, NamesOf
  <2>3. /\ Starts(Append(Named(p), x.name), Named(c.path)) => Starts(Named(p), Named(c.path))
        /\ Starts(Named(c.path), Append(Named(p), x.name))
             => Starts(Named(c.path), Named(p)) \/ Starts(Named(p), Named(c.path))
    <3> HIDE DEF p, x
    <3> QED
      BY <1>2, <2>2, Extended
  <2>4. Starts(c.path, kids[k].path) => Starts(c.path, p) \/ Starts(p, c.path)
    <3> HIDE DEF p, x
    <3> QED
      BY <1>1, <2>1, Extended
  <2>5. Starts(p, c.path) => Starts(Named(p), Named(c.path))
    <3> HIDE DEF p
    <3> QED
      BY <1>1, <2>1, NamesOf
  <2> HIDE DEF x
  <2> QED
    BY <1>2, <2>3, <2>4, <2>5 DEF Over
<1>6. ASSUME WellFormed, NEW j \in 1..Len(kids), j # k, kids[j].inumber # 0, kids[k].inumber # 0,
             Over(kids[j], kids[k])
      PROVE  FALSE
  <2> DEFINE y == Last(kids[j].path)
  <2>1. y \in Components /\ kids[j].path = Append(p, y)
    BY DEF Under
  <2>2. y.name \in Names /\ Named(kids[j].path) = Append(Named(p), y.name)
    <3> HIDE DEF p, x, y
    <3> QED
      BY <1>1, <2>1, NamesOf
  <2>3. Starts(Append(Named(p), y.name), Append(Named(p), x.name))
    <3> HIDE DEF p, x, y
    <3> QED
      BY <1>2, <1>6, <2>2 DEF Over
  <2>4. y.name = x.name
    <3> HIDE DEF p, x, y
    <3> QED
      BY <1>2, <2>2, <2>3, Extended
  <2> QED
    BY <1>6, <2>4 DEF Under
<1>7. Over(h, kids[k]) /\ ~Over(kids[k], h)
  <2> HIDE DEF x
  <2> QED
    BY <1>2, <1>4 DEF Over
<1> QED
  BY <1>3, <1>5, <1>6, <1>7

\* What starts with a path starts with its names.
LEMMA StartsOver ==
  ASSUME NEW c \in Calls, NEW d \in Calls, Starts(c.path, d.path)
  PROVE  Over(c, d)
<1>1. c.path \in Seq(Components) /\ d.path \in Seq(Components)
  BY DEF Calls
<1> QED
  BY <1>1, NamesOf DEF Over

\* Where the elements of the sequences come from, once the first call is done.
LEMMA AfterCall ==
  ASSUME NEW s \in Seq(Calls), s # <<>>, NEW kids \in Seq(Calls)
  PROVE  /\ Head(s) = s[1] /\ 1 \in 1..Len(s)
         /\ \A k \in 1..Len(Tail(s)) : k + 1 \in 2..Len(s) /\ Tail(s)[k] = s[k + 1]
         /\ \A k \in 1..Len(kids \o Tail(s)) :
              \/ k \in 1..Len(kids) /\ (kids \o Tail(s))[k] = kids[k]
              \/ /\ k > Len(kids) /\ k - Len(kids) + 1 \in 2..Len(s)
                 /\ (kids \o Tail(s))[k] = s[k - Len(kids) + 1]
<1>1. Head(s) = s[1] /\ 1 \in 1..Len(s)
  OBVIOUS
<1> DEFINE t == Tail(s)
<1>2. t \in Seq(Calls) /\ Len(t) = Len(s) - 1 /\ \A k \in 1..Len(t) : t[k] = s[k + 1]
  OBVIOUS
<1>3. Len(s) \in Nat /\ Len(kids) \in Nat
  OBVIOUS
<1>4. \A k \in 1..Len(t) : k + 1 \in 2..Len(s)
  <2> HIDE DEF t
  <2> QED
    BY <1>2, <1>3
<1>5. ASSUME NEW k \in 1..Len(kids \o t)
      PROVE  \/ k \in 1..Len(kids) /\ (kids \o t)[k] = kids[k]
             \/ /\ k > Len(kids) /\ k - Len(kids) + 1 \in 2..Len(s)
                /\ (kids \o t)[k] = s[k - Len(kids) + 1]
  <2> HIDE DEF t
  <2>1. k \in 1..Len(kids) + Len(t)
    BY <1>2
  <2>2. (kids \o t)[k] = IF k <= Len(kids) THEN kids[k] ELSE t[k - Len(kids)]
    BY <1>2, <2>1
  <2>3. k > Len(kids) => k - Len(kids) \in 1..Len(t)
    BY <1>2, <1>3, <2>1
  <2> QED
    BY <1>2, <1>3, <2>1, <2>2, <2>3
<1> QED
  BY <1>1, <1>2, <1>4, <1>5

\* What is printed joins the lines.
LEMMA AfterLine ==
  ASSUME NEW s \in Seq(Calls), NEW h \in Calls
  PROVE  \A j \in 1..Len(Append(s, h)) :
           \/ j \in 1..Len(s) /\ Append(s, h)[j] = s[j]
           \/ j = Len(s) + 1 /\ Append(s, h)[j] = h
OBVIOUS

\* A refused call leaves the others as they are.
LEMMA OrderRefused ==
  ASSUME TypeInv, OrderInv, work # <<>>, work' = Tail(work), pathLines' = pathLines
  PROVE  OrderInv'
<1>1. \A k \in 1..Len(work') : k + 1 \in 2..Len(work) /\ work'[k] = work[k + 1]
  <2>1. work \in Seq(Calls)
    BY DEF TypeInv
  <2> QED
    BY <2>1, AfterCall
<1>2. \A k \in 1..Len(work') : k + 1 \in 1..Len(work) /\ work'[k] = work[k + 1]
  <2>1. \A k \in 2..Len(work) : k \in 1..Len(work)
    OBVIOUS
  <2> QED
    BY <1>1, <2>1
<1> DEFINE w == work'
<1>5. \A k \in 1..Len(w) : k + 1 \in 1..Len(work) /\ w[k] = work[k + 1]
  BY <1>2
<1>6. \A j, k \in 1..Len(w) : j # k /\ w[j].inumber # 0 /\ w[k].inumber # 0 => ~Over(w[j], w[k])
  <2> HIDE DEF w
  <2>1. \A j, k \in 1..Len(w) : j # k => j + 1 # k + 1
    OBVIOUS
  <2> QED
    BY <1>5, <2>1 DEF OrderInv, Ordered, Apart
<1>7. \A j \in 1..Len(pathLines), k \in 1..Len(w) : w[k].inumber # 0 => ~Over(w[k], pathLines[j])
  <2> HIDE DEF w
  <2> QED
    BY <1>5 DEF OrderInv, Ordered, NotAgain
<1>8. \A j, m \in 1..Len(pathLines), k \in 1..Len(w) :
        j < m /\ w[k].inumber # 0 /\ Starts(pathLines[j].path, w[k].path)
          => Starts(pathLines[j].path, pathLines[m].path)
  <2> HIDE DEF w
  <2> QED
    BY <1>5 DEF OrderInv, Ordered, LineLineCall
<1>9. \A j \in 1..Len(pathLines), m, k \in 1..Len(w) :
        m < k /\ w[k].inumber # 0 /\ Starts(pathLines[j].path, w[k].path)
          => Starts(pathLines[j].path, w[m].path)
  <2> HIDE DEF w
  <2>1. \A j, k \in 1..Len(w) : j < k => j + 1 < k + 1
    OBVIOUS
  <2> QED
    BY <1>5, <2>1 DEF OrderInv, Ordered, LineCallCall
<1>10. Ordered(pathLines, w)
  <2> HIDE DEF w
  <2> QED
    BY <1>6, <1>7, <1>8, <1>9
       DEF OrderInv, Ordered, Apart, NotAgain, LineLineCall, LineCallCall
<1> QED
  BY <1>10 DEF OrderInv

\* A call that is printed is followed by what is below it, then by the others.
LEMMA OrderPrinted ==
  ASSUME TypeInv, WellFormed, OrderInv, work # <<>>, NEW kids \in Seq(Calls),
         Under(Head(work), kids), work' = kids \o Tail(work),
         pathLines' = Append(pathLines, Head(work))
  PROVE  OrderInv'
<1> DEFINE h == work[1]
           n == Len(pathLines) + 1
           a == Len(kids)
           w == kids \o Tail(work)
           l == Append(pathLines, h)
           Live0(c) == c.inumber # 0
           Rest(k) == k \in 2..Len(work)
<1>1. work \in Seq(Calls) /\ pathLines \in Seq(Calls)
  BY DEF TypeInv
<1>2. /\ Head(work) = h /\ 1 \in 1..Len(work)
      /\ \A k \in 1..Len(w) : \/ k \in 1..a /\ w[k] = kids[k]
                              \/ /\ k > a /\ Rest(k - a + 1) /\ w[k] = work[k - a + 1]
  <2> HIDE DEF Rest
  <2> QED
    BY <1>1, AfterCall DEF Rest
<1>3. /\ h \in Calls /\ \A k \in 1..Len(work) : work[k] \in Calls
      /\ \A j \in 1..Len(pathLines) : pathLines[j] \in Calls
      /\ \A k \in 1..a : kids[k] \in Calls
      /\ \A k : Rest(k) => k \in 1..Len(work) /\ k # 1 /\ 1 < k
  BY <1>1, <1>2
<1>4. \A j \in 1..Len(l) : \/ j \in 1..Len(pathLines) /\ l[j] = pathLines[j]
                           \/ j = n /\ l[j] = h
  <2> HIDE DEF h
  <2> QED
    BY <1>1, <1>3, AfterLine
<1>5. Under(h, kids) /\ Live0(h)
  <2>1. Under(h, kids)
    BY <1>2
  <2>2. h.inumber \in 1..LastInode
    BY <2>1 DEF Under, Intact
  <2>3. LastInode \in Nat
    BY OfImage DEF TypeInv
  <2> QED
    BY <2>1, <2>2, <2>3
<1> HIDE DEF h, w, l
\* The calls of h.
<1>6. ASSUME NEW k \in 1..a
      PROVE  /\ Starts(h.path, kids[k].path) /\ Over(h, kids[k]) /\ ~Over(kids[k], h)
             /\ \A c \in Calls :
                  /\ Over(kids[k], c) => Over(h, c)
                  /\ Over(c, kids[k]) => Over(c, h) \/ Over(h, c)
                  /\ Starts(c.path, kids[k].path) => Starts(c.path, h.path) \/ Over(h, c)
             /\ \A j \in 1..a : j # k /\ Live0(kids[j]) /\ Live0(kids[k]) => ~Over(kids[j], kids[k])
  BY <1>3, <1>5, KidsBelow
<1>7. \A c, d \in Calls : Starts(c.path, d.path) => Over(c, d)
  BY StartsOver
<1>8. \A c, d, e \in Calls :
        Starts(c.path, d.path) /\ Starts(d.path, e.path) => Starts(c.path, e.path)
  <2> SUFFICES ASSUME NEW c \in Calls, NEW d \in Calls, NEW e \in Calls,
                      Starts(c.path, d.path), Starts(d.path, e.path)
               PROVE  Starts(c.path, e.path)
    OBVIOUS
  <2>1. c.path \in Seq(Components) /\ d.path \in Seq(Components) /\ e.path \in Seq(Components)
    BY DEF Calls
  <2> QED
    BY <2>1, StartsOn
\* The invariant, of h and of the others.
<1>9. \A j, k \in 1..Len(work) :
        j # k /\ Live0(work[j]) /\ Live0(work[k]) => ~Over(work[j], work[k])
  BY DEF OrderInv, Ordered, Apart
<1>10. \A k : Rest(k) /\ Live0(work[k]) => ~Over(h, work[k]) /\ ~Over(work[k], h)
  <2> HIDE DEF Live0, Rest
  <2> QED
    BY <1>2, <1>3, <1>5, <1>9 DEF h
<1>11. \A j \in 1..Len(pathLines), k \in 1..Len(work) :
         Live0(work[k]) => ~Over(work[k], pathLines[j])
  BY DEF OrderInv, Ordered, NotAgain
<1>12. \A j \in 1..Len(pathLines) : ~Over(h, pathLines[j])
  <2> HIDE DEF Live0
  <2> QED
    BY <1>2, <1>5, <1>11 DEF h
<1>13. \A j, m \in 1..Len(pathLines), k \in 1..Len(work) :
         j < m /\ Live0(work[k]) /\ Starts(pathLines[j].path, work[k].path)
           => Starts(pathLines[j].path, pathLines[m].path)
  BY DEF OrderInv, Ordered, LineLineCall
<1>14. \A j, m \in 1..Len(pathLines) :
         j < m /\ Starts(pathLines[j].path, h.path) => Starts(pathLines[j].path, pathLines[m].path)
  <2> HIDE DEF Live0
  <2> QED
    BY <1>2, <1>5, <1>13 DEF h
<1>15. \A j \in 1..Len(pathLines), m, k \in 1..Len(work) :
         m < k /\ Live0(work[k]) /\ Starts(pathLines[j].path, work[k].path)
           => Starts(pathLines[j].path, work[m].path)
  BY DEF OrderInv, Ordered, LineCallCall
<1>16. \A j \in 1..Len(pathLines) : \A k :
         Rest(k) /\ Live0(work[k]) /\ Starts(pathLines[j].path, work[k].path)
           => Starts(pathLines[j].path, h.path)
  <2> HIDE DEF Live0, Rest
  <2> QED
    BY <1>2, <1>3, <1>15 DEF h
\* A line that starts a call of h starts h.
<1>17. \A j \in 1..Len(pathLines), k \in 1..a :
         Starts(pathLines[j].path, kids[k].path) => Starts(pathLines[j].path, h.path)
  BY <1>3, <1>6, <1>12
<1> HIDE DEF Live0, Rest
<1>18. \A j, k \in 1..Len(w) : j # k /\ Live0(w[j]) /\ Live0(w[k]) => ~Over(w[j], w[k])
  <2> SUFFICES ASSUME NEW j \in 1..Len(w), NEW k \in 1..Len(w), j # k, Live0(w[j]), Live0(w[k])
               PROVE  ~Over(w[j], w[k])
    OBVIOUS
  <2>1. CASE j \in 1..a /\ w[j] = kids[j] /\ k \in 1..a /\ w[k] = kids[k]
    BY <1>6, <2>1
  <2>2. CASE j \in 1..a /\ w[j] = kids[j] /\ Rest(k - a + 1) /\ w[k] = work[k - a + 1]
    <3>1. ~Over(h, w[k]) /\ w[k] \in Calls
      BY <1>3, <1>10, <2>2
    <3> QED
      BY <1>6, <2>2, <3>1
  <2>3. CASE Rest(j - a + 1) /\ w[j] = work[j - a + 1] /\ k \in 1..a /\ w[k] = kids[k]
    <3>1. ~Over(h, w[j]) /\ ~Over(w[j], h) /\ w[j] \in Calls
      BY <1>3, <1>10, <2>3
    <3> QED
      BY <1>6, <2>3, <3>1
  <2>4. CASE /\ Rest(j - a + 1) /\ w[j] = work[j - a + 1]
             /\ Rest(k - a + 1) /\ w[k] = work[k - a + 1]
    <3>1. j - a + 1 # k - a + 1
      OBVIOUS
    <3>2. j - a + 1 \in 1..Len(work) /\ k - a + 1 \in 1..Len(work)
      BY <1>3, <2>4
    <3> QED
      BY <1>9, <2>4, <3>1, <3>2
  <2> QED
    BY <1>2, <2>1, <2>2, <2>3, <2>4
<1>19. \A j \in 1..Len(l), k \in 1..Len(w) : Live0(w[k]) => ~Over(w[k], l[j])
  <2> SUFFICES ASSUME NEW j \in 1..Len(l), NEW k \in 1..Len(w), Live0(w[k])
               PROVE  ~Over(w[k], l[j])
    OBVIOUS
  <2>1. CASE k \in 1..a /\ w[k] = kids[k]
    <3>1. CASE j \in 1..Len(pathLines) /\ l[j] = pathLines[j]
      BY <1>3, <1>6, <1>12, <2>1, <3>1
    <3>2. CASE l[j] = h
      BY <1>6, <2>1, <3>2
    <3> QED
      BY <1>4, <3>1, <3>2
  <2>2. CASE Rest(k - a + 1) /\ w[k] = work[k - a + 1]
    <3>1. CASE j \in 1..Len(pathLines) /\ l[j] = pathLines[j]
      <4>1. k - a + 1 \in 1..Len(work)
        BY <1>3, <2>2
      <4> QED
        BY <1>11, <2>2, <3>1, <4>1
    <3>2. CASE l[j] = h
      BY <1>10, <2>2, <3>2
    <3> QED
      BY <1>4, <3>1, <3>2
  <2> QED
    BY <1>2, <2>1, <2>2
<1>20. n = Len(pathLines) + 1 /\ Len(pathLines) \in Nat
  BY <1>1
<1> HIDE DEF n
<1>21. \A j, k \in 1..Len(l) : j < k => ~Over(l[k], l[j])
  <2> SUFFICES ASSUME NEW j \in 1..Len(l), NEW k \in 1..Len(l), j < k PROVE ~Over(l[k], l[j])
    OBVIOUS
  <2>1. CASE k \in 1..Len(pathLines) /\ l[k] = pathLines[k]
    <3>1. j \in 1..Len(pathLines) /\ l[j] = pathLines[j]
      BY <1>4, <1>20, <2>1
    <3> QED
      BY <2>1, <3>1 DEF OrderInv, Ordered, Different
  <2>2. CASE k = n /\ l[k] = h
    <3>1. j \in 1..Len(pathLines) /\ l[j] = pathLines[j]
      BY <1>4, <1>20, <2>2
    <3> QED
      BY <1>12, <2>2, <3>1
  <2> QED
    BY <1>4, <2>1, <2>2
<1>22. \A j, m, k \in 1..Len(l) :
         j < m /\ m < k /\ Starts(l[j].path, l[k].path) => Starts(l[j].path, l[m].path)
  <2> SUFFICES ASSUME NEW j \in 1..Len(l), NEW m \in 1..Len(l), NEW k \in 1..Len(l),
                      j < m, m < k, Starts(l[j].path, l[k].path)
               PROVE  Starts(l[j].path, l[m].path)
    OBVIOUS
  <2>1. /\ j \in 1..Len(pathLines) /\ l[j] = pathLines[j]
        /\ m \in 1..Len(pathLines) /\ l[m] = pathLines[m]
    BY <1>4, <1>20
  <2>2. CASE k \in 1..Len(pathLines) /\ l[k] = pathLines[k]
    BY <2>1, <2>2 DEF OrderInv, Ordered, LineLineLine
  <2>3. CASE k = n /\ l[k] = h
    BY <1>14, <2>1, <2>3
  <2> QED
    BY <1>4, <2>2, <2>3
<1>23. \A j, m \in 1..Len(l), k \in 1..Len(w) :
         j < m /\ Live0(w[k]) /\ Starts(l[j].path, w[k].path) => Starts(l[j].path, l[m].path)
  <2> SUFFICES ASSUME NEW j \in 1..Len(l), NEW m \in 1..Len(l), NEW k \in 1..Len(w),
                      j < m, Live0(w[k]), Starts(l[j].path, w[k].path)
               PROVE  Starts(l[j].path, l[m].path)
    OBVIOUS
  <2>1. j \in 1..Len(pathLines) /\ l[j] = pathLines[j]
    <3>1. j # n
      <4>1. m \in 1..Len(pathLines) \/ m = n
        BY <1>4
      <4> QED
        BY <1>20, <4>1
    <3> QED
      BY <1>4, <3>1
  <2>2. Starts(l[j].path, h.path)
    BY <1>2, <1>16, <1>17, <2>1
  <2>3. CASE m \in 1..Len(pathLines) /\ l[m] = pathLines[m]
    BY <1>14, <2>1, <2>2, <2>3
  <2>4. CASE l[m] = h
    BY <2>2, <2>4
  <2> QED
    BY <1>4, <2>3, <2>4
<1>24. \A j \in 1..Len(l), m, k \in 1..Len(w) :
         m < k /\ Live0(w[k]) /\ Starts(l[j].path, w[k].path) => Starts(l[j].path, w[m].path)
  <2> SUFFICES ASSUME NEW j \in 1..Len(l), NEW m \in 1..Len(w), NEW k \in 1..Len(w),
                      m < k, Live0(w[k]), Starts(l[j].path, w[k].path)
               PROVE  Starts(l[j].path, w[m].path)
    OBVIOUS
  <2>1. CASE m \in 1..a /\ w[m] = kids[m]
    <3>1. CASE l[j] = h
      BY <1>6, <2>1, <3>1
    <3>2. CASE j \in 1..Len(pathLines) /\ l[j] = pathLines[j]
      <4>1. Starts(pathLines[j].path, h.path)
        BY <1>2, <1>16, <1>17, <3>2
      <4> QED
        BY <1>3, <1>6, <1>8, <2>1, <3>2, <4>1
    <3> QED
      BY <1>4, <3>1, <3>2
  <2>2. CASE m > a /\ Rest(m - a + 1) /\ w[m] = work[m - a + 1]
    <3>1. /\ Rest(k - a + 1) /\ w[k] = work[k - a + 1] /\ m - a + 1 < k - a + 1
          /\ m - a + 1 \in 1..Len(work) /\ k - a + 1 \in 1..Len(work)
      <4>1. ~(k \in 1..a)
        BY <2>2
      <4>2. Rest(k - a + 1) /\ w[k] = work[k - a + 1]
        BY <1>2, <4>1
      <4>3. m - a + 1 < k - a + 1
        OBVIOUS
      <4> QED
        BY <1>3, <2>2, <4>2, <4>3
    <3>2. CASE l[j] = h
      BY <1>3, <1>7, <1>10, <3>1, <3>2
    <3>3. CASE j \in 1..Len(pathLines) /\ l[j] = pathLines[j]
      BY <1>15, <2>2, <3>1, <3>3
    <3> QED
      BY <1>4, <3>2, <3>3
  <2> QED
    BY <1>2, <2>1, <2>2
<1>25. Ordered(l, w)
  BY <1>18, <1>19, <1>21, <1>22, <1>23, <1>24
     DEF Ordered, Apart, NotAgain, Different, LineLineLine, LineLineCall, LineCallCall, Live0
<1>26. work' = w /\ pathLines' = l
  BY <1>2 DEF w, l
<1> QED
  BY <1>25, <1>26 DEF OrderInv

\* The order is kept by every step, on a well-formed image.
LEMMA OrderStep == TypeInv /\ (WellFormed => OrderInv) /\ [Next]_vars => (WellFormed => OrderInv)'
<1> SUFFICES ASSUME TypeInv, WellFormed => OrderInv, [Next]_vars, WellFormed' PROVE OrderInv'
  OBVIOUS
<1>1. UNCHANGED inodes
  BY DEF Next, DumpInode, InodesEnd, DumpPath, PathsEnd, vars
<1>2. WellFormed
  BY <1>1 DEF WellFormed, ProperDirectory, Live
<1>3. CASE DumpPath
  <2>1. /\ work # <<>>
        /\ \/ work' = Tail(work) /\ pathLines' = pathLines
           \/ /\ pathLines' = Append(pathLines, Head(work))
              /\ \E kids \in Seq(Calls) : work' = kids \o Tail(work) /\ Under(Head(work), kids)
    BY <1>3, OneCall
  <2>2. CASE work' = Tail(work) /\ pathLines' = pathLines
    BY <1>2, <2>1, <2>2, OrderRefused
  <2>3. CASE /\ pathLines' = Append(pathLines, Head(work))
             /\ \E kids \in Seq(Calls) : work' = kids \o Tail(work) /\ Under(Head(work), kids)
    BY <1>2, <2>1, <2>3, OrderPrinted
  <2> QED
    BY <2>1, <2>2, <2>3
<1>4. CASE UNCHANGED <<work, pathLines>>
  BY <1>2, <1>4 DEF OrderInv
<1> QED
  BY <1>3, <1>4 DEF Next, DumpInode, InodesEnd, PathsEnd, vars

\* At the beginning there is one call and no line.
LEMMA InitialOrder == Init => OrderInv
<1> SUFFICES ASSUME Init PROVE OrderInv
  OBVIOUS
<1>1. Len(work) = 1 /\ Len(pathLines) = 0
  BY DEF Init
<1>2. 1..Len(pathLines) = {} /\ \A j, k \in 1..Len(work) : j = k
  BY <1>1
<1> QED
  BY <1>2 DEF OrderInv, Ordered, Apart, NotAgain, Different, LineLineLine, LineLineCall,
              LineCallCall

\* The walk finishes a directory and all that is below it before it goes on.
THEOREM DepthFirstHolds == Spec => []DepthFirst
<1>1. TypeInv /\ (WellFormed => OrderInv) => DepthFirst
  <2> SUFFICES ASSUME TypeInv, OrderInv,
                      NEW j \in 1..Len(pathLines), NEW m \in 1..Len(pathLines),
                      NEW k \in 1..Len(pathLines), j < m, m < k,
                      IsPrefix(pathLines[j].path, pathLines[k].path)
               PROVE  IsPrefix(pathLines[j].path, pathLines[m].path)
    BY DEF DepthFirst
  <2>1. \A i \in 1..Len(pathLines) : pathLines[i].path \in Seq(Components)
    <3>1. \A i \in 1..Len(pathLines) : pathLines[i] \in Calls
      BY DEF TypeInv
    <3>2. \A c \in Calls : c.path \in Seq(Components)
      BY DEF Calls
    <3> QED
      BY <3>1, <3>2
  <2>2. \A s, t \in Seq(Components) : IsPrefix(s, t) <=> Starts(s, t)
    BY PrefixStarts
  <2>3. Starts(pathLines[j].path, pathLines[k].path)
    BY <2>1, <2>2
  <2>4. Starts(pathLines[j].path, pathLines[m].path)
    BY <2>3 DEF OrderInv, Ordered, LineLineLine
  <2> QED
    BY <2>1, <2>2, <2>4
<1>2. Spec => [](WellFormed => OrderInv)
  BY InitialOrder, OrderStep, Typed, PTL DEF Spec
<1> QED
  BY <1>1, <1>2, Typed, PTL
-----------------------------------------------------------------------------
(***************************************************************************)
(* What the walk prints.                                                   *)
(***************************************************************************)

\* A call for an intact inode is of the inode its path leads to, and is printed.
Found(w) ==
  w.inumber \in Intact => /\ Leads(Intact, Named(w.path), w.inumber)
                          /\ \A k \in 1..Len(w.path) : Single(w.path[k])

\* What is in the tree was printed, or is where a call still to make will lead.
Reached(t, lines, w) ==
  \/ \E j \in 1..Len(lines) : Plain(lines[j]) = t
  \/ \E k \in 1..Len(w) : w[k].inumber \in Intact /\ Starts(Named(w[k].path), t.path)

InTree(w, lines, refused) ==
  /\ \A k \in 1..Len(w) : Found(w[k])
  /\ \A j \in 1..Len(lines) : Found(lines[j]) /\ lines[j].inumber \in Intact
  /\ \A k \in 1..Len(refused) : refused[k].inumber \notin Intact
  /\ \A t \in Tree : Reached(t, lines, w)

TreeInv == InTree(work, pathLines, complaints)

\* Such a call is not refused.
LEMMA FoundPrinted ==
  ASSUME TypeInv, WellFormed, NEW h \in Calls, Found(h), h.inumber \in Intact
  PROVE  ~Refused(h)
<1>0. OnDisk /\ LastInode \in Nat \ {0}
  BY OfImage DEF TypeInv
<1>1. h.path \in Seq(Components) /\ h.inumber \in 1..LastInode
  BY DEF Calls, Intact
<1>2. PathnameLookup(h.path) = h.inumber
  <2>1. \A k \in DOMAIN h.path : Single(h.path[k])
    BY <1>1 DEF Found
  <2>2. Intact \subseteq 1..LastInode /\ Leads(Intact, Named(h.path), h.inumber)
    BY DEF Found, Intact
  <2>3. Leads(1..LastInode, Named(h.path), h.inumber)
    BY <2>2, LeadsThroughMore
  <2> QED
    BY <1>0, <1>1, <2>1, <2>3, LookupLeads
<1>3. Checksum(h.inumber) # NoChecksum
  <2>1. h.inumber \in 0..LastInode
    BY <1>1
  <2> QED
    BY <1>0, <2>1, Checksums
<1> QED
  BY <1>0, <1>1, <1>2, <1>3 DEF Refused

\* What a call of its own leads to is found as well.
LEMMA KidsFound ==
  ASSUME TypeInv, WellFormed, Terminated, NEW h \in Calls, Found(h), NEW kids \in Seq(Calls),
         Under(h, kids), NEW k \in 1..Len(kids)
  PROVE  Found(kids[k])
<1> DEFINE p == h.path
           x == Last(kids[k].path)
           j == kids[k].inumber
<1>0. OnDisk /\ LastInode \in Nat \ {0}
  BY OfImage DEF TypeInv
<1>1. /\ p \in Seq(Components) /\ x \in Components /\ kids[k].path = Append(p, x)
      /\ h.inumber \in Intact /\ Single(x)
  BY DEF Calls, Under
<1> SUFFICES ASSUME j \in Intact
             PROVE  /\ Leads(Intact, Named(kids[k].path), j)
                    /\ \A i \in 1..Len(kids[k].path) : Single(kids[k].path[i])
  BY DEF Found
<1>2. j \in 1..LastInode /\ Linked(h.inumber, x.name, j)
  <2>1. j \in 1..LastInode
    BY DEF Intact
  <2>2. j # 0
    BY <1>0, <2>1
  <2> QED
    BY <2>1, <2>2 DEF Under
<1>3. /\ Named(p) \in Seq(Names) /\ x.name \in Names
      /\ Named(kids[k].path) = Append(Named(p), x.name)
  <2> HIDE DEF p, x
  <2> QED
    BY <1>1, NamesOf
<1>4. Leads(Intact, Named(p), h.inumber) /\ \A i \in 1..Len(p) : Single(p[i])
  BY <1>1 DEF Found
<1> HIDE DEF p, x, j
<1>5. Leads(Intact, Append(Named(p), x.name), j)
  BY <1>0, <1>2, <1>3, <1>4, LeadsOn
<1>6. \A i \in 1..Len(Append(p, x)) : Single(Append(p, x)[i])
  <2>1. \A i \in 1..Len(Append(p, x)) : \/ i \in 1..Len(p) /\ Append(p, x)[i] = p[i]
                                        \/ Append(p, x)[i] = x
    BY <1>1
  <2> QED
    BY <1>1, <1>4, <2>1
<1> QED
  BY <1>1, <1>3, <1>5, <1>6

\* What a call leads to is the call itself or what one of its own calls leads to.
LEMMA KidsReach ==
  ASSUME TypeInv, WellFormed, NEW h \in Calls, Found(h), NEW kids \in Seq(Calls),
         Under(h, kids), NEW l \in Tree, Starts(Named(h.path), l.path)
  PROVE  \/ Plain(h) = l
         \/ \E k \in 1..Len(kids) : kids[k].inumber \in Intact /\ Starts(Named(kids[k].path), l.path)
<1> DEFINE p == Named(h.path)
           s == l.path
           n == Len(p)
<1>0. OnDisk /\ LastInode \in Nat \ {0}
  BY OfImage DEF TypeInv
<1>1. h.path \in Seq(Components) /\ h.inumber \in 1..LastInode /\ Leads(Intact, p, h.inumber)
  BY DEF Calls, Under, Found, Intact
<1>2. p \in Seq(Names)
  BY <1>1, NamesOf
<1>3. /\ s \in Seq(Names) /\ l.inumber \in 1..LastInode /\ Leads(Intact, s, l.inumber)
      /\ l = [path |-> s, inumber |-> l.inumber]
  BY <1>0, HierarchyPaths DEF Tree
<1>4. n \in Nat /\ Len(s) \in Nat /\ n <= Len(s) /\ \A k \in 1..n : p[k] = s[k]
  BY <1>2, <1>3 DEF Starts
<1>7. Intact \subseteq 1..LastInode
  BY DEF Intact
<1> HIDE DEF p
<1>5. CASE Len(s) = n
  <2>1. p = s
    <3>1. p = [k \in 1..n |-> p[k]] /\ s = [k \in 1..n |-> s[k]]
      BY <1>2, <1>3, <1>5
    <3> HIDE DEF s, n
    <3> QED
      BY <1>4, <3>1
  <2>2. h.inumber = l.inumber
    BY <1>0, <1>1, <1>2, <1>3, <1>7, <2>1, LeadsOnce
  <2> QED
    BY <1>3, <2>1, <2>2 DEF Plain, p
<1>6. CASE Len(s) # n
  <2>1. n \in 0..Len(s) - 1 /\ n + 1 \in 1..Len(s)
    BY <1>4, <1>6
  <2> HIDE DEF s, n
  <2>2. PICK g, i \in 1..LastInode :
          Leads(Intact, SubSeq(s, 1, n), g) /\ i \in Intact /\ Linked(g, s[n + 1], i)
    BY <1>3, <2>1, LeadsUp
  <2>3. SubSeq(s, 1, n) = p
    <3> DEFINE u == SubSeq(s, 1, n)
    <3>1. u \in Seq(Names) /\ Len(u) = n /\ \A k \in 1..n : u[k] = s[k]
      BY <1>3, <1>4, <2>1
    <3> HIDE DEF u
    <3>2. u = [k \in 1..n |-> u[k]] /\ p = [k \in 1..n |-> p[k]]
      BY <1>2, <3>1 DEF n
    <3>3. \A k \in 1..n : u[k] = p[k]
      BY <1>4, <3>1
    <3> QED
      BY <3>2, <3>3 DEF u
  <2>4. g = h.inumber
    BY <1>0, <1>1, <1>2, <1>7, <2>2, <2>3, LeadsOnce
  <2>5. s[n + 1] \in Names
    BY <1>3, <2>1
  <2>6. PICK k \in 1..Len(kids) : Last(kids[k].path).name = s[n + 1] /\ kids[k].inumber = i
    BY <2>2, <2>4, <2>5 DEF Under
  <2>7. Named(kids[k].path) = Append(p, s[n + 1])
    <3>1. Last(kids[k].path) \in Components /\ kids[k].path = Append(h.path, Last(kids[k].path))
      BY DEF Under
    <3> QED
      BY <1>1, <2>6, <3>1, NamesOf DEF p
  <2>8. Starts(Append(p, s[n + 1]), s)
    <3> DEFINE u == Append(p, s[n + 1])
    <3>1. Len(u) = n + 1 /\ u[n + 1] = s[n + 1] /\ \A m \in 1..n : u[m] = p[m]
      BY <1>2, <2>5 DEF n
    <3> HIDE DEF u
    <3>2. \A m \in 1..n + 1 : u[m] = s[m]
      <4>1. \A m \in 1..n + 1 : m \in 1..n \/ m = n + 1
        BY <1>4
      <4> QED
        BY <1>4, <3>1, <4>1
    <3>3. Starts(u, s)
      BY <1>4, <2>1, <3>1, <3>2 DEF Starts
    <3> QED
      BY <3>3 DEF u
  <2>9. kids[k].inumber \in Intact
    BY <2>2, <2>6
  <2> QED
    BY <2>7, <2>8, <2>9 DEF s
<1> QED
  BY <1>5, <1>6

\* A refused call is of no intact inode, and nothing of the tree is below it.
LEMMA TreeRefused ==
  ASSUME TypeInv, WellFormed, TreeInv, work # <<>>, Refused(Head(work))
  PROVE  InTree(Tail(work), pathLines, Append(complaints, Head(work)))
<1> DEFINE h == work[1]
           w == Tail(work)
           c == Append(complaints, h)
<1>1. work \in Seq(Calls) /\ complaints \in Seq(Calls)
  BY DEF TypeInv
<1>2. /\ Head(work) = h /\ h \in Calls /\ 1 \in 1..Len(work)
      /\ \A k \in 1..Len(w) : k + 1 \in 1..Len(work) /\ w[k] = work[k + 1]
      /\ \A k \in 1..Len(work) : k = 1 \/ (k - 1 \in 1..Len(w) /\ w[k - 1] = work[k])
  <2>1. Head(work) = h /\ h \in Calls /\ 1 \in 1..Len(work)
    BY <1>1
  <2>2. Len(work) \in Nat /\ Len(w) = Len(work) - 1 /\ \A k \in 1..Len(w) : w[k] = work[k + 1]
    BY <1>1
  <2> HIDE DEF w, h
  <2>3. \A k \in 1..Len(w) : k + 1 \in 1..Len(work)
    BY <2>2
  <2>4. ASSUME NEW k \in 1..Len(work), k # 1
        PROVE  k - 1 \in 1..Len(w) /\ w[k - 1] = work[k]
    <3>1. k - 1 \in 1..Len(w) /\ (k - 1) + 1 = k
      BY <2>2, <2>4
    <3> QED
      BY <2>2, <3>1
  <2> QED
    BY <2>1, <2>2, <2>3, <2>4
<1>3. \A k \in 1..Len(c) : \/ k \in 1..Len(complaints) /\ c[k] = complaints[k]
                           \/ c[k] = h
  BY <1>1, <1>2
<1> HIDE DEF h, w, c
<1>4. h.inumber \notin Intact
  <2>1. Found(h)
    BY <1>2 DEF TreeInv, InTree, h
  <2> QED
    BY <1>2, <2>1, FoundPrinted
<1>5. \A k \in 1..Len(w) : Found(w[k])
  BY <1>2 DEF TreeInv, InTree
<1>6. \A k \in 1..Len(c) : c[k].inumber \notin Intact
  BY <1>3, <1>4 DEF TreeInv, InTree
<1>7. ASSUME NEW t \in Tree PROVE Reached(t, pathLines, w)
  <2>1. Reached(t, pathLines, work)
    BY DEF TreeInv, InTree
  <2>2. \A k \in 1..Len(work) : work[k].inumber \in Intact =>
          k - 1 \in 1..Len(w) /\ w[k - 1] = work[k]
    BY <1>2, <1>4 DEF h
  <2> QED
    BY <2>1, <2>2 DEF Reached
<1>8. InTree(w, pathLines, c)
  BY <1>5, <1>6, <1>7 DEF TreeInv, InTree
<1> QED
  BY <1>2, <1>8 DEF w, c

\* A call that is printed is in the tree, and its own calls go to what is below.
LEMMA TreePrinted ==
  ASSUME TypeInv, WellFormed, Terminated, TreeInv, work # <<>>, NEW kids \in Seq(Calls),
         Under(Head(work), kids), ~Refused(Head(work))
  PROVE  InTree(kids \o Tail(work), Append(pathLines, Head(work)), complaints)
<1> DEFINE h == work[1]
           n == Len(kids)
           w == kids \o Tail(work)
           l == Append(pathLines, h)
<1>1. work \in Seq(Calls) /\ pathLines \in Seq(Calls)
  BY DEF TypeInv
<1>2. Head(work) = h /\ h \in Calls /\ 1 \in 1..Len(work)
  BY <1>1
<1>3. \A k \in 1..Len(w) : \/ k \in 1..n /\ w[k] = kids[k]
                           \/ k - n + 1 \in 2..Len(work) /\ w[k] = work[k - n + 1]
  BY <1>1, AfterCall
<1>4. /\ \A k \in 1..n : k \in 1..Len(w) /\ w[k] = kids[k]
      /\ \A k \in 2..Len(work) : k + n - 1 \in 1..Len(w) /\ w[k + n - 1] = work[k]
  <2> DEFINE r == Tail(work)
  <2>1. r \in Seq(Calls) /\ Len(r) = Len(work) - 1 /\ \A k \in 1..Len(r) : r[k] = work[k + 1]
    BY <1>1
  <2>2. Len(work) \in Nat /\ n \in Nat /\ Len(r) \in Nat
    BY <1>1, <2>1
  <2>3. /\ Len(kids \o r) = n + Len(r)
        /\ \A k \in 1..n + Len(r) : (kids \o r)[k] = IF k <= n THEN kids[k] ELSE r[k - n]
    BY <2>1
  <2>4. ASSUME NEW k \in 2..Len(work)
        PROVE  k + n - 1 \in 1..Len(kids \o r) /\ (kids \o r)[k + n - 1] = work[k]
    <3> HIDE DEF r, n
    <3>1. k - 1 \in 1..Len(r) /\ k + n - 1 \in 1..n + Len(r) /\ ~(k + n - 1 <= n)
          /\ (k + n - 1) - n = k - 1 /\ (k - 1) + 1 = k
      BY <2>1, <2>2
    <3>2. (kids \o r)[k + n - 1] = r[k - 1]
      BY <2>3, <3>1
    <3>3. r[k - 1] = work[k]
      BY <2>1, <3>1
    <3> QED
      BY <2>3, <3>1, <3>2, <3>3
  <2>5. ASSUME NEW k \in 1..n PROVE k \in 1..Len(kids \o r) /\ (kids \o r)[k] = kids[k]
    <3> HIDE DEF r, n
    <3>1. k \in 1..n + Len(r) /\ k <= n
      BY <2>2
    <3> QED
      BY <2>3, <3>1
  <2> QED
    BY <2>4, <2>5
<1>5. /\ \A j \in 1..Len(l) : \/ j \in 1..Len(pathLines) /\ l[j] = pathLines[j]
                              \/ l[j] = h
      /\ \A j \in 1..Len(pathLines) : j \in 1..Len(l) /\ l[j] = pathLines[j]
      /\ Len(l) \in 1..Len(l) /\ l[Len(l)] = h
  BY <1>1, <1>2
<1> HIDE DEF h, w, l, n
<1>6. Found(h) /\ h.inumber \in Intact /\ Under(h, kids)
  <2>1. Under(h, kids)
    BY <1>2
  <2>2. h.inumber \in Intact
    BY <2>1 DEF Under
  <2>3. Found(h)
    BY <1>2 DEF TreeInv, InTree, h
  <2> QED
    BY <2>1, <2>2, <2>3
<1>7. \A k \in 1..Len(w) : Found(w[k])
  <2>1. \A k \in 1..n : Found(kids[k])
    BY <1>2, <1>6, KidsFound DEF n
  <2>2. \A k \in 2..Len(work) : Found(work[k])
    <3>1. \A k \in 2..Len(work) : k \in 1..Len(work)
      OBVIOUS
    <3> QED
      BY <3>1 DEF TreeInv, InTree
  <2> QED
    BY <1>3, <2>1, <2>2
<1>8. \A j \in 1..Len(l) : Found(l[j]) /\ l[j].inumber \in Intact
  BY <1>5, <1>6 DEF TreeInv, InTree
<1>9. ASSUME NEW t \in Tree PROVE Reached(t, l, w)
  <2>1. CASE \E j \in 1..Len(pathLines) : Plain(pathLines[j]) = t
    BY <1>5, <2>1 DEF Reached
  <2>2. CASE \E k \in 2..Len(work) : work[k].inumber \in Intact /\ Starts(Named(work[k].path), t.path)
    BY <1>4, <2>2 DEF Reached
  <2>3. CASE Starts(Named(h.path), t.path)
    <3>1. CASE Plain(h) = t
      BY <1>5, <3>1 DEF Reached
    <3>2. CASE \E k \in 1..n : kids[k].inumber \in Intact /\ Starts(Named(kids[k].path), t.path)
      BY <1>4, <3>2 DEF Reached
    <3>3. \/ Plain(h) = t
          \/ \E k \in 1..n : kids[k].inumber \in Intact /\ Starts(Named(kids[k].path), t.path)
      BY <1>2, <1>6, <2>3, KidsReach DEF n
    <3> QED
      BY <3>1, <3>2, <3>3
  <2>4. Reached(t, pathLines, work)
    BY DEF TreeInv, InTree
  <2>5. \A k \in 1..Len(work) : k = 1 \/ k \in 2..Len(work)
    OBVIOUS
  <2>6. \A k \in 1..Len(work) : k = 1 => work[k] = h
    BY DEF h
  <2> QED
    BY <2>1, <2>2, <2>3, <2>4, <2>5, <2>6 DEF Reached
<1>10. InTree(w, l, complaints)
  BY <1>7, <1>8, <1>9 DEF TreeInv, InTree
<1> QED
  BY <1>2, <1>10 DEF w, l


\* The walk ends when there is nothing to do.
DoneInv == phase = "done" /\ "p" \in options => work = <<>>

WalkInv == DoneInv /\ (WellFormed /\ Terminated => TreeInv)

\* Every step keeps it.
LEMMA WalkStep == TypeInv /\ WalkInv /\ [Next]_vars => WalkInv'
<1> SUFFICES ASSUME TypeInv, WalkInv, [Next]_vars PROVE WalkInv'
  OBVIOUS
<1>1. UNCHANGED <<inodes, bad>>
  BY DEF Next, DumpInode, InodesEnd, DumpPath, PathsEnd, vars
<1>5. Intact' = Intact
  BY <1>1 DEF Intact, Readable
<1>2. WellFormed' = WellFormed /\ Terminated' = Terminated
  BY <1>1 DEF WellFormed, ProperDirectory, Live, Terminated, Lefts, Tail14
<1>3. CASE DumpPath
  <2>1. DoneInv'
    BY <1>3 DEF DumpPath, DoneInv
  <2>2. ASSUME WellFormed, Terminated PROVE TreeInv'
    <3>0. TreeInv
      BY <2>2 DEF WalkInv
    <3>1. /\ work # <<>>
          /\ \/ /\ Refused(Head(work)) /\ complaints' = Append(complaints, Head(work))
                /\ work' = Tail(work) /\ pathLines' = pathLines
             \/ /\ ~Refused(Head(work)) /\ pathLines' = Append(pathLines, Head(work))
                /\ complaints' = complaints
                /\ \E kids \in Seq(Calls) : work' = kids \o Tail(work) /\ Under(Head(work), kids)
      BY <1>3, OneCall
    <3> DEFINE w == work'
               l == pathLines'
               c == complaints'
    <3>2. InTree(w, l, c)
      <4>1. CASE /\ Refused(Head(work)) /\ complaints' = Append(complaints, Head(work))
                 /\ work' = Tail(work) /\ pathLines' = pathLines
        <5>1. InTree(Tail(work), pathLines, Append(complaints, Head(work)))
          BY <2>2, <3>0, <3>1, <4>1, TreeRefused
        <5> QED
          BY <4>1, <5>1
      <4>2. CASE /\ ~Refused(Head(work)) /\ pathLines' = Append(pathLines, Head(work))
                 /\ complaints' = complaints
                 /\ \E kids \in Seq(Calls) : work' = kids \o Tail(work) /\ Under(Head(work), kids)
        <5>1. PICK kids \in Seq(Calls) : work' = kids \o Tail(work) /\ Under(Head(work), kids)
          BY <4>2
        <5>2. InTree(kids \o Tail(work), Append(pathLines, Head(work)), complaints)
          BY <2>2, <3>0, <3>1, <4>2, <5>1, TreePrinted
        <5> QED
          BY <4>2, <5>1, <5>2
      <4> QED
        BY <3>1, <4>1, <4>2
    <3>3. TreeInv'
      <4>1. Tree' = Tree
        BY <1>1 DEF Tree, Hierarchy, Linked, Readable, Intact
      <4>2. \A x : Found(x) => Found(x)'
        BY <1>1 DEF Found, Leads, Linked, Readable, Intact
      <4> QED
        BY <1>5, <3>2, <4>1, <4>2 DEF TreeInv, InTree, Reached, Plain
    <3> QED
      BY <3>3
  <2> QED
    BY <1>2, <2>1, <2>2 DEF WalkInv
<1>4. CASE UNCHANGED <<options, work, pathLines, complaints>> /\ (phase' = "done" => phase = "done" \/ "p" \notin options \/ work = <<>>)
  <2>1. DoneInv'
    BY <1>4 DEF WalkInv, DoneInv
  <2>2. ASSUME TreeInv PROVE TreeInv'
    <3>1. Tree' = Tree
      BY <1>1 DEF Tree, Hierarchy, Linked, Readable, Intact
    <3>2. \A x : Found(x) => Found(x)'
      BY <1>1 DEF Found, Leads, Linked, Readable, Intact
    <3> QED
      BY <1>4, <1>5, <2>2, <3>1, <3>2 DEF TreeInv, InTree, Reached, Plain
  <2> QED
    BY <1>2, <2>1, <2>2 DEF WalkInv
<1> QED
  BY <1>3, <1>4 DEF Next, DumpInode, InodesEnd, PathsEnd, vars

\* At the beginning there is the call for the root, which everything is below.
LEMMA InitialWalk == Init => WalkInv
<1> SUFFICES ASSUME Init PROVE WalkInv
  OBVIOUS
<1>1. OnDisk /\ LastInode \in Nat \ {0} /\ Root \in 1..LastInode
  <2>1. OnDisk
    BY DEF Init, OnDisk
  <2> QED
    BY <2>1, OfImage
<1>2. Len(work) = 1 /\ work[1] = [path |-> <<>>, inumber |-> Root]
      /\ Len(pathLines) = 0 /\ Len(complaints) = 0
  BY DEF Init
<1>3. Named(<<>>) = <<>>
  BY DEF Named
<1>4. Found(work[1])
  <2>1. Root \in Intact => Leads(Intact, <<>>, Root)
    BY <1>1, LeadsRoot
  <2> QED
    BY <1>2, <1>3, <2>1 DEF Found
<1>5. ASSUME WellFormed, NEW t \in Tree PROVE Reached(t, pathLines, work)
  <2>1. t.path \in Seq(Names) /\ Leads(Intact, t.path, t.inumber)
    BY <1>1, <1>5, HierarchyPaths DEF Tree
  <2>2. Len(t.path) \in Nat
    BY <2>1
  <2>3. Starts(<<>>, t.path)
    BY <2>2 DEF Starts
  <2>4. Root \in Intact
    BY <2>1, <2>2 DEF Leads, Chains
  <2>5. work[1].inumber \in Intact /\ work[1].path = <<>>
    BY <1>2, <2>4
  <2> QED
    BY <1>2, <1>3, <2>3, <2>5 DEF Reached
<1>6. WellFormed => TreeInv
  <2>1. 1..Len(pathLines) = {} /\ 1..Len(complaints) = {} /\ \A k \in 1..Len(work) : k = 1
    BY <1>2
  <2> QED
    BY <1>4, <1>5, <2>1 DEF TreeInv, InTree
<1>7. DoneInv
  BY DEF Init, DoneInv
<1> QED
  BY <1>6, <1>7 DEF WalkInv

\* -p prints every path of the tree exactly once, and refuses only what is not
\* intact: removed names, those of free inodes, and what cannot be read; if the
\* image is well formed and no tail of a name makes a component of its own.
THEOREM WalkIsTreeHolds == Spec => []WalkIsTree
<1>1. TypeInv /\ WalkInv /\ (WellFormed => OrderInv) => WalkIsTree
  <2> SUFFICES ASSUME TypeInv, WalkInv, WellFormed => OrderInv,
                      WellFormed, Terminated, phase = "done", "p" \in options
               PROVE  /\ {Plain(c) : c \in Range(pathLines)} = Tree
                      /\ Len(pathLines) = Cardinality(Tree)
                      /\ \A k \in 1..Len(complaints) : complaints[k].inumber \notin Intact
    BY DEF WalkIsTree
  <2> DEFINE n == Len(pathLines)
             f == [k \in 1..n |-> Plain(pathLines[k])]
  <2>1. /\ work = <<>> /\ TreeInv /\ OrderInv /\ OnDisk
        /\ LastInode \in Nat \ {0} /\ n \in Nat /\ pathLines \in Seq(Calls)
    BY OfImage DEF WalkInv, DoneInv, TypeInv
  <2>2. \A k \in 1..n : pathLines[k] \in Calls /\ pathLines[k].path \in Seq(Components)
                        /\ pathLines[k].inumber \in 1..LastInode
    <3>1. \A k \in 1..n : pathLines[k] \in Calls /\ pathLines[k].inumber \in Intact
      BY <2>1 DEF TreeInv, InTree
    <3>2. \A c \in Calls : c.path \in Seq(Components)
      BY DEF Calls
    <3> QED
      BY <3>1, <3>2 DEF Intact
  <2>3. ASSUME NEW k \in 1..n PROVE f[k] = Plain(pathLines[k]) /\ Plain(pathLines[k]) \in Tree
    <3> DEFINE c == pathLines[k]
    <3>1. c.path \in Seq(Components) /\ c.inumber \in 1..LastInode
      BY <2>2
    <3>2. Leads(Intact, Named(c.path), c.inumber)
      <4>1. Found(c) /\ c.inumber \in Intact
        BY <2>1 DEF TreeInv, InTree
      <4> QED
        BY <4>1 DEF Found
    <3>3. Named(c.path) \in Seq(Names)
      BY <3>1, NamesOf
    <3> HIDE DEF c
    <3>4. Plain(c) \in Tree
      BY <2>1, <3>1, <3>2, <3>3, HierarchyLeads DEF Plain, Tree
    <3> QED
      BY <3>4 DEF c
  <2>4. ASSUME NEW t \in Tree PROVE \E k \in 1..n : Plain(pathLines[k]) = t
    <3>1. Reached(t, pathLines, work)
      BY <2>1 DEF TreeInv, InTree
    <3>2. 1..Len(work) = {}
      BY <2>1
    <3> QED
      BY <3>1, <3>2 DEF Reached
  <2>5. ASSUME NEW j \in 1..n, NEW k \in 1..n, j < k, Plain(pathLines[j]) = Plain(pathLines[k])
        PROVE  FALSE
    <3>1. Named(pathLines[j].path) = Named(pathLines[k].path)
      BY <2>5 DEF Plain
    <3>2. Len(Named(pathLines[k].path)) \in Nat
      BY <2>2, NamesOf
    <3>3. Over(pathLines[k], pathLines[j])
      BY <3>1, <3>2 DEF Over, Starts
    <3> QED
      BY <2>1, <2>5, <3>3 DEF OrderInv, Ordered, Different
  <2>6. \A j, k \in 1..n : f[j] = f[k] => j = k
    <3>1. \A j, k \in 1..n : j < k \/ k < j \/ j = k
      OBVIOUS
    <3> HIDE DEF f
    <3> QED
      BY <2>3, <2>5, <3>1
  <2>7. {Plain(c) : c \in Range(pathLines)} = Tree
    <3>1. Range(pathLines) = {pathLines[k] : k \in 1..n}
      BY <2>1 DEF Range
    <3> QED
      BY <2>3, <2>4, <3>1
  <2>8. Cardinality(Tree) = n
    <3>1. f \in [1..n -> Tree]
      BY <2>3
    <3>2. f \in Bijection(1..n, Tree)
      <4> HIDE DEF f
      <4>1. f \in Injection(1..n, Tree)
        BY <2>6, <3>1 DEF Injection, IsInjective
      <4>2. f \in Surjection(1..n, Tree)
        BY <2>3, <2>4, <3>1 DEF Surjection
      <4> QED
        BY <4>1, <4>2 DEF Bijection
    <3>3. ExistsBijection(1..n, Tree)
      BY <3>2 DEF ExistsBijection
    <3> HIDE DEF n, f
    <3> QED
      BY <2>1, <3>3, FS_CountingElements
  <2>9. \A k \in 1..Len(complaints) : complaints[k].inumber \notin Intact
    BY <2>1 DEF TreeInv, InTree
  <2> QED
    BY <2>7, <2>8, <2>9
<1>2. Spec => []WalkInv
  BY InitialWalk, WalkStep, Typed, PTL DEF Spec
<1>3. Spec => [](WellFormed => OrderInv)
  BY InitialOrder, OrderStep, Typed, PTL DEF Spec
<1> QED
  BY <1>1, <1>2, <1>3, Typed, PTL
=============================================================================
