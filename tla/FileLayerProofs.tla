--------------------------- MODULE FileLayerProofs ---------------------------
(***************************************************************************)
(* The arithmetic of inode.c and file.c, for a disk of any geometry, and   *)
(* from it that the checksum of a file is of its bytes and that errors are *)
(* reported.                                                               *)
(***************************************************************************)
EXTENDS FileLayer, Arithmetic, TLAPS

USE GeometryAssumption

\* Two inodes are never in the same place, and inode i is in the i-list when i
\* is at most 16 times s_isize (inode.c:16-18).
THEOREM InodePlace ==
  ASSUME NEW i \in Nat \ {0}
  PROVE  /\ InodePosition(i) \in 0..InodeCount - 1
         /\ \A j \in Nat \ {0} :
              InodeSector(i) = InodeSector(j) /\ InodePosition(i) = InodePosition(j) => i = j
         /\ \A isize \in Nat : i <= InodeCount * isize =>
              InodeSector(i) \in InodeStartSector..InodeStartSector + isize - 1
<1> USE DEF InodeSector, InodePosition, Index, InodeStartSector
<1>1. InodePosition(i) \in 0..InodeCount - 1
  BY DivMod
<1>2. ASSUME NEW j \in Nat \ {0},
             InodeSector(i) = InodeSector(j), InodePosition(i) = InodePosition(j)
      PROVE  i = j
  <2>1. /\ i - 1 = InodeCount * ((i - 1) \div InodeCount) + ((i - 1) % InodeCount)
        /\ j - 1 = InodeCount * ((j - 1) \div InodeCount) + ((j - 1) % InodeCount)
    BY DivMod
  <2>2. (i - 1) \div InodeCount = (j - 1) \div InodeCount
    BY <1>2, DivMod
  <2> QED
    BY <1>2, <2>1, <2>2
<1>3. ASSUME NEW isize \in Nat, i <= InodeCount * isize
      PROVE  InodeSector(i) \in InodeStartSector..InodeStartSector + isize - 1
  <2>1. i - 1 \in Nat /\ i - 1 < InodeCount * isize
    BY <1>3
  <2>2. (i - 1) \div InodeCount \in 0..isize - 1
    BY <2>1, DivBounds
  <2> QED
    BY <2>2
<1> QED
  BY <1>1, <1>2, <1>3

\* Every block that file_getblock() accepts has at least one byte of the file,
\* at most a sector, and the last one ends exactly where the file ends
\* (file.c:13-24).
THEOREM BlocksCoverFile ==
  ASSUME NEW size \in Nat, NEW b \in Nat, b < MaxBlocks(size)
  PROVE  /\ ValidBytes(size, b) \in 1..SectorSize
         /\ b + 1 < MaxBlocks(size) => ValidBytes(size, b) = SectorSize
         /\ b + 1 = MaxBlocks(size) => b * SectorSize + ValidBytes(size, b) = size
<1> DEFINE m == MaxBlocks(size)
           t == size + SectorSize - 1
<1>1. /\ m \in Int /\ t % SectorSize \in 0..SectorSize - 1
      /\ t = SectorSize * m + (t % SectorSize)
  <2>1. t \in Int /\ m = t \div SectorSize
    BY DEF MaxBlocks
  <2> HIDE DEF t, m
  <2> QED
    BY <2>1, DivMod
<1> HIDE DEF m
<1>2. SectorSize * m <= size + SectorSize - 1 /\ SectorSize * m >= size
  <2> DEFINE p == SectorSize * m
  <2>1. p \in Int
    BY <1>1
  <2>2. t = p + (t % SectorSize)
    BY <1>1
  <2> HIDE DEF p
  <2>3. p <= size + SectorSize - 1 /\ p >= size
    BY <1>1, <2>1, <2>2
  <2> QED
    BY <2>3 DEF p
<1>3. b * SectorSize + SectorSize <= SectorSize * m
  <2>1. b + 1 <= m
    BY <1>1 DEF m
  <2>2. SectorSize * (b + 1) <= SectorSize * m
    BY <1>1, <2>1
  <2> QED
    BY <1>1, <2>2
<1>4. b * SectorSize \in Nat /\ SectorSize * m \in Int
  BY <1>1
<1>5. ValidBytes(size, b) \in 1..SectorSize
  BY <1>2, <1>3, <1>4 DEF ValidBytes
<1>6. ASSUME b + 1 < m PROVE ValidBytes(size, b) = SectorSize
  <2>1. SectorSize * (b + 2) <= SectorSize * m
    BY <1>1, <1>6
  <2>2. b * SectorSize + SectorSize + SectorSize <= SectorSize * m
    BY <1>1, <2>1
  <2> QED
    BY <1>2, <1>4, <2>2 DEF ValidBytes
<1>7. ASSUME b + 1 = m PROVE b * SectorSize + ValidBytes(size, b) = size
  <2>1. b * SectorSize + SectorSize = SectorSize * m
    BY <1>1, <1>7
  <2> QED
    BY <1>2, <1>4, <2>1 DEF ValidBytes
<1> QED
  BY <1>5, <1>6, <1>7 DEF m

\* Two blocks of a file are never looked up in the same place (inode.c:35-54).
THEOREM PathInjective ==
  ASSUME NEW large \in BOOLEAN, NEW b \in Nat, NEW d \in Nat,
         AddressPath(large, b) = AddressPath(large, d)
  PROVE  b = d
<1> USE DEF AddressPath
<1>1. CASE ~large
  BY <1>1
<1>2. IndirectAddCount \in Nat
  BY DEF IndirectAddCount
<1>3. ASSUME NEW x \in Int, NEW y \in Int,
             x \div AddCount = y \div AddCount, x % AddCount = y % AddCount
      PROVE  x = y
  <2>1. /\ x = AddCount * (x \div AddCount) + (x % AddCount)
        /\ y = AddCount * (y \div AddCount) + (y % AddCount)
    BY DivMod
  <2> QED
    BY <1>3, <2>1
<1>4. CASE large /\ b < IndirectAddCount /\ d < IndirectAddCount
  BY <1>3, <1>4
<1>5. CASE large /\ ~(b < IndirectAddCount) /\ ~(d < IndirectAddCount)
  <2> DEFINE x == b - IndirectAddCount
             y == d - IndirectAddCount
  <2>1. x \in Int /\ y \in Int
    BY <1>2
  <2>2. x \div AddCount = y \div AddCount /\ x % AddCount = y % AddCount
    BY <1>5
  <2>3. x = y
    BY <1>3, <2>1, <2>2
  <2> QED
    BY <1>2, <2>3
<1>6. CASE large /\ (b < IndirectAddCount <=> ~(d < IndirectAddCount))
  <2>1. Len(AddressPath(large, b)) # Len(AddressPath(large, d))
    BY <1>6
  <2> QED
    BY <2>1
<1> QED
  BY <1>1, <1>4, <1>5, <1>6

\* No index leaves i_addr or a sector of addresses: a size of three bytes never
\* asks for more blocks than the doubly indirect tree has (inode.c:36-54).
THEOREM PathInBounds ==
  ASSUME NEW size \in 0..Size0Range * Size1Range - 1, NEW b \in Nat, b < MaxBlocks(size)
  PROVE  LET path == AddressPath(TRUE, b)
         IN  /\ path[1] \in 0..SingleCount
             /\ \A k \in 2..Len(path) : path[k] \in 0..AddCount - 1
<1> DEFINE leaves == AddCount * SingleCount + AddCount * AddCount
           t == size + SectorSize - 1
<1>1. leaves \in Nat /\ size \in Nat /\ size < leaves * SectorSize
  OBVIOUS
<1>2. /\ MaxBlocks(size) \in Int
      /\ t = SectorSize * MaxBlocks(size) + (t % SectorSize) /\ t % SectorSize >= 0
  BY <1>1, DivMod DEF MaxBlocks
<1> HIDE DEF leaves
<1>3. b < leaves
  <2>1. SUFFICES ASSUME b >= leaves PROVE FALSE
    BY <1>1
  <2>2. MaxBlocks(size) >= leaves + 1
    BY <1>1, <1>2, <2>1
  <2>3. SectorSize * MaxBlocks(size) >= SectorSize * (leaves + 1)
    BY <1>1, <1>2, <2>2
  <2>4. SectorSize * (leaves + 1) = leaves * SectorSize + SectorSize
    BY <1>1
  <2>5. /\ SectorSize * MaxBlocks(size) \in Int /\ SectorSize * (leaves + 1) \in Int
        /\ leaves * SectorSize \in Int
    BY <1>1, <1>2
  <2> DEFINE p == SectorSize * MaxBlocks(size)
             u == leaves * SectorSize
  <2>6. p \in Int /\ u \in Int /\ p >= u + SectorSize /\ size < u
    BY <1>1, <2>3, <2>4, <2>5
  <2>7. size + SectorSize - 1 >= p
    BY <1>2, <2>5
  <2> HIDE DEF p, u
  <2> QED
    BY <1>1, <2>6, <2>7
<1>4. b % AddCount \in 0..AddCount - 1
  BY DivMod
<1>5. CASE b < IndirectAddCount
  <2>1. b \div AddCount \in 0..SingleCount - 1
    BY <1>5, DivBounds DEF IndirectAddCount
  <2> QED
    BY <1>4, <1>5, <2>1 DEF AddressPath
<1>6. CASE ~(b < IndirectAddCount)
  <2> DEFINE r == b - IndirectAddCount
  <2>1. r \in Nat /\ r < AddCount * AddCount
    BY <1>3, <1>6 DEF IndirectAddCount, leaves
  <2>2. r \div AddCount \in 0..AddCount - 1 /\ r % AddCount \in 0..AddCount - 1
    <3> HIDE DEF r
    <3>1. r \div AddCount \in 0..AddCount - 1
      BY <2>1, DivBounds
    <3>2. r % AddCount \in 0..AddCount - 1
      BY <2>1, DivMod
    <3> QED
      BY <3>1, <3>2
  <2> QED
    BY <1>6, <2>2 DEF AddressPath
<1> QED
  BY <1>5, <1>6
-----------------------------------------------------------------------------

\* Counting on by one turns the remainder over when it is the largest.
LEMMA CountOn ==
  ASSUME NEW d \in Nat \ {0}, NEW x \in Int
  PROVE  /\ x % d < d - 1 => (x + 1) \div d = x \div d /\ (x + 1) % d = (x % d) + 1
         /\ ~(x % d < d - 1) => (x + 1) \div d = (x \div d) + 1 /\ (x + 1) % d = 0
<1> DEFINE q == x \div d
           r == x % d
<1>1. q \in Int /\ r \in 0..d - 1 /\ x = d * q + r
  BY DivMod
<1> HIDE DEF q, r
<1>2. CASE r < d - 1
  <2>1. x + 1 = d * q + (r + 1) /\ r + 1 \in 0..d - 1
    BY <1>1, <1>2
  <2> QED
    BY <1>1, <1>2, <2>1, Quotient DEF q, r
<1>3. CASE ~(r < d - 1)
  <2>1. x + 1 = d * (q + 1) + 0 /\ 0 \in 0..d - 1 /\ q + 1 \in Int
    BY <1>1, <1>3
  <2> QED
    BY <1>1, <1>3, <2>1, Quotient DEF q, r
<1> QED
  BY <1>2, <1>3 DEF q, r

\* NextLeaf on paths of each length.
LEMMA NextLeaves ==
  /\ \A i \in Int : NextLeaf(<<i>>) = <<i + 1>>
  /\ \A i, j \in Int :
       NextLeaf(<<i, j>>) = IF j < AddCount - 1 THEN <<i, j + 1>>
                            ELSE IF i < SingleCount - 1 THEN <<i + 1, 0>>
                            ELSE <<SingleCount, 0, 0>>
  /\ \A i, j, k \in Int :
       NextLeaf(<<i, j, k>>) = IF k < AddCount - 1 THEN <<i, j, k + 1>>
                               ELSE <<i, j + 1, 0>>
<1>1. ASSUME NEW i \in Int PROVE NextLeaf(<<i>>) = <<i + 1>>
  <2>1. [<<i>> EXCEPT ![1] = @ + 1] = <<i + 1>>
    OBVIOUS
  <2> QED
    BY <2>1 DEF NextLeaf
<1>2. ASSUME NEW i \in Int, NEW j \in Int
      PROVE  NextLeaf(<<i, j>>) = IF j < AddCount - 1 THEN <<i, j + 1>>
                                  ELSE IF i < SingleCount - 1 THEN <<i + 1, 0>>
                                  ELSE <<SingleCount, 0, 0>>
  <2>1. [<<i, j>> EXCEPT ![2] = @ + 1] = <<i, j + 1>>
    OBVIOUS
  <2> QED
    BY <2>1 DEF NextLeaf
<1>3. ASSUME NEW i \in Int, NEW j \in Int, NEW k \in Int
      PROVE  NextLeaf(<<i, j, k>>) = IF k < AddCount - 1 THEN <<i, j, k + 1>>
                                     ELSE <<i, j + 1, 0>>
  <2>1. [<<i, j, k>> EXCEPT ![3] = @ + 1] = <<i, j, k + 1>>
    OBVIOUS
  <2> QED
    BY <2>1 DEF NextLeaf
<1> QED
  BY <1>1, <1>2, <1>3

\* The blocks of a file are the leaves of its tree from left to right: the first
\* is the leftmost, and adding one to the number of a block is going to the next.
THEOREM LeftToRight ==
  ASSUME NEW b \in Nat, file.large \in BOOLEAN
  PROVE  /\ AddressPath(file.large, 0) = FirstLeaf
         /\ AddressPath(file.large, b + 1) = NextLeaf(AddressPath(file.large, b))
<1> DEFINE A == AddCount
           I == IndirectAddCount
<1>0. I = A * SingleCount /\ I \in Nat \ {0}
  BY DEF IndirectAddCount
<1>z. 0 \div A = 0 /\ 0 % A = 0
  BY Quotient
<1>1. AddressPath(file.large, 0) = FirstLeaf
  BY <1>0, <1>z DEF AddressPath, FirstLeaf
<1>2. CASE ~file.large
  <2>1. AddressPath(file.large, b) = <<b>> /\ AddressPath(file.large, b + 1) = <<b + 1>>
    BY <1>2 DEF AddressPath
  <2>2. NextLeaf(<<b>>) = <<b + 1>>
    <3>1. b \in Int
      OBVIOUS
    <3> QED
      BY <3>1, NextLeaves, Zenon
  <2> QED
    BY <1>1, <2>1, <2>2
<1>3. CASE file.large /\ b + 1 < I
  <2> DEFINE q == b \div A
             r == b % A
  <2>1. q \in Int /\ r \in 0..A - 1 /\ r \in Int
    BY DivMod
  <2>2. /\ AddressPath(file.large, b) = <<q, r>>
        /\ AddressPath(file.large, b + 1) = <<(b + 1) \div A, (b + 1) % A>>
    BY <1>0, <1>3 DEF AddressPath
  <2>3. (b + 1) \div A < SingleCount
    BY <1>0, <1>3, DivBounds
  <2>4. /\ r < A - 1 => (b + 1) \div A = q /\ (b + 1) % A = r + 1
        /\ ~(r < A - 1) => (b + 1) \div A = q + 1 /\ (b + 1) % A = 0
    <3>1. b \in Int
      OBVIOUS
    <3> QED
      BY <3>1, CountOn
  <2>5. NextLeaf(<<q, r>>) = IF r < A - 1 THEN <<q, r + 1>>
                             ELSE IF q < SingleCount - 1 THEN <<q + 1, 0>>
                             ELSE <<SingleCount, 0, 0>>
    BY <2>1, NextLeaves, Zenon
  <2> HIDE DEF q, r, A
  <2>6. CASE r < A - 1
    <3>1. AddressPath(file.large, b + 1) = <<q, r + 1>>
      BY <2>2, <2>4, <2>6
    <3> QED
      BY <1>1, <2>2, <2>5, <2>6, <3>1
  <2>7. CASE ~(r < A - 1)
    <3>1. q < SingleCount - 1
      BY <2>1, <2>3, <2>4, <2>7
    <3>2. AddressPath(file.large, b + 1) = <<q + 1, 0>>
      BY <2>2, <2>4, <2>7
    <3> QED
      BY <1>1, <2>2, <2>5, <2>7, <3>1, <3>2
  <2> QED
    BY <1>1, <2>6, <2>7, Zenon
<1>4. CASE file.large /\ b + 1 = I
  <2>1. b = A * (SingleCount - 1) + (A - 1) /\ SingleCount - 1 \in Int /\ A - 1 \in 0..A - 1
    BY <1>0, <1>4
  <2>2. b \div A = SingleCount - 1 /\ b % A = A - 1
    BY <2>1, Quotient
  <2>3. AddressPath(file.large, b) = <<SingleCount - 1, A - 1>>
    BY <1>0, <1>4, <2>2 DEF AddressPath
  <2>4. AddressPath(file.large, b + 1) = <<SingleCount, 0, 0>>
    BY <1>0, <1>4, <1>z DEF AddressPath
  <2>5. NextLeaf(<<SingleCount - 1, A - 1>>) = <<SingleCount, 0, 0>>
    <3> DEFINE q == SingleCount - 1
               r == A - 1
    <3>1. q \in Int /\ r \in Int /\ ~(r < AddCount - 1) /\ ~(q < SingleCount - 1)
      OBVIOUS
    <3> HIDE DEF q, r
    <3> QED
      BY <3>1, NextLeaves DEF q, r
  <2> QED
    BY <1>1, <2>3, <2>4, <2>5
<1>5. CASE file.large /\ b >= I
  <2> DEFINE x == b - I
             q == x \div A
             r == x % A
  <2>1. x \in Int /\ b + 1 - I = x + 1
    BY <1>0
  <2>2. q \in Int /\ r \in 0..A - 1
    BY <2>1, DivMod
  <2>3. /\ AddressPath(file.large, b) = <<SingleCount, q, r>>
        /\ AddressPath(file.large, b + 1) = <<SingleCount, (x + 1) \div A, (x + 1) % A>>
    BY <1>0, <1>5, <2>1 DEF AddressPath
  <2>4. /\ r < A - 1 => (x + 1) \div A = q /\ (x + 1) % A = r + 1
        /\ ~(r < A - 1) => (x + 1) \div A = q + 1 /\ (x + 1) % A = 0
    BY <2>1, CountOn
  <2>5. NextLeaf(<<SingleCount, q, r>>) = IF r < A - 1 THEN <<SingleCount, q, r + 1>>
                                          ELSE <<SingleCount, q + 1, 0>>
    <3>1. SingleCount \in Int
      OBVIOUS
    <3>2. r \in Int
      BY <2>2
    <3> QED
      BY <2>2, <3>1, <3>2, NextLeaves, Zenon
  <2> HIDE DEF q, r, A, x
  <2> QED
    BY <1>1, <2>3, <2>4, <2>5
<1> QED
  BY <1>0, <1>1, <1>2, <1>3, <1>4, <1>5

\* Leaves is what LeftToRight suggests, block by block.
LEMMA LeavesAre ==
  ASSUME file.large \in BOOLEAN, MaxBlocks(GetSize(file)) \in Int
  PROVE  Leaves = [k \in 1..MaxBlocks(GetSize(file)) |-> AddressPath(file.large, k - 1)]
<1> DEFINE M == MaxBlocks(GetSize(file))
           IsLeaf(f) == f = [k \in 1..M |-> IF k = 1 THEN FirstLeaf ELSE NextLeaf(f[k - 1])]
           g == [k \in 1..M |-> AddressPath(file.large, k - 1)]
<1>1. IsLeaf(g)
  <2> SUFFICES ASSUME NEW k \in 1..M
               PROVE  g[k] = IF k = 1 THEN FirstLeaf ELSE NextLeaf(g[k - 1])
    OBVIOUS
  <2>1. CASE k = 1
    <3>1. 0 \in Nat /\ k - 1 = 0
      BY <2>1
    <3> QED
      BY <2>1, <3>1, LeftToRight
  <2>2. CASE k # 1
    <3>1. k - 2 \in Nat /\ (k - 2) + 1 = k - 1 /\ k - 1 \in 1..M /\ (k - 1) - 1 = k - 2
      BY <2>2
    <3>2. AddressPath(file.large, (k - 2) + 1) = NextLeaf(AddressPath(file.large, k - 2))
      BY <3>1, LeftToRight, Zenon
    <3> QED
      BY <2>2, <3>1, <3>2
  <2> QED
    BY <2>1, <2>2
<1>2. IsLeaf(Leaves)
  <2>1. Leaves = CHOOSE f : IsLeaf(f)
    BY DEF Leaves
  <2> HIDE DEF IsLeaf
  <2> QED
    BY <1>1, <2>1, Zenon
<1> DEFINE D == {k \in 1..M : Leaves[k] # g[k]}
<1>3. D = {}
  <2> SUFFICES ASSUME D # {} PROVE FALSE
    OBVIOUS
  <2>1. PICK m \in D : \A l \in D : m <= l
    <3>1. D \subseteq Nat
      OBVIOUS
    <3> HIDE DEF D
    <3> QED
      BY <3>1, LeastNatural
  <2>2. m \in 1..M /\ Leaves[m] # g[m]
    BY <2>1
  <2>3. /\ Leaves[m] = IF m = 1 THEN FirstLeaf ELSE NextLeaf(Leaves[m - 1])
        /\ g[m] = IF m = 1 THEN FirstLeaf ELSE NextLeaf(g[m - 1])
    <3> HIDE DEF g
    <3> QED
      BY <1>1, <1>2, <2>2
  <2>4. m # 1 /\ Leaves[m - 1] # g[m - 1]
    <3> HIDE DEF g
    <3> QED
      BY <2>2, <2>3
  <2>5. m - 1 \in 1..M /\ ~(m <= m - 1)
    BY <2>2, <2>4
  <2>6. m - 1 \in D
    <3> HIDE DEF g
    <3> QED
      BY <2>4, <2>5
  <2> QED
    BY <2>1, <2>5, <2>6
<1>4. \A k \in 1..M : Leaves[k] = g[k]
  <2> HIDE DEF g
  <2> QED
    BY <1>3
<1>5. Leaves = [k \in 1..M |-> Leaves[k]]
  <2> HIDE DEF M
  <2> QED
    BY <1>2
<1> QED
  BY <1>4, <1>5
-----------------------------------------------------------------------------
\* A file has a size, and a block of it is one that begins inside it.
LEMMA Sizes ==
  ASSUME file \in Files
  PROVE  /\ GetSize(file) \in Nat /\ MaxBlocks(GetSize(file)) \in Nat
         /\ file.large \in BOOLEAN /\ file.alloc \in BOOLEAN
         /\ \A b \in Nat : b * SectorSize < GetSize(file) <=> b < MaxBlocks(GetSize(file))
<1> DEFINE size == GetSize(file)
           M == MaxBlocks(size)
           t == size + SectorSize - 1
<1>1. file.large \in BOOLEAN /\ file.alloc \in BOOLEAN /\ size \in Nat
  <2>1. file.i_size0 \in Nat /\ file.i_size1 \in Nat
    BY DEF Files
  <2> QED
    BY <2>1 DEF Files, GetSize
<1> HIDE DEF size
<1>2. M \in Int /\ t % SectorSize \in 0..SectorSize - 1 /\ t = SectorSize * M + (t % SectorSize)
  <2>1. t \in Int /\ M = t \div SectorSize
    BY <1>1 DEF MaxBlocks
  <2> HIDE DEF t, M
  <2> QED
    BY <2>1, DivMod
<1>3. M >= 0
  <2>1. t \in Nat
    BY <1>1
  <2>2. PICK m \in Nat : t < SectorSize * m
    <3>1. t + 1 \in Nat /\ t < SectorSize * (t + 1)
      BY <2>1
    <3> QED
      BY <3>1
  <2>3. t \div SectorSize \in 0..m - 1
    <3> HIDE DEF t
    <3> QED
      BY <2>1, <2>2, DivBounds
  <2> QED
    BY <2>3 DEF MaxBlocks
<1> HIDE DEF M
<1>4. SectorSize * M <= size + SectorSize - 1 /\ SectorSize * M >= size
  <2> DEFINE p == SectorSize * M
             r == t % SectorSize
  <2>1. p \in Int /\ r \in 0..SectorSize - 1 /\ size + SectorSize - 1 = p + r
    BY <1>2
  <2> HIDE DEF p, r
  <2>2. p <= size + SectorSize - 1 /\ p >= size
    BY <1>1, <2>1
  <2> QED
    BY <2>2 DEF p
<1>5. ASSUME NEW b \in Nat PROVE b * SectorSize < size <=> b < M
  <2>1. ASSUME b < M PROVE b * SectorSize < size
    <3>1. SectorSize * (b + 1) <= SectorSize * M
      BY <1>2, <2>1
    <3>2. SectorSize * (b + 1) = b * SectorSize + SectorSize /\ b * SectorSize \in Int
      OBVIOUS
    <3>3. SectorSize * M \in Int
      BY <1>2
    <3> QED
      BY <1>1, <1>4, <3>1, <3>2, <3>3
  <2>2. ASSUME ~(b < M) PROVE ~(b * SectorSize < size)
    <3>1. SectorSize * M <= SectorSize * b /\ SectorSize * b = b * SectorSize
      BY <1>2, <2>2
    <3>2. SectorSize * M \in Int /\ b * SectorSize \in Int
      BY <1>2
    <3> QED
      BY <1>1, <1>4, <3>1, <3>2
  <2> QED
    BY <2>1, <2>2
<1> QED
  BY <1>1, <1>2, <1>3, <1>5 DEF size, M

\* Byte j of block b, counted from one, is byte b * SectorSize + j of the file.
LEMMA ByteOfBlock ==
  ASSUME NEW b \in Nat, NEW j \in 1..SectorSize
  PROVE  /\ (b * SectorSize + j - 1) \div SectorSize = b
         /\ (b * SectorSize + j - 1) % SectorSize = j - 1
<1>1. b * SectorSize + j - 1 = SectorSize * b + (j - 1) /\ j - 1 \in 0..SectorSize - 1 /\ b \in Int
  OBVIOUS
<1>2. (SectorSize * b + (j - 1)) \div SectorSize = b /\ (SectorSize * b + (j - 1)) % SectorSize = j - 1
  BY <1>1, Quotient, Zenon
<1> QED
  BY <1>1, <1>2

\* The sectors that are read to get at block b.
Reads(b) == IndexSectors(AddressPath(file.large, b))
              \cup {AddressPath(file.large, b), IListSector}

\* What is needed from the n-th block on is what is read for those inside the file.
LEMMA NeededAre ==
  ASSUME file \in Files, NEW s, NEW n \in Nat
  PROVE  (\E k \in DOMAIN Leaves : n < k /\ s \in NeededFor(k))
           <=> \E b \in Nat : b * SectorSize < GetSize(file) /\ n <= b /\ s \in Reads(b)
<1> DEFINE M == MaxBlocks(GetSize(file))
<1>1. M \in Nat /\ \A b \in Nat : b * SectorSize < GetSize(file) <=> b < M
  BY Sizes
<1>2. DOMAIN Leaves = 1..M /\ \A k \in 1..M : Leaves[k] = AddressPath(file.large, k - 1)
  BY LeavesAre, Sizes
<1> HIDE DEF M
<1>3. \A k \in DOMAIN Leaves : NeededFor(k) = Reads(k - 1)
  BY <1>2, Zenon DEF NeededFor, Reads
<1>4. ASSUME NEW k \in DOMAIN Leaves, n < k, s \in NeededFor(k)
      PROVE  \E b \in Nat : b < M /\ n <= b /\ s \in Reads(b)
  <2>1. k - 1 \in Nat /\ k - 1 < M /\ n <= k - 1
    BY <1>1, <1>2, <1>4
  <2>2. s \in Reads(k - 1)
    BY <1>3, <1>4
  <2> QED
    BY <2>1, <2>2, Zenon
<1>5. ASSUME NEW b \in Nat, b < M, n <= b, s \in Reads(b)
      PROVE  \E k \in DOMAIN Leaves : n < k /\ s \in NeededFor(k)
  <2>1. b + 1 \in DOMAIN Leaves /\ (b + 1) - 1 = b /\ n < b + 1
    BY <1>1, <1>2, <1>5
  <2>2. s \in NeededFor(b + 1)
    BY <1>3, <1>5, <2>1
  <2> QED
    BY <2>1, <2>2, Zenon
<1> QED
  BY <1>1, <1>4, <1>5, Zenon
-----------------------------------------------------------------------------
\* The loop is at the start of a block, and has fed what is in front of it.
LoopInv ==
  /\ file \in Files /\ fault \in FaultSet
  /\ result \in {"unmounted", "mounted", "running", "error", "ok"}
  /\ \E b \in Nat : offset = b * SectorSize
  /\ offset < GetSize(file) + SectorSize
  /\ \E A : fed \in Seq(A)
  /\ Len(fed) = IF offset < GetSize(file) THEN offset ELSE GetSize(file)

\* Each byte fed is the one with its number.
BytesInv ==
  fault.kind # "short" =>
    \A k \in 1..Len(fed) :
      fed[k] = <<AddressPath(file.large, (k - 1) \div SectorSize), ((k - 1) % SectorSize) + 1>>

\* How the program got this far: past a sector that cannot be read it did not.
BadInode == fault.kind = "error" /\ fault.at = IListSector /\ fault.from = 0
ResultInv ==
  /\ result \in {"mounted", "running", "ok"} => FileSystem
  /\ fault.kind = "error" =>
       \A b \in Nat : b * SectorSize < offset /\ fault.from <= b => fault.at \notin Reads(b)
  /\ result \in {"running", "ok"} => file.alloc /\ ~BadInode
  /\ result = "ok" => offset >= GetSize(file)
  /\ result \in {"unmounted", "mounted"} => offset = 0

IInv == LoopInv /\ BytesInv /\ ResultInv /\ ErrorsAreReported

\* What a fault is, and what comes of it when a sector is read.
LEMMA FaultKinds ==
  ASSUME fault \in FaultSet
  PROVE  /\ fault.kind \in {"none", "magic", "error", "short"} /\ fault.from \in Nat
         /\ fault.kind = "none" => FileSystem
         /\ fault.kind = "magic" => fault.at = BootblockSector /\ fault.from = 0
         /\ fault.kind = "short" => fault.at # IListSector
<1> DEFINE At == LargeSectors \cup {BootblockSector, SuperblockSector}
<1>0. \/ fault = NoFault
      \/ fault = BadMagic
      \/ fault \in [kind : Faults, from : Onsets, at : At]
      \/ fault \in [kind : Faults \ {"short"}, from : Onsets, at : {IListSector}]
  BY DEF FaultSet
<1>1. \A s \in At : s # IListSector
  <2>1. \A i \in Slots : <<i>> # <<-3>>
    BY DEF Slots
  <2>2. \A x, y, z : <<x, y>> # <<-3>> /\ <<x, y, z>> # <<-3>>
    OBVIOUS
  <2>3. <<-2>> # <<-3>> /\ <<-1>> # <<-3>>
    OBVIOUS
  <2>4. \A s \in LargeSectors : s # <<-3>>
    <3>1. ASSUME NEW s \in LargeSectors
          PROVE  \/ \E i \in Slots : s = <<i>>
                 \/ \E x, y : s = <<x, y>>
                 \/ \E x, y, z : s = <<x, y, z>>
      BY DEF LargeSectors, SmallSectors
    <3> QED
      BY <2>1, <2>2, <3>1, Zenon
  <2> QED
    BY <2>3, <2>4 DEF BootblockSector, SuperblockSector, IListSector
<1> HIDE DEF At
<1>2. \/ fault.kind = "none" /\ fault.at = <<>> /\ fault.from = 0
      \/ fault.kind = "magic" /\ fault.at = BootblockSector /\ fault.from = 0
      \/ fault.kind \in Faults /\ fault.from \in Onsets /\ fault.at \in At
      \/ fault.kind \in Faults \ {"short"} /\ fault.from \in Onsets /\ fault.at = IListSector
  BY <1>0 DEF NoFault, BadMagic
<1>3. fault.kind \in {"none", "magic", "error", "short"} /\ fault.from \in Nat
  <2>1. fault.kind \in {"none", "magic", "error", "short"}
    BY <1>2, FileLayerAssumption, Zenon
  <2>2. fault.from = 0 \/ fault.from \in Onsets
    BY <1>2
  <2>3. Onsets \subseteq Nat /\ 0 \in Nat
    BY FileLayerAssumption, Zenon
  <2> QED
    BY <2>1, <2>2, <2>3, Zenon
<1>4. fault.kind = "none" => FileSystem
  <2>1. <<>> # <<-2>> /\ <<>> # <<-1>>
    OBVIOUS
  <2> QED
    BY <1>2, <2>1, FileLayerAssumption DEF FileSystem, BootblockSector, SuperblockSector
<1>5. fault.kind = "magic" => fault.at = BootblockSector /\ fault.from = 0
  BY <1>2, FileLayerAssumption
<1>6. fault.kind = "short" => fault.at # IListSector
  BY <1>1, <1>2, FileLayerAssumption
<1> QED
  BY <1>3, <1>4, <1>5, <1>6

\* Before anything is read everything holds.
LEMMA InitInv == Init => IInv
<1> SUFFICES ASSUME Init PROVE IInv
  OBVIOUS
<1>1. file \in Files /\ fault \in FaultSet /\ offset = 0 /\ fed = <<>> /\ result = "unmounted"
  BY DEF Init
<1>2. GetSize(file) \in Nat
  BY <1>1, Sizes
<1>3. fed \in Seq({}) /\ Len(fed) = 0
  BY <1>1
<1>4. 0 \in Nat /\ offset = 0 * SectorSize
  BY <1>1
<1>5. LoopInv
  BY <1>1, <1>2, <1>3, <1>4 DEF LoopInv
<1>6. BytesInv
  BY <1>3 DEF BytesInv
<1>7. \A b \in Nat : ~(b * SectorSize < 0)
  <2>1. \A b \in Nat : b * SectorSize \in Nat
    OBVIOUS
  <2> QED
    BY <2>1
<1>8. ResultInv /\ ErrorsAreReported
  BY <1>1, <1>7 DEF ResultInv, ErrorsAreReported
<1> QED
  BY <1>5, <1>6, <1>8 DEF IInv

\* What only depends on the image stays as it is.
LEMMA ImageStays ==
  ASSUME UNCHANGED <<file, fault>>
  PROVE  /\ Unreadable' = Unreadable /\ FileSystem' = FileSystem /\ BadInode' = BadInode
         /\ GetSize(file)' = GetSize(file) /\ \A b : Reads(b)' = Reads(b)
<1>1. /\ FileSystem' = FileSystem /\ GetSize(file)' = GetSize(file) /\ BadInode' = BadInode
      /\ \A b : Reads(b)' = Reads(b)
  BY DEF FileSystem, GetSize, Reads, BadInode
<1>2. Leaves' = Leaves
  BY DEF Leaves, FirstLeaf, GetSize
<1>3. \A k : NeededFor(k)' = NeededFor(k)
  BY <1>2 DEF NeededFor
<1>4. Unreadable' = Unreadable
  BY <1>2, <1>3 DEF Unreadable
<1> QED
  BY <1>1, <1>4

\* Before the first block only a fault that was there from the start is met.
LEMMA AtTheStart ==
  ASSUME fault \in FaultSet, offset = 0, NEW s
  PROVE  /\ ReadSector(s) = -1 <=> fault.kind = "error" /\ fault.at = s /\ fault.from = 0
         /\ ReadSector(s) # SectorSize =>
              fault.kind \in {"error", "short"} /\ fault.at = s /\ fault.from = 0
         /\ fault.kind \in {"error", "short"} /\ fault.at = s /\ fault.from = 0 =>
              ReadSector(s) # SectorSize
<1>1. fault.from \in Nat
  BY FaultKinds
<1>2. fault.from * SectorSize <= 0 <=> fault.from = 0
  <2>1. CASE fault.from = 0
    BY <2>1
  <2>2. CASE fault.from >= 1
    <3>1. fault.from * SectorSize >= 1 * SectorSize
      BY <1>1, <2>2
    <3> QED
      BY <1>1, <2>2, <3>1
  <2> QED
    BY <1>1, <2>1, <2>2
<1> DEFINE early == fault.from * SectorSize <= offset
<1>3. early <=> fault.from = 0
  BY <1>2
<1>4. \A kind : Faulty(kind, s) <=> fault.kind = kind /\ fault.at = s /\ early
  BY DEF Faulty
<1> HIDE DEF early
<1>5. SectorSize # -1 /\ SectorSize # 0
  OBVIOUS
<1> QED
  BY <1>3, <1>4, <1>5 DEF ReadSector

\* An image is mounted when its two blocks can be read, and refused otherwise.
LEMMA MountInv == IInv /\ UnixfilesystemInit => IInv'
<1> SUFFICES ASSUME IInv, UnixfilesystemInit PROVE IInv'
  OBVIOUS
<1> DEFINE Mounted == /\ ReadSector(BootblockSector) = SectorSize /\ fault.kind # "magic"
                      /\ ReadSector(SuperblockSector) = SectorSize
<1>1. /\ result = "unmounted" /\ result' = IF Mounted THEN "mounted" ELSE "error"
      /\ UNCHANGED <<file, fault, offset, fed>>
  BY DEF UnixfilesystemInit
<1>2. fault \in FaultSet /\ offset = 0
  BY <1>1 DEF IInv, LoopInv, ResultInv
<1>3. Mounted <=> FileSystem
  <2>1. fault.kind \in {"none", "magic", "error", "short"} /\ (fault.kind = "none" => FileSystem)
        /\ (fault.kind = "magic" => ~FileSystem)
    BY <1>2, FaultKinds DEF FileSystem
  <2> QED
    BY <1>2, <2>1, AtTheStart DEF FileSystem
<1> HIDE DEF Mounted
<1>4. LoopInv'
  BY <1>1 DEF IInv, LoopInv
<1>5. BytesInv'
  BY <1>1 DEF IInv, BytesInv
<1>6. /\ FileSystem' = FileSystem /\ Unreadable' = Unreadable /\ BadInode' = BadInode
      /\ GetSize(file)' = GetSize(file) /\ \A b : Reads(b)' = Reads(b)
  BY <1>1, ImageStays
<1>7. ResultInv'
  BY <1>1, <1>3, <1>6 DEF IInv, ResultInv
<1>8. ErrorsAreReported'
  BY <1>1, <1>3, <1>6 DEF ErrorsAreReported
<1> QED
  BY <1>4, <1>5, <1>7, <1>8 DEF IInv

\* An inode that is free or cannot be read is refused before the first block.
LEMMA StartInv == IInv /\ ChksumfileByinumber => IInv'
<1> SUFFICES ASSUME IInv, ChksumfileByinumber PROVE IInv'
  OBVIOUS
<1>1. /\ result = "mounted" /\ result' = IF IgetFails THEN "error" ELSE "running"
      /\ UNCHANGED <<file, fault, offset, fed>>
  BY DEF ChksumfileByinumber
<1>2. LoopInv' /\ BytesInv'
  BY <1>1 DEF IInv, LoopInv, BytesInv
<1>3. fault \in FaultSet /\ offset = 0 /\ FileSystem
  BY <1>1 DEF IInv, LoopInv, ResultInv
<1>4. IgetFails <=> BadInode \/ ~file.alloc
  BY <1>3, AtTheStart DEF IgetFails, BadInode
<1>5. BadInode => Unreadable
  BY DEF BadInode, Unreadable
<1>6. /\ FileSystem' = FileSystem /\ Unreadable' = Unreadable /\ BadInode' = BadInode
      /\ GetSize(file)' = GetSize(file) /\ \A b : Reads(b)' = Reads(b)
  BY <1>1, ImageStays
<1>7. ResultInv'
  BY <1>1, <1>3, <1>4, <1>6 DEF IInv, ResultInv
<1>8. ErrorsAreReported'
  BY <1>1, <1>4, <1>5, <1>6 DEF ErrorsAreReported
<1> QED
  BY <1>2, <1>7, <1>8 DEF IInv

\* The checksum is finished when every block of the file was read.
LEMMA FinalInv == IInv /\ Final => IInv'
<1> SUFFICES ASSUME IInv, Final PROVE IInv'
  OBVIOUS
<1>1. /\ result = "running" /\ offset >= GetSize(file) /\ result' = "ok"
      /\ UNCHANGED <<file, fault, offset, fed>>
  BY DEF Final
<1>2. LoopInv' /\ BytesInv'
  BY <1>1 DEF IInv, LoopInv, BytesInv
<1>3. FileSystem /\ file.alloc /\ ~BadInode
  BY <1>1 DEF IInv, ResultInv
<1>4. /\ FileSystem' = FileSystem /\ Unreadable' = Unreadable /\ BadInode' = BadInode
      /\ GetSize(file)' = GetSize(file) /\ \A b : Reads(b)' = Reads(b)
  BY <1>1, ImageStays
<1>5. ResultInv'
  BY <1>1, <1>3, <1>4 DEF IInv, ResultInv
<1>6. ~Unreadable
  <2> SUFFICES ASSUME Unreadable PROVE FALSE
    OBVIOUS
  <2>1. /\ file \in Files /\ fault \in FaultSet /\ \E b \in Nat : offset = b * SectorSize
        /\ fault.kind = "error"
        /\ \A b \in Nat : b * SectorSize < offset /\ fault.from <= b => fault.at \notin Reads(b)
    BY DEF IInv, LoopInv, ResultInv, Unreadable
  <2>2. \E k \in DOMAIN Leaves : fault.from < k /\ fault.at \in NeededFor(k)
    BY <1>3 DEF Unreadable, BadInode
  <2>3. PICK b \in Nat : b * SectorSize < GetSize(file) /\ fault.from <= b /\ fault.at \in Reads(b)
    BY <2>1, <2>2, FaultKinds, NeededAre
  <2>4. b * SectorSize < offset
    <3>1. b * SectorSize \in Int /\ GetSize(file) \in Nat /\ offset \in Int
      BY <2>1, Sizes
    <3> QED
      BY <1>1, <2>3, <3>1
  <2> QED
    BY <2>1, <2>3, <2>4
<1>7. ErrorsAreReported'
  BY <1>1, <1>3, <1>4, <1>6 DEF ErrorsAreReported
<1> QED
  BY <1>2, <1>5, <1>7 DEF IInv

\* Block b is read as a whole or the error is seen.
LEMMA BlockInv == IInv /\ GetBlock => IInv'
<1> SUFFICES ASSUME IInv, GetBlock PROVE IInv'
  OBVIOUS
<1> DEFINE size  == GetSize(file)
           b     == offset \div SectorSize
           path  == AddressPath(file.large, b)
           block == Lookup(path)
           v     == ValidBytes(size, b)
           Fails == \/ IgetFails \/ b >= MaxBlocks(size) \/ LookupFails(path)
                    \/ block # Junk /\ IsError(ReadSector(block))
<1>1. /\ result = "running" /\ offset < size /\ UNCHANGED <<file, fault>>
      /\ IF Fails THEN result' = "error" /\ UNCHANGED <<offset, fed>>
         ELSE /\ fed' = fed \o SubSeq(Bytes(block), 1, v)
              /\ offset' = offset + SectorSize
              /\ UNCHANGED result
  BY DEF GetBlock
<1>2. /\ file \in Files /\ fault \in FaultSet /\ size \in Nat
      /\ MaxBlocks(size) \in Nat /\ file.large \in BOOLEAN
      /\ \A c \in Nat : c * SectorSize < size <=> c < MaxBlocks(size)
  BY Sizes DEF IInv, LoopInv
<1>3. b \in Nat /\ offset = b * SectorSize /\ b < MaxBlocks(size)
  <2>1. PICK c \in Nat : offset = c * SectorSize
    BY DEF IInv, LoopInv
  <2>2. c * SectorSize = c * SectorSize + 1 - 1 /\ 1 \in 1..SectorSize
    OBVIOUS
  <2>3. (c * SectorSize + 1 - 1) \div SectorSize = c
    BY <2>2, ByteOfBlock
  <2>4. b = c
    BY <2>1, <2>2, <2>3
  <2> HIDE DEF size, b
  <2> QED
    BY <1>1, <1>2, <2>1, <2>4
<1>4. /\ GetSize(file)' = size /\ FileSystem' = FileSystem /\ Unreadable' = Unreadable
      /\ BadInode' = BadInode /\ \A c : Reads(c)' = Reads(c)
  BY <1>1, ImageStays
<1>5. FileSystem /\ file.alloc /\ ~BadInode
  BY <1>1 DEF IInv, ResultInv
<1>6. path \in Seq(Int) /\ path # Junk
  <2>1. path \in Seq(Int)
    <3>1. b \in Int
      BY <1>3
    <3> HIDE DEF b
    <3>2. IndirectAddCount \in Int
      BY DEF IndirectAddCount
    <3>3. \A x \in Int : x \div AddCount \in Int /\ x % AddCount \in Int
      BY DivMod
    <3>4. SingleCount \in Int /\ b - IndirectAddCount \in Int
      BY <3>1, <3>2
    <3>5. \A x, y, z \in Int : <<x>> \in Seq(Int) /\ <<x, y>> \in Seq(Int) /\ <<x, y, z>> \in Seq(Int)
      OBVIOUS
    <3> QED
      BY <3>1, <3>3, <3>4, <3>5, Zenon DEF AddressPath
  <2> QED
    BY <2>1, FileLayerAssumption
<1>7. v \in 1..SectorSize /\ (b + 1 < MaxBlocks(size) => v = SectorSize)
      /\ (b + 1 = MaxBlocks(size) => b * SectorSize + v = size)
  <2> HIDE DEF b, size
  <2> QED
    BY <1>2, <1>3, BlocksCoverFile
<1>8. /\ fault.kind # "short" => block = path
      /\ fault.kind # "short" => \A x : ReadSector(x) # 0
      /\ fault.kind = "error" /\ fault.from <= b /\ fault.at \in Reads(b) =>
           IgetFails \/ LookupFails(path) \/ IsError(ReadSector(path))
      /\ IgetFails \/ LookupFails(path) \/ (block # Junk /\ IsError(ReadSector(block))) =>
           fault.kind = "error" /\ fault.from <= b /\ fault.at \in Reads(b)
  <2> DEFINE late == fault.from * SectorSize <= offset
  <2>1. late <=> fault.from <= b
    <3>1. fault.from \in Nat
      BY <1>2, FaultKinds
    <3> HIDE DEF b
    <3>2. fault.from * SectorSize <= b * SectorSize <=> fault.from <= b
      <4>1. CASE fault.from <= b
        <5>1. fault.from * SectorSize <= b * SectorSize
          BY <1>3, <3>1, <4>1
        <5> QED
          BY <4>1, <5>1
      <4>2. CASE b + 1 <= fault.from
        <5>1. (b + 1) * SectorSize <= fault.from * SectorSize
          BY <1>3, <3>1, <4>2
        <5>2. (b + 1) * SectorSize = b * SectorSize + SectorSize /\ b * SectorSize \in Int
          BY <1>3
        <5>3. fault.from * SectorSize \in Int
          BY <3>1
        <5> QED
          BY <1>3, <3>1, <4>2, <5>1, <5>2, <5>3
      <4> QED
        BY <1>3, <3>1, <4>1, <4>2
    <3> QED
      BY <1>3, <3>2
  <2>2. \A s : ReadSector(s) = IF fault.kind = "error" /\ fault.at = s /\ late THEN -1
                               ELSE IF fault.kind = "short" /\ fault.at = s /\ late THEN 0
                               ELSE SectorSize
    BY DEF ReadSector, Faulty
  <2> HIDE DEF late
  <2>3. /\ \A s : ReadSector(s) = -1 <=> fault.at = s /\ fault.kind = "error" /\ late
        /\ \A s : ReadSector(s) < 0 <=> fault.at = s /\ fault.kind = "error" /\ late
        /\ \A s : ReadSector(s) = 0 => fault.kind = "short"
    BY <2>2
  <2> HIDE DEF path, b
  <2>4. /\ LookupFails(path) <=> fault.kind = "error" /\ late /\ fault.at \in IndexSectors(path)
        /\ \A s : IsError(ReadSector(s)) <=> fault.kind = "error" /\ late /\ fault.at = s
        /\ IgetFails <=> fault.kind = "error" /\ late /\ fault.at = IListSector
    BY <1>5, <2>3 DEF LookupFails, IsError, IgetFails
  <2>5. fault.at \in Reads(b) <=> \/ fault.at \in IndexSectors(path)
                                  \/ fault.at = path \/ fault.at = IListSector
    BY DEF Reads, path
  <2>6. ASSUME fault.kind # "short" PROVE block = path
    <3>1. \A s \in IndexSectors(path) : ReadSector(s) # 0
      BY <2>3, <2>6
    <3> QED
      BY <3>1 DEF Lookup
  <2>7. block # Junk => block = path
    BY DEF Lookup
  <2> HIDE DEF block
  <2> QED
    BY <2>1, <2>3, <2>4, <2>5, <2>6, <2>7
<1>9. ASSUME Fails PROVE IInv'
  <2>1. result' = "error" /\ UNCHANGED <<file, fault, offset, fed>>
    BY <1>1, <1>9
  <2>2. LoopInv' /\ BytesInv'
    BY <2>1 DEF IInv, LoopInv, BytesInv
  <2>3. ResultInv'
    BY <1>4, <2>1 DEF IInv, ResultInv
  <2>4. Unreadable
    <3>1. ~(b >= MaxBlocks(size))
      <4> HIDE DEF b, size
      <4> QED
        BY <1>2, <1>3
    <3>2. fault.kind = "error" /\ fault.from <= b /\ fault.at \in Reads(b)
      BY <1>8, <1>9, <3>1
    <3>3. b * SectorSize < size /\ fault.from \in Nat
      <4> HIDE DEF b, size
      <4> QED
        BY <1>2, <1>3, FaultKinds
    <3>4. \E k \in DOMAIN Leaves : fault.from < k /\ fault.at \in NeededFor(k)
      <4> HIDE DEF b
      <4> QED
        BY <1>2, <1>3, <3>2, <3>3, NeededAre
    <3> QED
      BY <3>2, <3>4 DEF Unreadable
  <2>5. ErrorsAreReported'
    BY <1>4, <2>1, <2>4 DEF ErrorsAreReported
  <2> QED
    BY <2>2, <2>3, <2>5 DEF IInv
<1>10. ASSUME ~Fails PROVE IInv'
  <2> DEFINE new == SubSeq(Bytes(block), 1, v)
  <2>1. fed' = fed \o new /\ offset' = offset + SectorSize /\ result' = "running"
    BY <1>1, <1>10
  <2>2. /\ \E A : new \in Seq(A)
        /\ Len(new) = v /\ \A j \in 1..v : new[j] = Bytes(block)[j]
    <3> DEFINE A == {Bytes(block)[j] : j \in 1..SectorSize}
    <3>1. Bytes(block) \in [1..SectorSize -> A]
      BY DEF Bytes
    <3> HIDE DEF A, block, v
    <3>2. Bytes(block) \in Seq(A) /\ Len(Bytes(block)) = SectorSize
      BY <3>1
    <3>3. new \in Seq(A) /\ Len(new) = v /\ \A j \in 1..v : new[j] = Bytes(block)[j]
      BY <1>7, <3>2
    <3> QED
      BY <3>3
  <2>3. Len(fed) = offset /\ offset \in Nat /\ \E A : fed \in Seq(A)
    <3>1. b * SectorSize \in Nat
      <4> HIDE DEF b
      <4> QED
        BY <1>3
    <3> QED
      BY <1>1, <1>3, <3>1 DEF IInv, LoopInv
  <2> HIDE DEF new
  <2>4. /\ \E A : fed' \in Seq(A)
        /\ Len(fed') = offset + v
        /\ \A k \in 1..offset : fed'[k] = fed[k]
        /\ \A j \in 1..v : fed'[offset + j] = new[j]
    <3> HIDE DEF v
    <3>1. PICK A : fed \in Seq(A)
      BY <2>3
    <3>2. PICK B : new \in Seq(B)
      BY <2>2
    <3>3. fed \in Seq(A \cup B) /\ new \in Seq(A \cup B)
      BY <3>1, <3>2
    <3>4. fed' \in Seq(A \cup B) /\ Len(fed') = Len(fed) + Len(new)
      BY <2>1, <3>3
    <3>5. \A k \in 1..Len(fed) : fed'[k] = fed[k]
      BY <2>1, <3>3
    <3>6. \A j \in 1..Len(new) : fed'[Len(fed) + j] = new[j]
      BY <2>1, <3>3
    <3> QED
      BY <2>2, <2>3, <3>4, <3>5, <3>6
  <2> HIDE DEF b, size, v, path, block, Fails
  <2>5. LoopInv'
    <3>1. b + 1 \in Nat /\ offset' = (b + 1) * SectorSize
      BY <1>3, <2>1
    <3>2. (b + 1) * SectorSize < size <=> b + 1 < MaxBlocks(size)
      BY <1>2, <3>1
    <3>3. offset' < size + SectorSize
      BY <1>1, <1>2, <2>1, <2>3
    <3>4. Len(fed') = IF offset' < size THEN offset' ELSE size
      <4>1. CASE b + 1 < MaxBlocks(size)
        BY <1>7, <2>1, <2>4, <3>1, <3>2, <4>1
      <4>2. CASE ~(b + 1 < MaxBlocks(size))
        <5>1. b + 1 = MaxBlocks(size)
          BY <1>2, <1>3, <4>2
        <5> QED
          BY <1>3, <1>7, <2>4, <3>1, <3>2, <4>2, <5>1
      <4> QED
        BY <4>1, <4>2
    <3>5. file' = file /\ fault' = fault /\ GetSize(file)' = size
      BY <1>1, <1>4
    <3> QED
      BY <1>2, <2>1, <2>4, <3>1, <3>3, <3>4, <3>5 DEF LoopInv
  <2>6. BytesInv'
    <3> SUFFICES ASSUME fault.kind # "short", NEW k \in 1..offset + v
                 PROVE  fed'[k] = <<AddressPath(file.large, (k - 1) \div SectorSize),
                                    ((k - 1) % SectorSize) + 1>>
      BY <1>1, <2>4 DEF BytesInv
    <3>1. CASE k <= offset
      <4>1. k \in 1..offset
        BY <1>7, <2>3, <3>1
      <4>2. fed'[k] = fed[k] /\ k \in 1..Len(fed)
        BY <2>3, <2>4, <4>1
      <4> QED
        BY <4>2 DEF IInv, BytesInv
    <3>2. CASE ~(k <= offset)
      <4> DEFINE j == k - offset
      <4>1. j \in 1..v /\ j \in 1..SectorSize /\ k = offset + j
        BY <1>7, <2>3, <3>2
      <4> HIDE DEF j
      <4>2. fed'[k] = Bytes(path)[j]
        BY <1>8, <2>2, <2>4, <4>1
      <4>3. Bytes(path)[j] = <<path, j>>
        BY <1>6, <1>8, <4>1 DEF Bytes
      <4>4. k - 1 = b * SectorSize + j - 1
        BY <1>3, <4>1
      <4>5. (k - 1) \div SectorSize = b /\ (k - 1) % SectorSize = j - 1
        BY <1>3, <4>1, <4>4, ByteOfBlock
      <4>6. ((k - 1) % SectorSize) + 1 = j
        BY <4>1, <4>5
      <4>7. AddressPath(file.large, (k - 1) \div SectorSize) = path
        BY <4>5 DEF path
      <4> QED
        BY <4>2, <4>3, <4>6, <4>7
    <3> QED
      BY <3>1, <3>2
  <2>7. ResultInv'
    <3>1. ASSUME fault.kind = "error", NEW c \in Nat, c * SectorSize < offset', fault.from <= c
          PROVE  fault.at \notin Reads(c)
      <4>1. CASE c = b
        <5>1. block = path
          BY <1>8, <3>1
        <5>2. ~IgetFails /\ ~LookupFails(path) /\ ~IsError(ReadSector(path))
          BY <1>6, <1>10, <5>1 DEF Fails
        <5> QED
          BY <1>8, <3>1, <4>1, <5>2
      <4>2. CASE c # b
        <5>1. ~(c >= b + 1)
          <6> SUFFICES ASSUME c >= b + 1 PROVE FALSE
            OBVIOUS
          <6>1. c * SectorSize >= (b + 1) * SectorSize
            BY <1>3
          <6>2. (b + 1) * SectorSize = b * SectorSize + SectorSize /\ c * SectorSize \in Int
            BY <1>3
          <6> QED
            BY <1>3, <2>1, <2>3, <3>1, <6>1, <6>2
        <5>2. c + 1 <= b
          BY <1>3, <4>2, <5>1
        <5>3. (c + 1) * SectorSize <= b * SectorSize
          BY <1>3, <5>2
        <5>4. c * SectorSize < offset
          BY <1>3, <5>3
        <5> QED
          BY <3>1, <5>4 DEF IInv, ResultInv
      <4> QED
        BY <4>1, <4>2
    <3> QED
      BY <1>1, <1>4, <1>5, <2>1, <3>1 DEF ResultInv
  <2>8. ErrorsAreReported'
    BY <2>1 DEF ErrorsAreReported
  <2> QED
    BY <2>5, <2>6, <2>7, <2>8 DEF IInv
<1> HIDE DEF Fails
<1> QED
  BY <1>9, <1>10

\* So IInv holds in every state of the program.
LEMMA Invariance == Spec => []IInv
<1>1. IInv /\ UNCHANGED vars => IInv'
  <2> SUFFICES ASSUME IInv, UNCHANGED vars PROVE IInv'
    OBVIOUS
  <2>1. UNCHANGED <<file, fault, offset, fed, result>>
    BY DEF vars
  <2>2. /\ Unreadable' = Unreadable /\ FileSystem' = FileSystem /\ BadInode' = BadInode
        /\ GetSize(file)' = GetSize(file) /\ \A b : Reads(b)' = Reads(b)
    BY <2>1, ImageStays
  <2>3. LoopInv' /\ BytesInv'
    BY <2>1 DEF IInv, LoopInv, BytesInv
  <2>4. ResultInv' /\ ErrorsAreReported'
    BY <2>1, <2>2 DEF IInv, ResultInv, ErrorsAreReported
  <2> QED
    BY <2>3, <2>4 DEF IInv
<1>2. IInv /\ [Next]_vars => IInv'
  BY <1>1, MountInv, StartInv, FinalInv, BlockInv DEF Next
<1> QED
  BY InitInv, <1>2, PTL DEF Spec

\* The loop of chksumfile_byinumber() stays within a sector of the file's end, and
\* feeds no more bytes than the file has.
THEOREM TypeCorrect == Spec => []TypeOK
<1>1. IInv => TypeOK
  <2> SUFFICES ASSUME IInv PROVE TypeOK
    OBVIOUS
  <2>1. /\ file \in Files /\ fault \in FaultSet
        /\ result \in {"unmounted", "mounted", "running", "error", "ok"}
        /\ GetSize(file) \in Nat /\ offset < GetSize(file) + SectorSize
        /\ Len(fed) = IF offset < GetSize(file) THEN offset ELSE GetSize(file)
    BY Sizes DEF IInv, LoopInv
  <2>2. offset \in Nat
    <3>1. \A b \in Nat : b * SectorSize \in Nat
      OBVIOUS
    <3> QED
      BY <3>1 DEF IInv, LoopInv
  <2> QED
    BY <2>1, <2>2 DEF TypeOK
<1> QED
  BY <1>1, Invariance, PTL

\* What is digested is the file, for every size and shape of it and any geometry:
\* its bytes in the order of the tree, and all of them when the call succeeds.
THEOREM DigestHolds == Spec => []DigestIsOfFile
<1>1. IInv => DigestIsOfFile
  <2> SUFFICES ASSUME IInv, fault.kind # "short"
               PROVE  fed = SubSeq(Content, 1, Len(fed)) /\ (result = "ok" => fed = Content)
    BY DEF DigestIsOfFile
  <2> DEFINE size == GetSize(file)
             n == Len(fed)
             M == MaxBlocks(size)
             B(k) == <<AddressPath(file.large, (k - 1) \div SectorSize), ((k - 1) % SectorSize) + 1>>
  <2>1. /\ size \in Nat /\ M \in Nat /\ file.large \in BOOLEAN
        /\ \A b \in Nat : b * SectorSize < size <=> b < M
    BY Sizes DEF IInv, LoopInv
  <2>2. \A k \in 1..n : fed[k] = B(k)
    BY DEF IInv, BytesInv
  <2>3. PICK A : fed \in Seq(A)
    BY DEF IInv, LoopInv
  <2>4. n \in 0..size /\ (result = "ok" => n = size)
    <3>1. offset \in Nat
      <4>1. \A b \in Nat : b * SectorSize \in Nat
        OBVIOUS
      <4> QED
        BY <4>1 DEF IInv, LoopInv
    <3>2. n = IF offset < size THEN offset ELSE size
      BY DEF IInv, LoopInv
    <3>3. result = "ok" => offset >= size
      BY DEF IInv, ResultInv
    <3> HIDE DEF n, size
    <3> QED
      BY <2>1, <3>1, <3>2, <3>3
  <2>5. ASSUME NEW k \in 1..size PROVE Content[k] = B(k)
    <3> DEFINE q == (k - 1) \div SectorSize
               r == (k - 1) % SectorSize
    <3>1. q \in Int /\ r \in 0..SectorSize - 1 /\ k - 1 = SectorSize * q + r /\ k - 1 \in Nat
      <4>1. k - 1 \in Nat /\ k - 1 \in Int
        BY <2>1
      <4> QED
        BY <4>1, DivMod
    <3> HIDE DEF q, r
    <3>2. q \in Nat
      <4> SUFFICES ASSUME q <= -1 PROVE FALSE
        BY <3>1
      <4>1. SectorSize * q <= SectorSize * (-1)
        BY <3>1
      <4> QED
        BY <3>1, <4>1
    <3>3. q < M
      <4>1. q * SectorSize = SectorSize * q /\ SectorSize * q \in Int
        BY <3>1
      <4>2. q * SectorSize < size
        <5> HIDE DEF size
        <5> QED
          BY <2>1, <3>1, <4>1
      <4> QED
        BY <2>1, <3>2, <4>2
    <3>4. Leaves[q + 1] = AddressPath(file.large, q)
      <4>1. q + 1 \in 1..M /\ (q + 1) - 1 = q
        <5> HIDE DEF M
        <5> QED
          BY <2>1, <3>2, <3>3
      <4>2. Leaves = [x \in 1..M |-> AddressPath(file.large, x - 1)]
        BY <2>1, LeavesAre
      <4> HIDE DEF M
      <4> QED
        BY <4>1, <4>2
    <3>5. Content[k] = <<Leaves[q + 1], r + 1>>
      BY DEF Content, q, r
    <3> QED
      BY <3>4, <3>5 DEF q, r
  <2> DEFINE all == {Content[k] : k \in 1..size}
  <2>6. Content \in Seq(all) /\ Len(Content) = size
    <3>1. Content \in [1..size -> all]
      BY DEF Content
    <3> HIDE DEF size, all
    <3> QED
      BY <2>1, <3>1
  <2> HIDE DEF size, n, M, B, all
  <2>7. SubSeq(Content, 1, n) \in Seq(all) /\ Len(SubSeq(Content, 1, n)) = n
        /\ \A k \in 1..n : SubSeq(Content, 1, n)[k] = Content[k]
    BY <2>1, <2>4, <2>6
  <2>8. \A k \in 1..n : fed[k] = Content[k]
    <3>1. 1..n \subseteq 1..size
      BY <2>1, <2>4
    <3> QED
      BY <2>2, <2>5, <3>1
  <2>9. Len(fed) = n
    BY DEF n
  <2>10. fed = SubSeq(Content, 1, n)
    BY <2>3, <2>7, <2>8, <2>9
  <2>11. result = "ok" => fed = Content
    BY <2>3, <2>4, <2>6, <2>8, <2>9
  <2> QED
    BY <2>9, <2>10, <2>11
<1> QED
  BY <1>1, Invariance, PTL

\* The call fails exactly when the image is no file system, the inode is free, or a
\* sector cannot be read at a block that needs it, the sector of the inode included:
\* for every shape of file, whichever sector it is and whenever it begins to fail.
THEOREM ErrorsHold == Spec => []ErrorsAreReported
  BY Invariance, PTL DEF IInv
=============================================================================
