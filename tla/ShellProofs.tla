----------------------------- MODULE ShellProofs -----------------------------
(***************************************************************************)
(* Theorems about the shell, for every number of commands, every capacity  *)
(* of a pipe and every set of texts: nothing of a line is left when the    *)
(* prompt comes back, its output is whole, its plainly quoted words are    *)
(* those that were typed, and which commands fit in the tables.            *)
(***************************************************************************)
EXTENDS Shell, Arithmetic, SequenceTheorems, FiniteSetTheorems, FunctionTheorems, TLAPS

(***************************************************************************)
(* How many commands a line can make and how many arguments a command, for *)
(* every text: what the sizes of commands[] and of args[] have to hold.    *)
(***************************************************************************)
\* Positions of which no two are neighbours are at most every other one.
LEMMA EveryOther ==
  ASSUME NEW lo \in Int, NEW hi \in Int, lo <= hi + 1,
         NEW S, S \subseteq lo..hi, \A i \in S : i + 1 \notin S
  PROVE  IsFiniteSet(S) /\ 2 * Cardinality(S) <= hi - lo + 2
<1> DEFINE T == {i + 1 : i \in S}
           f == [i \in S |-> i + 1]
<1>1. IsFiniteSet(lo..hi) /\ IsFiniteSet(lo..hi + 1) /\ Cardinality(lo..hi + 1) = hi - lo + 2
  BY FS_Interval
<1>2. IsFiniteSet(S)
  BY <1>1, FS_Subset
<1>3. f \in Bijection(S, T)
  <2>1. f \in [S -> T]
    OBVIOUS
  <2>2. \A i, j \in S : f[i] = f[j] => i = j
    OBVIOUS
  <2>3. \A j \in T : \E i \in S : f[i] = j
    OBVIOUS
  <2> HIDE DEF f, T
  <2>4. f \in Injection(S, T)
    BY <2>1, <2>2 DEF Injection, IsInjective
  <2>5. f \in Surjection(S, T)
    BY <2>1, <2>3 DEF Surjection
  <2> QED
    BY <2>4, <2>5 DEF Bijection
<1>4. IsFiniteSet(T) /\ Cardinality(T) = Cardinality(S)
  BY <1>2, <1>3, FS_Bijection DEF ExistsBijection
<1>5. S \cap T = {}
  OBVIOUS
<1>6. S \cup T \subseteq lo..hi + 1
  <2>1. S \subseteq lo..hi + 1
    OBVIOUS
  <2>2. \A i \in S : i + 1 \in lo..hi + 1
    OBVIOUS
  <2>3. T \subseteq lo..hi + 1
    BY <2>2, Zenon
  <2> QED
    BY <2>1, <2>3, Zenon
<1> HIDE DEF T
<1>7. /\ Cardinality(S) \in Nat
      /\ Cardinality(S \cup T) = Cardinality(S) + Cardinality(T)
  <2>1. Cardinality(S \cap T) = 0
    BY <1>5, FS_EmptySet, Zenon
  <2>2. Cardinality(S) \in Nat
    BY <1>2, FS_CardinalityType, Zenon
  <2>3. Cardinality(S \cup T) = Cardinality(S) + Cardinality(T) - Cardinality(S \cap T)
    BY <1>2, <1>4, FS_Union, Zenon
  <2> QED
    BY <1>4, <2>1, <2>2, <2>3
<1>8. Cardinality(S \cup T) <= hi - lo + 2
  BY <1>1, <1>6, FS_Subset
<1> QED
  BY <1>2, <1>4, <1>7, <1>8

\* Nth() finds its element: the k-th smallest of a set of at least k positions.
LEMMA NthCounts ==
  ASSUME NEW n \in Nat, NEW S, S \subseteq 1..n, NEW k \in 1..Cardinality(S)
  PROVE  Nth(S, k) \in S /\ Cardinality({j \in S : j <= Nth(S, k)}) = k
<1> DEFINE U(i) == {j \in S : j <= i}
           T == {i \in 1..n : Cardinality(U(i)) >= k}
<1>0. S \subseteq Nat /\ \A j \in S : 1 <= j /\ j <= n
  OBVIOUS
<1>1. \A i, j : j \in U(i) <=> j \in S /\ j <= i
  OBVIOUS
<1>t. \A i : i \in T <=> i \in 1..n /\ Cardinality(U(i)) >= k
  OBVIOUS
<1>n. Nth(S, k) = CHOOSE i \in S : Cardinality(U(i)) = k
  BY DEF Nth
<1>k. k \in Int /\ k >= 1 /\ k <= Cardinality(S)
  OBVIOUS
<1>e. Cardinality({}) = 0
  BY FS_EmptySet
<1> HIDE DEF U, T
<1>2. \A i : IsFiniteSet(U(i)) /\ Cardinality(U(i)) \in Nat
  <2> SUFFICES ASSUME NEW i PROVE IsFiniteSet(U(i)) /\ Cardinality(U(i)) \in Nat
    OBVIOUS
  <2>1. U(i) \subseteq 1..n
    BY <1>1
  <2>2. IsFiniteSet(1..n)
    BY FS_Interval
  <2> QED
    BY <2>1, <2>2, FS_Subset, FS_CardinalityType
<1>3. n \in T
  <2>1. \A j : j \in U(n) <=> j \in S
    BY <1>0, <1>1, Zenon
  <2>2. U(n) = S
    BY <2>1, Zenon
  <2>3. n # 0
    <3>1. n = 0 => S = {}
      OBVIOUS
    <3>2. n = 0 => Cardinality(S) = 0
      BY <1>e, <3>1, Zenon
    <3> QED
      BY <1>k, <3>2
  <2> QED
    BY <1>t, <1>k, <2>2, <2>3
<1>4. PICK m \in T : \A l \in T : m <= l
  <2>1. T \subseteq Nat
    BY <1>t
  <2> QED
    BY <1>3, <2>1, LeastNatural, Zenon
<1>5. m \in 1..n /\ Cardinality(U(m)) >= k
  BY <1>t
<1>6. Cardinality(U(m - 1)) < k
  <2>1. CASE m = 1
    <3>1. \A j \in S : ~ (j <= m - 1)
      BY <1>0, <2>1
    <3>2. U(m - 1) = {}
      BY <1>1, <3>1, Zenon
    <3> QED
      BY <1>e, <1>k, <3>2
  <2>2. CASE m # 1
    <3>1. m - 1 \in 1..n /\ ~ (m <= m - 1)
      BY <1>5, <2>2
    <3>2. ~ (Cardinality(U(m - 1)) >= k)
      BY <1>4, <1>t, <3>1, Zenon
    <3> QED
      BY <1>2, <1>k, <3>2
  <2> QED
    BY <2>1, <2>2
<1>7. \A j \in S : j <= m <=> j <= m - 1 \/ j = m
  BY <1>0, <1>5
<1>8. m \in S
  <2> SUFFICES ASSUME m \notin S PROVE FALSE
    OBVIOUS
  <2>1. \A j : j \in U(m) <=> j \in U(m - 1)
    BY <1>1, <1>7, Zenon
  <2>2. U(m) = U(m - 1)
    BY <2>1, Zenon
  <2> QED
    BY <1>2, <1>5, <1>6, <1>k, <2>2
<1>9. Cardinality(U(m)) = k
  <2>1. ~ (m <= m - 1)
    BY <1>5
  <2>2. \A j : j \in U(m) <=> j \in U(m - 1) \/ j = m
    <3>1. m <= m
      BY <1>5
    <3> QED
      BY <1>1, <1>7, <1>8, <3>1, Zenon
  <2>3. U(m) = U(m - 1) \cup {m} /\ m \notin U(m - 1)
    BY <1>1, <2>1, <2>2, Zenon
  <2>4. Cardinality(U(m)) = Cardinality(U(m - 1)) + 1
    BY <1>2, <2>3, FS_AddElement
  <2> QED
    BY <1>2, <1>5, <1>6, <1>k, <2>4
<1>10. Nth(S, k) \in S /\ Cardinality(U(Nth(S, k))) = k
  BY <1>8, <1>9, <1>n
<1> QED
  BY <1>10 DEF U

\* It is one of them.
LEMMA NthIsIn ==
  ASSUME NEW n \in Nat, NEW S, S \subseteq 1..n, NEW k \in 1..Cardinality(S)
  PROVE  Nth(S, k) \in S
BY NthCounts

\* FirstOf() finds its element, when there is one.
LEMMA FirstOfIsIn ==
  ASSUME NEW S, S \subseteq Nat, NEW i \in Nat, \E j \in S : j >= i
  PROVE  FirstOf(S, i) \in S /\ FirstOf(S, i) >= i
<1> DEFINE T == {j \in S : j >= i}
<1>1. PICK m \in T : \A l \in T : m <= l
  <2>1. T \subseteq Nat /\ T # {}
    OBVIOUS
  <2> HIDE DEF T
  <2> QED
    BY <2>1, LeastNatural, Zenon
<1> QED
  BY <1>1 DEF FirstOf

\* LastOf() finds an element, or 0.
LEMMA LastOfIsIn ==
  ASSUME NEW n \in Nat, NEW S, S \subseteq 1..n, NEW i \in Int
  PROVE  LastOf(S, i) \in S \cup {0}
<1>1. CASE ~ \E j \in S : j < i
  BY <1>1 DEF LastOf
<1>2. CASE \E j \in S : j < i
  <2> DEFINE T == {d \in 0..n : n - d \in S /\ n - d < i}
  <2>1. PICK m \in T : \A d \in T : m <= d
    <3>1. PICK j \in S : j < i
      BY <1>2
    <3>2. n - j \in 0..n /\ n - (n - j) = j
      BY <3>1
    <3>3. n - j \in T /\ T \subseteq Nat
      BY <3>1, <3>2
    <3> HIDE DEF T
    <3> QED
      BY <3>3, LeastNatural, Zenon
  <2>2. n - m \in S /\ n - m < i /\ \A l \in S : l < i => l <= n - m
    <3>1. m \in 0..n /\ n - m \in S /\ n - m < i
      BY <2>1
    <3>2. ASSUME NEW l \in S, l < i PROVE l <= n - m
      <4>1. n - l \in 0..n /\ n - (n - l) = l
        OBVIOUS
      <4>2. n - l \in T
        BY <3>2, <4>1
      <4>3. m <= n - l
        BY <2>1, <4>2
      <4> QED
        BY <3>1, <4>1, <4>3
    <3> QED
      BY <3>1, <3>2
  <2> DEFINE P(j) == j < i /\ \A l \in S : l < i => l <= j
  <2>3. LastOf(S, i) = CHOOSE j \in S : P(j)
    BY <1>2 DEF LastOf
  <2>4. \E j \in S : P(j)
    BY <2>2
  <2> HIDE DEF P
  <2> QED
    BY <2>3, <2>4
<1> QED
  BY <1>1, <1>2

\* strtok() returns texts, none longer than the line.
LEMMA TokensAreTexts ==
  ASSUME NEW Chars, NEW t \in Seq(Chars)
  PROVE  /\ Tokens(t) \in Seq(Seq(Chars))
         /\ \A k \in 1..Len(Tokens(t)) : Len(Tokens(t)[k]) <= Len(t)
<1> DEFINE S == Starts(t, Bars(t))
           ends == Bars(t) \cup {Len(t) + 1}
           token(k) == SubSeq(t, Nth(S, k), FirstOf(ends, Nth(S, k)) - 1)
<1>1. S \subseteq 1..Len(t) /\ ends \subseteq Nat /\ \A e \in ends : e <= Len(t) + 1
  BY DEF Starts, Bars
<1>2. ASSUME NEW k \in 1..Cardinality(S) PROVE token(k) \in Seq(Chars) /\ Len(token(k)) <= Len(t)
  <2>1. Nth(S, k) \in S
    BY <1>1, NthIsIn
  <2>2. FirstOf(ends, Nth(S, k)) \in ends
    <3>1. Nth(S, k) \in Nat /\ Len(t) + 1 \in ends /\ Len(t) + 1 >= Nth(S, k)
      BY <1>1, <2>1
    <3> HIDE DEF S, ends
    <3> QED
      BY <1>1, <3>1, FirstOfIsIn
  <2>3. Nth(S, k) \in 1..Len(t) /\ FirstOf(ends, Nth(S, k)) - 1 <= Len(t)
    BY <1>1, <2>1, <2>2
  <2>4. FirstOf(ends, Nth(S, k)) - 1 \in Int
    BY <1>1, <2>2
  <2> HIDE DEF S, ends
  <2>5. \A i \in 1..Len(t), j \in Int :
          j <= Len(t) => SubSeq(t, i, j) \in Seq(Chars) /\ Len(SubSeq(t, i, j)) <= Len(t)
    OBVIOUS
  <2> QED
    BY <2>3, <2>4, <2>5
<1>3. Cardinality(S) \in Nat
  <2>1. IsFiniteSet(1..Len(t))
    BY FS_Interval
  <2> HIDE DEF S
  <2> QED
    BY <1>1, <2>1, FS_Subset, FS_CardinalityType
<1>4. Tokens(t) = [k \in 1..Cardinality(S) |-> token(k)]
  BY DEF Tokens, Pieces
<1> HIDE DEF S, token
<1>5. Tokens(t) \in Seq(Seq(Chars)) /\ Len(Tokens(t)) = Cardinality(S)
  BY <1>2, <1>3, <1>4
<1>6. \A k \in 1..Cardinality(S) : Tokens(t)[k] = token(k)
  BY <1>4
<1> QED
  BY <1>2, <1>5, <1>6

\* However its bars lie, a line of n characters has at most (n + 1) / 2 tokens: with
\* fgets() limited to 255 characters, commands[200] has room for all of them.
THEOREM TokensFit ==
  ASSUME NEW Chars, NEW t \in Seq(Chars)
  PROVE  Len(Tokens(t)) \in Nat /\ 2 * Len(Tokens(t)) <= Len(t) + 1
<1> DEFINE S == Starts(t, Bars(t))
           n == Len(t)
<1>1. S \subseteq 1..n /\ \A i \in S : i + 1 \notin S
  BY DEF Starts, Bars
<1>0. n \in Nat
  OBVIOUS
<1> HIDE DEF S, n
<1>2. IsFiniteSet(S) /\ 2 * Cardinality(S) <= n - 1 + 2
  <2>1. n \in Int /\ 1 \in Int /\ 1 <= n + 1
    BY <1>0
  <2> QED
    BY <1>1, <2>1, EveryOther, Zenon
<1>3. Cardinality(S) \in Nat
  BY <1>2, FS_CardinalityType
<1>4. Len(Tokens(t)) = Cardinality(S)
  BY <1>3 DEF Tokens, Pieces, S
<1> QED
  BY <1>0, <1>2, <1>3, <1>4 DEF n

\* The flag in_quotes turns over at a quote and nowhere else.
LEMMA Parity ==
  ASSUME NEW Chars, NEW t \in Seq(Chars), NEW i \in 1..Len(t)
  PROVE  in_quotes(t, i + 1) <=> (in_quotes(t, i) <=> t[i] \notin Quotes)
<1> DEFINE Q(j) == {l \in DOMAIN t : l < j /\ t[l] \in Quotes}
<1>1. IsFiniteSet(Q(i))
  <2>1. Q(i) \subseteq 1..Len(t)
    OBVIOUS
  <2>2. IsFiniteSet(1..Len(t))
    BY FS_Interval
  <2> QED
    BY <2>1, <2>2, FS_Subset
<1>2. Cardinality(Q(i)) \in Nat
  BY <1>1, FS_CardinalityType
<1>3. CASE t[i] \in Quotes
  <2>1. Q(i + 1) = Q(i) \cup {i} /\ i \notin Q(i)
    BY <1>3
  <2>2. Cardinality(Q(i + 1)) = Cardinality(Q(i)) + 1
    BY <1>1, <2>1, FS_AddElement
  <2> QED
    BY <1>2, <1>3, <2>2 DEF in_quotes
<1>4. CASE t[i] \notin Quotes
  <2>1. Q(i + 1) = Q(i)
    BY <1>4
  <2> QED
    BY <1>4, <2>1 DEF in_quotes
<1> QED
  BY <1>3, <1>4

\* Right after a mark arg_start points to the next character; before the first
\* one, to the beginning.
LEMMA StartAfterMark ==
  ASSUME NEW S \in SUBSET Int, NEW i \in Int
  PROVE  i \in S => LastOf(S, i + 1) = i
<1> SUFFICES ASSUME i \in S PROVE LastOf(S, i + 1) = i
  OBVIOUS
<1> DEFINE P(j) == j < i + 1 /\ \A l \in S : l < i + 1 => l <= j
<1>1. P(i) /\ \A j \in S : P(j) => j = i
  OBVIOUS
<1>2. LastOf(S, i + 1) = CHOOSE j \in S : P(j)
  BY DEF LastOf
<1> QED
  BY <1>1, <1>2

\* However its blanks and quotes lie, a command of n characters has at most
\* (n + 1) / 2 arguments: up to 198 characters they fit in args[100], the 255 of a
\* line can make 128.
THEOREM ArgumentsFit ==
  ASSUME NEW Chars, NEW t \in Seq(Chars)
  PROVE  Len(ParseArguments(t)) \in Nat /\ 2 * Len(ParseArguments(t)) <= Len(t) + 1
<1> DEFINE E == ArgumentEnds(t)
<1>0. Marks(t) \in SUBSET (1..Len(t)) /\ Blank \notin Quotes
  <2>1. Marks(t) \in SUBSET (1..Len(t))
    BY DEF Marks
  <2>2. Blank \notin Quotes
    BY DEF Blank, Quotes
  <2> QED
    BY <2>1, <2>2
<1>1. E \in SUBSET (2..Len(t) + 1)
  <2>1. arg_start(t, 1) = 1
    BY <1>0 DEF arg_start, LastOf
  <2>2. {j \in DOMAIN t : j < 1 /\ t[j] \in Quotes} = {}
    OBVIOUS
  <2>3. ~in_quotes(t, 1)
    <3>1. Cardinality({j \in DOMAIN t : j < 1 /\ t[j] \in Quotes}) = 0
      BY <2>2, FS_EmptySet, Zenon
    <3> QED
      BY <3>1 DEF in_quotes
  <2>4. E \in SUBSET (1..Len(t) + 1)
    BY <1>0 DEF ArgumentEnds
  <2>5. 1 \notin E
    BY <1>0, <2>1, <2>3 DEF ArgumentEnds
  <2> QED
    BY <2>4, <2>5
<1>2. ASSUME NEW i \in E, i + 1 \in E PROVE FALSE
  <2>1. i \in Marks(t) /\ i \in 1..Len(t)
    BY <1>0, <1>1, <1>2 DEF ArgumentEnds
  <2>2. arg_start(t, i + 1) = i + 1
    BY <1>0, <2>1, StartAfterMark DEF arg_start
  <2>3. /\ i + 1 \in Marks(t)
        /\ t[i + 1] # Blank /\ in_quotes(t, i + 1)
    BY <1>2, <2>2 DEF ArgumentEnds
  <2>4. in_quotes(t, i) <=> t[i] \notin Quotes
    BY <2>1, <2>3, Parity
  <2> QED
    BY <1>0, <1>2, <2>1, <2>4 DEF ArgumentEnds, Marks
<1> DEFINE n == Len(t) + 1
<1> HIDE DEF E
<1>3. IsFiniteSet(E) /\ 2 * Cardinality(E) <= n - 2 + 2
  <2>1. n \in Int /\ 2 \in Int /\ 2 <= n + 1
    OBVIOUS
  <2>2. E \subseteq 2..n /\ \A i \in E : i + 1 \notin E
    BY <1>1, <1>2
  <2> HIDE DEF n
  <2> QED
    BY <2>1, <2>2, EveryOther, Zenon
<1>4. Cardinality(E) \in Nat
  BY <1>3, FS_CardinalityType
<1>5. Len(ParseArguments(t)) = Cardinality(E)
  BY <1>4 DEF ParseArguments, E
<1> QED
  BY <1>3, <1>4, <1>5
\* parse_arguments() makes texts.
LEMMA ArgumentsAreTexts ==
  ASSUME NEW Chars, NEW t \in Seq(Chars)
  PROVE  ParseArguments(t) \in Seq(Seq(Chars))
<1> DEFINE E == ArgumentEnds(t)
           c == Cardinality(E)
           argument(k) == LET i == Nth(E, k) IN SubSeq(t, arg_start(t, i), i - 1)
<1>1. E \subseteq 1..Len(t) + 1 /\ Marks(t) \subseteq 1..Len(t)
  BY DEF ArgumentEnds, Marks
<1>2. c \in Nat
  <2>1. IsFiniteSet(1..Len(t) + 1)
    BY FS_Interval
  <2> HIDE DEF E
  <2> QED
    BY <1>1, <2>1, FS_Subset, FS_CardinalityType
<1>3. ASSUME NEW k \in 1..c PROVE argument(k) \in Seq(Chars)
  <2> DEFINE i == Nth(E, k)
  <2>1. i \in 1..Len(t) + 1
    <3>1. Len(t) + 1 \in Nat
      OBVIOUS
    <3> HIDE DEF E
    <3>2. Nth(E, k) \in E
      BY <1>1, <3>1, NthIsIn
    <3> QED
      BY <1>1, <3>2
  <2> HIDE DEF i
  <2>2. arg_start(t, i) \in Nat \ {0}
    <3>1. Len(t) \in Nat /\ i \in Int
      BY <2>1
    <3>2. LastOf(Marks(t), i) \in Marks(t) \cup {0}
      BY <1>1, <3>1, LastOfIsIn
    <3>3. LastOf(Marks(t), i) \in Nat
      BY <1>1, <3>2
    <3> QED
      BY <3>3 DEF arg_start
  <2>3. \A a \in Nat \ {0}, b \in Int : b <= Len(t) => SubSeq(t, a, b) \in Seq(Chars)
    OBVIOUS
  <2>4. i - 1 \in Int /\ i - 1 <= Len(t)
    BY <2>1
  <2>5. SubSeq(t, arg_start(t, i), i - 1) \in Seq(Chars)
    BY <2>2, <2>3, <2>4
  <2> QED
    BY <2>5 DEF i
<1>4. ParseArguments(t) = [k \in 1..c |-> argument(k)]
  BY DEF ParseArguments
<1> HIDE DEF argument, c
<1> QED
  BY <1>2, <1>3, <1>4
-----------------------------------------------------------------------------
(***************************************************************************)
(* Plainly quoted words are read as they were typed.                       *)
(***************************************************************************)
\* An element with k elements up to it is the k-th.
LEMMA NthIs ==
  ASSUME NEW n \in Nat, NEW S, S \subseteq 1..n, NEW i \in S, NEW k \in Nat,
         Cardinality({j \in S : j <= i}) = k
  PROVE  Nth(S, k) = i
<1> DEFINE U(l) == {j \in S : j <= l}
<1>0. \A j \in S : j \in Int
  OBVIOUS
<1>1. \A l : IsFiniteSet(U(l)) /\ Cardinality(U(l)) \in Nat
  <2> SUFFICES ASSUME NEW l PROVE IsFiniteSet(U(l)) /\ Cardinality(U(l)) \in Nat
    OBVIOUS
  <2>1. U(l) \subseteq 1..n
    OBVIOUS
  <2>2. IsFiniteSet(1..n)
    BY FS_Interval
  <2> HIDE DEF U
  <2> QED
    BY <2>1, <2>2, FS_Subset, FS_CardinalityType
<1>2. ASSUME NEW a \in S, NEW b \in S, a < b PROVE Cardinality(U(a)) # Cardinality(U(b))
  <2>1. U(a) \subseteq U(b) /\ b \in U(b) /\ b \notin U(a)
    <3>1. ~(b <= a) /\ b <= b /\ \A j \in S : j <= a => j <= b
      BY <1>0, <1>2
    <3> QED
      BY <3>1
  <2> HIDE DEF U
  <2>2. U(a) # U(b)
    BY <2>1
  <2> QED
    BY <1>1, <2>1, <2>2, FS_Subset
<1>3. \A j \in S : Cardinality(U(j)) = k => j = i
  <2> HIDE DEF U
  <2>1. \A j \in S : j < i \/ i < j \/ j = i
    BY <1>0
  <2>2. Cardinality(U(i)) = k
    BY DEF U
  <2> QED
    BY <1>2, <2>1, <2>2
<1>4. Nth(S, k) = CHOOSE j \in S : Cardinality(U(j)) = k
  BY DEF Nth
<1>5. Cardinality(U(i)) = k
  OBVIOUS
<1> HIDE DEF U
<1> QED
  BY <1>3, <1>4, <1>5

\* The k-th number from a on.
LEMMA NthFrom ==
  ASSUME NEW a \in Nat \ {0}, NEW b \in Nat, NEW k \in 1..b - a + 1
  PROVE  Nth(a..b, k) = a + k - 1
<1> DEFINE i == a + k - 1
<1>1. i \in a..b /\ a..b \subseteq 1..b /\ k \in Nat
  OBVIOUS
<1>2. {j \in a..b : j <= i} = a..i
  OBVIOUS
<1>3. Cardinality(a..i) = k
  <2>1. a \in Int /\ i \in Int /\ i - a + 1 = k /\ a <= i
    OBVIOUS
  <2> HIDE DEF i
  <2> QED
    BY <2>1, FS_Interval
<1> HIDE DEF i
<1>4. Nth(a..b, k) = i
  BY <1>1, <1>2, <1>3, NthIs
<1> QED
  BY <1>4 DEF i

\* Two sets of positions of which one is the other in the same order.
SameOrder(S, T, f) ==
  /\ f \in [S -> T] /\ \A j \in T : \E i \in S : f[i] = j
  /\ \A i, j \in S : i < j => f[i] < f[j]

\* They are as large, and the k-th goes to the k-th.
KthToKth(S, T, f) ==
  /\ Cardinality(S) \in Nat /\ Cardinality(T) = Cardinality(S)
  /\ \A k \in 1..Cardinality(S) : Nth(S, k) \in S /\ Nth(T, k) = f[Nth(S, k)]

\* The same order takes the k-th to the k-th.
LEMMA InOrder ==
  ASSUME NEW n, NEW m, NEW S, NEW T, NEW f,
         n \in Nat /\ m \in Nat /\ S \subseteq 1..n /\ T \subseteq 1..m, SameOrder(S, T, f)
  PROVE  KthToKth(S, T, f)
<1>0. /\ f \in [S -> T] /\ \A j \in T : \E i \in S : f[i] = j
      /\ \A i, j \in S : i < j => f[i] < f[j]
      /\ \A i \in S : i \in Int /\ f[i] \in Int
  <2>1. f \in [S -> T] /\ \A i, j \in S : i < j => f[i] < f[j]
    BY DEF SameOrder
  <2>2. \A i \in S : f[i] \in T
    BY <2>1
  <2>3. \A j \in T : j \in Int
    OBVIOUS
  <2>4. \A i \in S : i \in Int
    OBVIOUS
  <2> QED
    BY <2>2, <2>3, <2>4 DEF SameOrder
<1>1. \A i, j \in S : (i <= j <=> f[i] <= f[j]) /\ (f[i] = f[j] => i = j)
  <2>1. \A i, j \in S : i < j \/ j < i \/ i = j
    BY <1>0
  <2> QED
    BY <1>0, <2>1
<1>2. ASSUME NEW A \in SUBSET S, NEW B \in SUBSET T, \A i \in S : i \in A <=> f[i] \in B
      PROVE  Cardinality(A) \in Nat /\ Cardinality(B) = Cardinality(A)
  <2> DEFINE g == [i \in A |-> f[i]]
  <2>1. g \in [A -> B]
    BY <1>0, <1>2
  <2>2. g \in Injection(A, B)
    <3>1. \A i, j \in A : g[i] = g[j] => i = j
      BY <1>1
    <3> HIDE DEF g
    <3> QED
      BY <2>1, <3>1 DEF Injection, IsInjective
  <2>3. g \in Surjection(A, B)
    <3>1. \A j \in B : \E i \in A : g[i] = j
      BY <1>0, <1>2
    <3> HIDE DEF g
    <3> QED
      BY <2>1, <3>1 DEF Surjection
  <2>4. ExistsBijection(A, B)
    BY <2>2, <2>3 DEF ExistsBijection, Bijection
  <2>5. IsFiniteSet(A)
    <3>1. A \subseteq 1..n /\ IsFiniteSet(1..n)
      BY FS_Interval
    <3> QED
      BY <3>1, FS_Subset
  <2> QED
    BY <2>4, <2>5, FS_Bijection, FS_CardinalityType
<1>3. Cardinality(S) \in Nat /\ Cardinality(T) = Cardinality(S)
  <2>1. S \in SUBSET S /\ T \in SUBSET T /\ \A i \in S : i \in S <=> f[i] \in T
    BY <1>0
  <2> QED
    BY <1>2, <2>1
<1>4. ASSUME NEW k \in 1..Cardinality(S) PROVE Nth(S, k) \in S /\ Nth(T, k) = f[Nth(S, k)]
  <2> DEFINE i == Nth(S, k)
  <2>1. i \in S /\ Cardinality({j \in S : j <= i}) = k
    BY NthCounts
  <2> HIDE DEF i
  <2>2. Cardinality({j \in T : j <= f[i]}) = k
    <3> DEFINE A == {j \in S : j <= i}
               B == {j \in T : j <= f[i]}
    <3>1. A \in SUBSET S /\ B \in SUBSET T
      OBVIOUS
    <3>2. \A l \in S : l \in A <=> f[l] \in B
      BY <1>0, <1>1, <2>1
    <3>3. Cardinality(A) = k
      BY <2>1
    <3> HIDE DEF A, B
    <3>4. Cardinality(B) = k
      BY <1>2, <3>1, <3>2, <3>3
    <3> QED
      BY <3>4 DEF B
  <2>3. f[i] \in T /\ k \in Nat
    BY <1>0, <1>3, <2>1
  <2>4. Nth(T, k) = f[i]
    BY <2>2, <2>3, NthIs
  <2> QED
    BY <2>1, <2>4 DEF i
<1> QED
  BY <1>3, <1>4 DEF KthToKth

\* FirstOf() finds the first element.
LEMMA FirstOfIsFirst ==
  ASSUME NEW S, S \subseteq Nat, NEW i \in Nat, \E j \in S : j >= i
  PROVE  /\ FirstOf(S, i) \in S /\ FirstOf(S, i) >= i
         /\ \A l \in S : l >= i => FirstOf(S, i) <= l
<1> DEFINE T == {j \in S : j >= i}
<1>1. PICK m \in T : \A l \in T : m <= l
  <2>1. T \subseteq Nat /\ T # {}
    OBVIOUS
  <2> HIDE DEF T
  <2> QED
    BY <2>1, LeastNatural, Zenon
<1> QED
  BY <1>1 DEF FirstOf

\* LastOf() finds the last element before a position, or 0.
LEMMA LastOfIs ==
  ASSUME NEW S, S \subseteq Nat \ {0}, NEW i \in Nat \ {0}, NEW m \in S \cup {0}, m < i,
         \A l \in S : ~(m < l /\ l < i)
  PROVE  LastOf(S, i) = m
<1>0. m \in Nat /\ \A l \in S : l \in Nat /\ l > 0
  OBVIOUS
<1>1. CASE m = 0
  <2>1. ~ \E j \in S : j < i
    BY <1>0, <1>1
  <2> QED
    BY <1>1, <2>1 DEF LastOf
<1>2. CASE m # 0
  <2> DEFINE P(j) == j < i /\ \A l \in S : l < i => l <= j
  <2>1. m \in S /\ P(m)
    BY <1>0, <1>2
  <2>2. \A j \in S : P(j) => j = m
    BY <1>0, <2>1
  <2>3. LastOf(S, i) = CHOOSE j \in S : P(j)
    BY <2>1 DEF LastOf
  <2> HIDE DEF P
  <2> QED
    BY <2>1, <2>2, <2>3
<1> QED
  BY <1>1, <1>2

\* The quote that is open behind a character.
Turn(c, open) == IF c \notin Quotes \/ open \notin {c, "none"} THEN open
                 ELSE IF open = "none" THEN c ELSE "none"

IsQuoting(t, q) ==
  /\ DOMAIN q = 1..Len(t) + 1 /\ q[1] = "none"
  /\ \A i \in 1..Len(t) : q[i + 1] = Turn(t[i], q[i])
  /\ \A i \in 1..Len(t) + 1 : q[i] \in {"none"} \cup Quotes

\* Quoting() is defined, and is the open quote in front of each character.
LEMMA QuotingIs ==
  ASSUME NEW Chars, NEW t \in Seq(Chars)
  PROVE  IsQuoting(t, Quoting(t))
<1> DEFINE n == Len(t)
           S == {"none"} \cup Quotes
           step(o, k) == Turn(t[k], o)
           Is(q) == q = [i \in 1..n + 1 |-> IF i = 1 THEN "none" ELSE step(q[i - 1], i - 1)]
<1>0. n \in Nat
  OBVIOUS
<1>1. \A o \in S : \A k : step(o, k) \in S
  BY DEF Turn
<1>2. PICK q : Is(q)
  <2> DEFINE g == [x \in S \X (1..n) |-> step(x[1], x[2])]
  <2>1. g \in [S \X (1..n) -> S]
    <3> HIDE DEF S, step
    <3> QED
      BY <1>1
  <2>2. Recursive(n, S, "none", g)
    <3> HIDE DEF g
    <3> QED
      BY <1>0, <2>1 DEF Recursive
  <2>3. PICK f : Unfolds(n, S, "none", g, f)
    <3> HIDE DEF n, S, g
    <3> QED
      BY <2>2, Recursion, Zenon
  <2>4. f \in [0..n -> S] /\ f[0] = "none" /\ \A k \in 1..n : f[k] = g[<<f[k - 1], k>>]
    <3> HIDE DEF g, S
    <3> QED
      BY <2>3 DEF Unfolds
  <2>5. \A k \in 1..n : f[k] = step(f[k - 1], k)
    <3> SUFFICES ASSUME NEW k \in 1..n PROVE f[k] = step(f[k - 1], k)
      OBVIOUS
    <3>1. <<f[k - 1], k>> \in S \X (1..n)
      <4>1. k - 1 \in 0..n
        BY <1>0
      <4> HIDE DEF S, g
      <4> QED
        BY <2>4, <4>1
    <3> HIDE DEF step, S
    <3>2. g[<<f[k - 1], k>>] = step(f[k - 1], k)
      BY <3>1
    <3> HIDE DEF g
    <3> QED
      BY <2>4, <3>2
  <2> DEFINE r == [i \in 1..n + 1 |-> f[i - 1]]
  <2>6. \A i \in 1..n + 1 : r[i] = IF i = 1 THEN "none" ELSE step(r[i - 1], i - 1)
    <3> SUFFICES ASSUME NEW i \in 1..n + 1
                 PROVE  r[i] = IF i = 1 THEN "none" ELSE step(r[i - 1], i - 1)
      OBVIOUS
    <3>1. CASE i = 1
      BY <2>4, <3>1
    <3>2. CASE i # 1
      <4>1. i - 1 \in 1..n /\ i - 1 \in 1..n + 1
        BY <1>0, <3>2
      <4>2. r[i] = f[i - 1] /\ r[i - 1] = f[(i - 1) - 1]
        BY <4>1
      <4>3. f[i - 1] = step(f[(i - 1) - 1], i - 1)
        BY <2>5, <4>1
      <4> HIDE DEF r, step
      <4> QED
        BY <3>2, <4>2, <4>3
    <3> QED
      BY <3>1, <3>2
  <2>7. r = [i \in 1..n + 1 |-> r[i]]
    OBVIOUS
  <2> HIDE DEF r, step
  <2>8. Is(r)
    BY <2>6, <2>7
  <2> QED
    BY <2>8
<1> DEFINE w == CHOOSE p : Is(p)
<1>3. Is(w)
  <2> HIDE DEF Is
  <2> QED
    BY <1>2, Zenon
<1>4. Quoting(t) = w
  BY DEF Quoting, Turn
<1>5. DOMAIN w = 1..n + 1 /\ \A i \in 1..n + 1 : w[i] = IF i = 1 THEN "none" ELSE step(w[i - 1], i - 1)
  <2> HIDE DEF w, step
  <2> QED
    BY <1>3
<1> HIDE DEF w, Is
<1>6. w[1] = "none" /\ 1 \in 1..n + 1
  BY <1>0, <1>5
<1>7. ASSUME NEW i \in 1..n PROVE w[i + 1] = Turn(t[i], w[i])
  <2>1. i + 1 \in 1..n + 1 /\ i + 1 # 1 /\ (i + 1) - 1 = i
    BY <1>0
  <2>2. w[i + 1] = step(w[i], i)
    <3> HIDE DEF step
    <3> QED
      BY <1>5, <2>1
  <2> QED
    BY <2>2
<1>8. \A i \in 1..n + 1 : w[i] \in S
  <2> DEFINE D == {i \in 0..n : w[i + 1] \in S}
  <2>1. 0 \in D
    BY <1>0, <1>6
  <2>2. ASSUME NEW k \in 0..n - 1, k \in D PROVE k + 1 \in D
    <3>1. k + 1 \in 0..n /\ k + 1 \in 1..n
      BY <1>0
    <3>2. w[(k + 1) + 1] = Turn(t[k + 1], w[k + 1])
      BY <1>7, <3>1
    <3>3. Turn(t[k + 1], w[k + 1]) \in S
      BY <1>1, <2>2
    <3> HIDE DEF S
    <3> QED
      BY <3>1, <3>2, <3>3
  <2>3. \A k \in 0..n : k \in D
    <3> HIDE DEF D, n
    <3> QED
      BY <1>0, <2>1, <2>2, Upwards
  <2> SUFFICES ASSUME NEW i \in 1..n + 1 PROVE w[i] \in S
    OBVIOUS
  <2>4. i - 1 \in 0..n /\ (i - 1) + 1 = i
    BY <1>0
  <2>5. i - 1 \in D
    BY <2>3, <2>4
  <2> HIDE DEF S
  <2> QED
    BY <2>4, <2>5
<1> QED
  BY <1>4, <1>5, <1>6, <1>7, <1>8 DEF IsQuoting

\* A plain text without bars, character by character.
PlainText(t, q) ==
  /\ IsQuoting(t, q) /\ q[Len(t) + 1] = "none"
  /\ \A i \in 1..Len(t) :
       /\ t[i] # Bar
       /\ t[i] \in Quotes /\ q[i] = "none" => i = 1 \/ t[i - 1] = Blank
       /\ t[i] \in Quotes /\ q[i] # "none" => q[i] = t[i] /\ (i = Len(t) \/ t[i + 1] = Blank)

\* strtok() cuts a plain line where a shell would, and each token is plain.
LEMMA TokensOfPlain ==
  ASSUME NEW Chars, NEW t \in Seq(Chars), Plain(t)
  PROVE  /\ Tokens(t) = Unquoted(t, Bar)
         /\ \A k \in 1..Len(Tokens(t)) : LET u == Tokens(t)[k]
                                         IN  u \in Seq(Chars) /\ PlainText(u, Quoting(u))
<1> DEFINE n == Len(t)
           q == Quoting(t)
           B == Bars(t)
           S == Starts(t, B)
           ends == B \cup {n + 1}
<1>0. /\ n \in Nat /\ DOMAIN t = 1..n /\ Bar \notin Quotes /\ "none" \notin Quotes /\ Blank \notin Quotes
      /\ Bar # Blank
  BY DEF Bar, Quotes, Blank
<1>1. /\ IsQuoting(t, q) /\ q[n + 1] = "none"
      /\ \A i \in 1..n :
           /\ t[i] \in Quotes /\ q[i] = "none" => (i - 1 \notin 1..n \/ t[i - 1] \in {Blank, Bar})
           /\ t[i] \in Quotes /\ q[i] # "none"
                => q[i] = t[i] /\ (i + 1 \notin 1..n \/ t[i + 1] \in {Blank, Bar})
           /\ t[i] = Bar => q[i] = "none"
  BY <1>0, QuotingIs DEF Plain
<1> HIDE DEF q
<1>2. B = {i \in DOMAIN t : t[i] = Bar /\ q[i] = "none"}
  BY <1>0, <1>1 DEF Bars
<1>3. Tokens(t) = Unquoted(t, Bar)
  BY <1>2 DEF Tokens, Unquoted, q
<1>4. ASSUME NEW k \in 1..Len(Tokens(t))
      PROVE  LET u == Tokens(t)[k] IN u \in Seq(Chars) /\ PlainText(u, Quoting(u))
  <2>1. S \subseteq 1..n /\ ends \subseteq Nat /\ n + 1 \in ends /\ \A e \in ends : e \in 1..n + 1
    BY <1>0 DEF Starts, Bars
  <2>2. Cardinality(S) \in Nat
    <3>1. IsFiniteSet(1..n)
      BY <1>0, FS_Interval
    <3> HIDE DEF S
    <3> QED
      BY <2>1, <3>1, FS_Subset, FS_CardinalityType
  <2> DEFINE a == Nth(S, k)
             b == FirstOf(ends, a) - 1
             u == SubSeq(t, a, b)
  <2>3. k \in 1..Cardinality(S) /\ Tokens(t)[k] = u
    <3> DEFINE p(l) == SubSeq(t, Nth(S, l), FirstOf(ends, Nth(S, l)) - 1)
    <3>1. Tokens(t) = [l \in 1..Cardinality(S) |-> p(l)]
      BY DEF Tokens, Pieces
    <3>2. p(k) = u
      OBVIOUS
    <3> HIDE DEF p, S, u
    <3> QED
      BY <2>2, <3>1, <3>2
  <2>4. a \in S /\ a \in 1..n
    <3> HIDE DEF S
    <3> QED
      BY <1>0, <2>1, <2>3, NthIsIn
  <2>5. /\ b + 1 \in ends /\ b + 1 >= a /\ \A l \in ends : l >= a => b + 1 <= l
        /\ b \in Int /\ b + 1 \in 1..n + 1
    <3>1. a \in Nat /\ n + 1 >= a
      BY <2>4
    <3> DEFINE e == FirstOf(ends, a)
    <3>2. e \in ends /\ e >= a /\ \A l \in ends : l >= a => e <= l
      <4> HIDE DEF ends, a, e
      <4>1. e = FirstOf(ends, a)
        BY DEF e
      <4> QED
        BY <2>1, <3>1, <4>1, FirstOfIsFirst
    <3>3. e \in 1..n + 1
      BY <2>1, <3>2
    <3>4. b = e - 1
      OBVIOUS
    <3> HIDE DEF e, ends, a, b
    <3>5. b + 1 = e /\ b \in Int
      BY <3>3, <3>4
    <3> QED
      BY <3>2, <3>3, <3>5
  <2>6. a \notin ends
    BY <1>0, <2>4 DEF Starts
  <2>7. a <= b
    <3> HIDE DEF ends, a, b
    <3> QED
      BY <2>4, <2>5, <2>6
  <2> DEFINE m == b - a + 1
  <2>8. /\ u \in Seq(Chars) /\ Len(u) = m /\ m \in Nat \ {0}
        /\ \A i \in 1..m : u[i] = t[a + i - 1] /\ a + i - 1 \in 1..n
    <3> HIDE DEF a, b
    <3>1. b \in 1..n
      BY <2>4, <2>5, <2>7
    <3> QED
      BY <2>4, <2>7, <3>1
  <2>9. ASSUME NEW i \in 1..m PROVE u[i] # Bar
    <3>1. a + i - 1 \in 1..n /\ u[i] = t[a + i - 1]
      BY <2>8, <2>9
    <3>2. a + i - 1 >= a /\ a + i - 1 < b + 1
      <4> HIDE DEF a, b
      <4> QED
        BY <2>4, <2>5
    <3>3. a + i - 1 \notin ends
      <4> HIDE DEF a, b, ends
      <4> QED
        BY <2>4, <2>5, <3>1, <3>2
    <3> QED
      BY <1>0, <3>1, <3>3 DEF Bars
  <2> DEFINE v == Quoting(u)
  <2>10. IsQuoting(u, v)
    <3> HIDE DEF u, a
    <3> QED
      BY <2>8, QuotingIs DEF u
  <2> HIDE DEF v, u
  <2>11. q[a] = "none"
    <3>1. CASE a = 1
      BY <1>1, <3>1 DEF IsQuoting
    <3>2. CASE a # 1
      <4>1. a - 1 \in B /\ a - 1 \in 1..n
        BY <2>4, <3>2 DEF Starts, Bars
      <4>2. t[a - 1] = Bar /\ q[a - 1] = "none"
        BY <1>2, <4>1
      <4>3. q[(a - 1) + 1] = Turn(t[a - 1], q[a - 1])
        BY <1>1, <4>1 DEF IsQuoting
      <4>4. (a - 1) + 1 = a
        BY <4>1, <2>4
      <4> HIDE DEF a
      <4> QED
        BY <1>0, <4>2, <4>3, <4>4 DEF Turn
    <3> QED
      BY <3>1, <3>2
  <2> HIDE DEF a, b
  <2>12. \A i \in 1..m + 1 : v[i] = q[a + i - 1]
    <3> DEFINE D == {i \in 0..m : v[i + 1] = q[a + i]}
    <3>0. m \in Nat
      BY <2>8
    <3> HIDE DEF m
    <3>1. 0 \in D
      <4>1. a + 0 = a /\ 0 + 1 = 1 /\ 0 \in 0..m
        BY <2>4, <3>0
      <4> QED
        BY <2>10, <2>11, <4>1 DEF IsQuoting
    <3>2. ASSUME NEW i \in 0..m - 1, i \in D PROVE i + 1 \in D
      <4>1. i + 1 \in 1..m /\ i + 1 \in 0..m /\ a + (i + 1) - 1 = a + i /\ a + (i + 1) = (a + i) + 1
        BY <2>4, <3>0
      <4>2. u[i + 1] = t[a + i] /\ a + i \in 1..n
        BY <2>8, <4>1
      <4>3. v[(i + 1) + 1] = Turn(u[i + 1], v[i + 1])
        BY <2>8, <2>10, <4>1 DEF IsQuoting
      <4>4. q[(a + i) + 1] = Turn(t[a + i], q[a + i])
        BY <1>1, <4>2 DEF IsQuoting
      <4> QED
        BY <3>2, <4>1, <4>2, <4>3, <4>4
    <3>3. \A i \in 0..m : i \in D
      <4> HIDE DEF D
      <4> QED
        BY <3>0, <3>1, <3>2, Upwards
    <3> SUFFICES ASSUME NEW i \in 1..m + 1 PROVE v[i] = q[a + i - 1]
      OBVIOUS
    <3>4. i - 1 \in 0..m /\ (i - 1) + 1 = i /\ a + (i - 1) = a + i - 1
      BY <2>4, <3>0
    <3>5. i - 1 \in D
      BY <3>3, <3>4
    <3> QED
      BY <3>4, <3>5
  <2>13. v[m + 1] = "none"
    <3>1. a + (m + 1) - 1 = b + 1 /\ m + 1 \in 1..m + 1
      BY <2>4, <2>5, <2>8
    <3>2. v[m + 1] = q[b + 1]
      BY <2>12, <3>1
    <3>3. CASE b + 1 = n + 1
      BY <1>1, <3>2, <3>3
    <3>4. CASE b + 1 \in B
      BY <1>2, <3>2, <3>4
    <3> QED
      BY <2>5, <3>3, <3>4
  <2>14. ASSUME NEW i \in 1..m
         PROVE  /\ u[i] \in Quotes /\ v[i] = "none" => i = 1 \/ u[i - 1] = Blank
                /\ u[i] \in Quotes /\ v[i] # "none" => v[i] = u[i] /\ (i = m \/ u[i + 1] = Blank)
    <3> DEFINE j == a + i - 1
    <3>1. j \in 1..n /\ u[i] = t[j] /\ v[i] = q[j]
      <4>1. i \in 1..m + 1
        BY <2>8
      <4> QED
        BY <2>8, <2>12, <4>1
    <3>2. i # 1 => i - 1 \in 1..m /\ j - 1 \in 1..n /\ u[i - 1] = t[j - 1]
      <4> SUFFICES ASSUME i # 1 PROVE i - 1 \in 1..m /\ j - 1 \in 1..n /\ u[i - 1] = t[j - 1]
        OBVIOUS
      <4>1. i - 1 \in 1..m /\ a + (i - 1) - 1 = j - 1
        BY <2>4, <2>8
      <4> HIDE DEF j
      <4> QED
        BY <2>8, <4>1
    <3>3. i # m => i + 1 \in 1..m /\ j + 1 \in 1..n /\ u[i + 1] = t[j + 1]
      <4> SUFFICES ASSUME i # m PROVE i + 1 \in 1..m /\ j + 1 \in 1..n /\ u[i + 1] = t[j + 1]
        OBVIOUS
      <4>1. i + 1 \in 1..m /\ a + (i + 1) - 1 = j + 1
        BY <2>4, <2>8
      <4> HIDE DEF j
      <4> QED
        BY <2>8, <4>1
    <3> HIDE DEF j, m
    <3> QED
      BY <1>1, <2>9, <3>1, <3>2, <3>3
  <2>15. PlainText(u, v)
    <3> HIDE DEF m
    <3> QED
      BY <2>8, <2>9, <2>10, <2>13, <2>14 DEF PlainText
  <2> QED
    BY <2>3, <2>8, <2>15 DEF v
<1> QED
  BY <1>3, <1>4

\* The flag of parse_arguments() is up exactly where a quote is open.
LEMMA InQuotes ==
  ASSUME NEW Chars, NEW t \in Seq(Chars), NEW q, PlainText(t, q)
  PROVE  \A i \in 1..Len(t) + 1 : in_quotes(t, i) <=> q[i] # "none"
<1> DEFINE n == Len(t)
           D == {k \in 0..n : in_quotes(t, k + 1) <=> q[k + 1] # "none"}
<1>0. n \in Nat /\ "none" \notin Quotes
  BY DEF Quotes
<1>1. 0 \in D
  <2>1. ~in_quotes(t, 1)
    <3>1. {j \in DOMAIN t : j < 1 /\ t[j] \in Quotes} = {}
      OBVIOUS
    <3>2. Cardinality({j \in DOMAIN t : j < 1 /\ t[j] \in Quotes}) = 0
      BY <3>1, FS_EmptySet, Zenon
    <3> QED
      BY <3>2 DEF in_quotes
  <2>2. q[1] = "none" /\ 0 + 1 = 1 /\ 0 \in 0..n
    BY <1>0 DEF PlainText, IsQuoting
  <2> QED
    BY <2>1, <2>2
<1>2. ASSUME NEW k \in 0..n - 1, k \in D PROVE k + 1 \in D
  <2> DEFINE i == k + 1
  <2>1. i \in 1..n /\ i \in 0..n /\ i \in 1..Len(t)
    BY <1>0
  <2> HIDE DEF i
  <2>2. in_quotes(t, i + 1) <=> (in_quotes(t, i) <=> t[i] \notin Quotes)
    BY <2>1, Parity
  <2>3. q[i + 1] = Turn(t[i], q[i])
    BY <2>1 DEF PlainText, IsQuoting
  <2>4. t[i] \in Quotes /\ q[i] # "none" => q[i] = t[i]
    BY <2>1 DEF PlainText
  <2>5. in_quotes(t, i) <=> q[i] # "none"
    BY <1>2 DEF i
  <2>6. in_quotes(t, i + 1) <=> q[i + 1] # "none"
    BY <1>0, <2>2, <2>3, <2>4, <2>5 DEF Turn
  <2> QED
    BY <2>1, <2>6 DEF i
<1>3. \A k \in 0..n : k \in D
  <2> HIDE DEF D, n
  <2> QED
    BY <1>0, <1>1, <1>2, Upwards
<1> SUFFICES ASSUME NEW i \in 1..n + 1 PROVE in_quotes(t, i) <=> q[i] # "none"
  OBVIOUS
<1>4. i - 1 \in 0..n /\ (i - 1) + 1 = i
  BY <1>0
<1>5. i - 1 \in D
  BY <1>3, <1>4
<1> QED
  BY <1>4, <1>5

\* Where a word of a plain text begins and ends.
Gaps(t, q) == {i \in DOMAIN t : t[i] = Blank /\ q[i] = "none"}
After(t, q, s) == FirstOf(Gaps(t, q) \cup {Len(t) + 1}, s)

\* It is without quotes, or all of it is between two of them.
Word(t, q, s, f) ==
  /\ t[s] \notin Quotes => \A i \in s..f - 1 : q[i] = "none" /\ t[i] \notin Quotes /\ t[i] # Blank
  /\ t[s] \in Quotes => /\ s < f - 1 /\ t[f - 1] \in Quotes
                        /\ \A i \in s + 1..f - 1 : q[i] # "none"
                        /\ \A i \in s + 1..f - 2 : t[i] \notin Quotes

\* Words end at the first gap or at the end.
LEMMA WordEnds ==
  ASSUME NEW Chars, NEW t \in Seq(Chars), NEW q, NEW s \in Starts(t, Gaps(t, q))
  PROVE  /\ s \in 1..Len(t) /\ s \notin Gaps(t, q) /\ (s = 1 \/ s - 1 \in Gaps(t, q))
         /\ After(t, q, s) \in s + 1..Len(t) + 1
         /\ After(t, q, s) = Len(t) + 1 \/ After(t, q, s) \in Gaps(t, q)
         /\ \A l \in Gaps(t, q) : l >= s => After(t, q, s) <= l
<1> DEFINE B == Gaps(t, q)
           n == Len(t)
           ends == B \cup {n + 1}
           f == FirstOf(ends, s)
<1>1. n \in Nat /\ s \in 1..n /\ s \notin B /\ (s = 1 \/ s - 1 \in B) /\ B \subseteq 1..n
  BY DEF Starts, Gaps
<1>2. f = After(t, q, s)
  BY DEF After
<1> HIDE DEF B, n
<1>3. f \in ends /\ f >= s /\ \A l \in ends : l >= s => f <= l
  <2>1. ends \subseteq Nat /\ s \in Nat /\ n + 1 \in ends /\ n + 1 >= s
    BY <1>1
  <2> DEFINE g == FirstOf(ends, s)
  <2> HIDE DEF ends
  <2>2. g \in ends /\ g >= s /\ \A l \in ends : l >= s => g <= l
    BY <2>1, FirstOfIsFirst
  <2> QED
    BY <2>2
<1> HIDE DEF f
<1>4. f \in s + 1..n + 1
  BY <1>1, <1>3
<1> QED
  BY <1>1, <1>2, <1>3, <1>4 DEF B, n

\* No quote is open where a word begins.
LEMMA WordsArePlain ==
  ASSUME NEW Chars, NEW t \in Seq(Chars), NEW q, PlainText(t, q), NEW s \in Starts(t, Gaps(t, q))
  PROVE  Word(t, q, s, After(t, q, s)) /\ q[s] = "none"
<1> DEFINE B == Gaps(t, q)
           n == Len(t)
           f == After(t, q, s)
<1>0. /\ n \in Nat /\ "none" \notin Quotes /\ Blank \notin Quotes /\ DOMAIN t = 1..n
      /\ \A i : i \in B <=> i \in 1..n /\ t[i] = Blank /\ q[i] = "none"
  <2>1. n \in Nat /\ DOMAIN t = 1..n
    OBVIOUS
  <2>2. "none" \notin Quotes /\ Blank \notin Quotes
    BY DEF Quotes, Blank
  <2>3. \A i : i \in B <=> i \in 1..n /\ t[i] = Blank /\ q[i] = "none"
    BY <2>1, Zenon DEF Gaps
  <2> QED
    BY <2>1, <2>2, <2>3
<1>1. /\ s \in 1..n /\ s \notin B /\ (s = 1 \/ s - 1 \in B)
      /\ f \in s + 1..n + 1 /\ (f = n + 1 \/ f \in B)
      /\ \A l \in B : l >= s => f <= l
  BY WordEnds
<1>2. /\ q[1] = "none" /\ q[n + 1] = "none"
      /\ \A i \in 1..n :
           /\ q[i + 1] = Turn(t[i], q[i]) /\ t[i] # Bar
           /\ t[i] \in Quotes /\ q[i] = "none" => i = 1 \/ t[i - 1] = Blank
           /\ t[i] \in Quotes /\ q[i] # "none" => q[i] = t[i] /\ (i = n \/ t[i + 1] = Blank)
  BY DEF PlainText, IsQuoting
<1> HIDE DEF B, f, n
<1>3. q[s] = "none"
  <2>1. CASE s = 1
    BY <1>2, <2>1
  <2>2. CASE s # 1
    <3>1. s - 1 \in 1..n /\ t[s - 1] = Blank /\ q[s - 1] = "none"
      BY <1>0, <1>1, <2>2
    <3>2. q[(s - 1) + 1] = Turn(t[s - 1], q[s - 1]) /\ (s - 1) + 1 = s
      BY <1>1, <1>2, <3>1
    <3> QED
      BY <1>0, <3>1, <3>2 DEF Turn
  <2> QED
    BY <2>1, <2>2
<1>4. ASSUME t[s] \notin Quotes
      PROVE  \A i \in s..f - 1 : q[i] = "none" /\ t[i] \notin Quotes /\ t[i] # Blank
  <2> DEFINE m == f - 1 - s
             D == {k \in 0..m : q[s + k] = "none" /\ t[s + k] \notin Quotes}
  <2>1. m \in Nat /\ s + m = f - 1
    BY <1>1
  <2> HIDE DEF m
  <2>2. 0 \in D
    <3>1. s + 0 = s /\ 0 \in 0..m
      BY <1>1, <2>1
    <3> QED
      BY <1>3, <1>4, <3>1
  <2>3. ASSUME NEW k \in 0..m - 1, k \in D PROVE k + 1 \in D
    <3> DEFINE i == s + k
    <3>1. /\ i \in 1..n /\ i + 1 \in 1..n /\ i >= s /\ i < f /\ s + (k + 1) = i + 1 /\ k + 1 \in 0..m
          /\ (i + 1) - 1 = i /\ i + 1 # 1
      BY <1>0, <1>1, <2>1
    <3>2. q[i] = "none" /\ t[i] \notin Quotes
      BY <2>3
    <3> HIDE DEF i
    <3>3. q[i + 1] = "none"
      BY <1>2, <3>1, <3>2 DEF Turn
    <3>4. t[i] # Blank
      <4>1. i \notin B
        BY <1>1, <3>1
      <4> QED
        BY <1>0, <3>1, <3>2, <4>1
    <3>5. t[i + 1] \notin Quotes
      BY <1>2, <3>1, <3>3, <3>4
    <3> QED
      BY <3>1, <3>3, <3>5
  <2>4. \A k \in 0..m : k \in D
    <3> HIDE DEF D
    <3> QED
      BY <2>1, <2>2, <2>3, Upwards
  <2> SUFFICES ASSUME NEW i \in s..f - 1 PROVE q[i] = "none" /\ t[i] \notin Quotes /\ t[i] # Blank
    OBVIOUS
  <2>5. i - s \in 0..m /\ s + (i - s) = i /\ i \in 1..n /\ i >= s /\ i < f
    BY <1>0, <1>1, <2>1
  <2>6. q[i] = "none" /\ t[i] \notin Quotes
    <3>1. i - s \in D
      BY <2>4, <2>5
    <3> QED
      BY <2>5, <3>1
  <2>7. i \notin B
    BY <1>1, <2>5
  <2> QED
    BY <1>0, <2>5, <2>6, <2>7
<1>5. ASSUME t[s] \in Quotes
      PROVE  /\ s < f - 1 /\ t[f - 1] \in Quotes
             /\ \A i \in s + 1..f - 1 : q[i] # "none"
             /\ \A i \in s + 1..f - 2 : t[i] \notin Quotes
  <2>1. q[s + 1] = t[s] /\ q[s + 1] # "none"
    BY <1>0, <1>1, <1>2, <1>3, <1>5 DEF Turn
  <2> DEFINE C == {i \in s + 1..n : q[i + 1] = "none"}
  <2>2. n \in C
    <3>1. s + 1 # n + 1
      BY <1>2, <2>1
    <3>2. n \in s + 1..n
      BY <1>0, <1>1, <3>1
    <3> QED
      BY <1>2, <3>2
  <2>3. PICK c \in C : \A i \in C : c <= i
    <3>1. C \subseteq Nat
      BY <1>1
    <3> HIDE DEF C
    <3> QED
      BY <2>2, <3>1, LeastNatural
  <2>4. c \in s + 1..n /\ c \in 1..n /\ c + 1 \in s + 1..n + 1 /\ q[c + 1] = "none"
    BY <1>0, <1>1, <2>3
  <2>5. ASSUME NEW i \in s + 1..c PROVE q[i] # "none"
    <3>1. CASE i = s + 1
      BY <2>1, <3>1
    <3>2. CASE i # s + 1
      <4>1. i - 1 \in s + 1..n /\ ~(c <= i - 1) /\ (i - 1) + 1 = i
        BY <1>0, <1>1, <2>4, <3>2
      <4>2. i - 1 \notin C
        BY <2>3, <4>1
      <4> QED
        BY <4>1, <4>2
    <3> QED
      BY <3>1, <3>2
  <2>6. q[c] # "none" /\ t[c] \in Quotes
    <3>1. q[c] # "none"
      BY <2>4, <2>5
    <3>2. q[c + 1] = Turn(t[c], q[c])
      BY <1>2, <2>4
    <3> QED
      BY <2>4, <3>1, <3>2 DEF Turn
  <2>7. ASSUME NEW i \in s + 1..c - 1 PROVE t[i] \notin Quotes
    <3>1. i \in 1..n /\ i \in s + 1..c /\ i + 1 \in s + 1..c
      BY <1>0, <1>1, <2>4
    <3>2. q[i] # "none" /\ q[i + 1] # "none"
      BY <2>5, <3>1
    <3>3. q[i + 1] = Turn(t[i], q[i])
      BY <1>2, <3>1
    <3>4. t[i] \in Quotes => q[i] = t[i]
      BY <1>2, <3>1, <3>2
    <3> QED
      BY <3>2, <3>3, <3>4 DEF Turn
  <2>8. f = c + 1
    <3>1. c + 1 = n + 1 \/ c + 1 \in B
      <4> SUFFICES ASSUME c # n PROVE c + 1 \in B
        OBVIOUS
      <4>1. c + 1 \in 1..n
        BY <1>0, <1>1, <2>4
      <4>2. t[c + 1] = Blank
        BY <1>2, <2>4, <2>6
      <4> QED
        BY <1>0, <2>4, <4>1, <4>2
    <3>2. f <= c + 1
      <4>1. c + 1 >= s
        BY <1>1, <2>4
      <4> QED
        BY <1>1, <3>1, <4>1
    <3>3. f > c
      <4> SUFFICES ASSUME f <= c PROVE FALSE
        BY <1>1, <2>4
      <4>1. f \in s + 1..c /\ f # n + 1
        BY <1>0, <1>1, <2>4
      <4>2. f \in B /\ q[f] = "none"
        BY <1>0, <1>1, <4>1
      <4> QED
        BY <2>5, <4>1, <4>2
    <3> QED
      BY <1>1, <2>4, <3>2, <3>3
  <2>9. f - 1 = c /\ f - 2 = c - 1 /\ s < c
    BY <1>1, <2>4, <2>8
  <2> QED
    BY <2>5, <2>6, <2>7, <2>9
<1> QED
  BY <1>3, <1>4, <1>5 DEF Word, f

\* A word without the quotes around it.
LEMMA BareWord ==
  ASSUME NEW Chars, NEW t \in Seq(Chars), NEW q, NEW s \in 1..Len(t), NEW f \in s + 1..Len(t) + 1,
         Word(t, q, s, f)
  PROVE  Bare(SubSeq(t, s, f - 1)) = IF t[s] \in Quotes THEN SubSeq(t, s + 1, f - 2)
                                     ELSE SubSeq(t, s, f - 1)
<1> DEFINE w == SubSeq(t, s, f - 1)
           m == f - s
           kept == {i \in DOMAIN w : w[i] \notin Quotes}
           c == Cardinality(kept)
<1>1. /\ w \in Seq(Chars) /\ Len(w) = m /\ DOMAIN w = 1..m /\ m \in Nat \ {0}
      /\ \A i \in 1..m : w[i] = t[s + i - 1]
  <2>1. s \in Int /\ f - 1 \in 1..Len(t) /\ s <= f - 1 /\ s >= 1
    OBVIOUS
  <2>2. m \in Nat \ {0} /\ (f - 1) - s + 1 = m
    OBVIOUS
  <2>3. w \in Seq(Chars) /\ Len(w) = (f - 1) - s + 1
        /\ \A i \in 1..(f - 1) - s + 1 : w[i] = t[s + i - 1]
    BY <2>1
  <2> HIDE DEF w, m
  <2> QED
    BY <2>2, <2>3
<1> HIDE DEF w
<1>2. Bare(w) = [k \in 1..c |-> w[Nth(kept, k)]]
  BY DEF Bare
<1>3. CASE t[s] \notin Quotes
  <2>1. kept = 1..m
    <3>1. \A i \in 1..m : w[i] \notin Quotes
      <4> SUFFICES ASSUME NEW i \in 1..m PROVE w[i] \notin Quotes
        OBVIOUS
      <4>1. s + i - 1 \in s..f - 1
        BY <1>1
      <4>2. t[s + i - 1] \notin Quotes
        BY <1>3, <4>1 DEF Word
      <4> QED
        BY <1>1, <4>2
    <3> QED
      BY <1>1, <3>1
  <2>2. c = m /\ \A k \in 1..m : Nth(kept, k) = k
    <3>1. c = m
      <4>1. 1 \in Int /\ m \in Int /\ m >= 1
        BY <1>1
      <4> HIDE DEF m
      <4>2. Cardinality(1..m) = m
        BY <4>1, FS_Interval
      <4> QED
        BY <2>1, <4>2
    <3>2. ASSUME NEW k \in 1..m PROVE Nth(kept, k) = k
      <4>1. 1 \in Nat \ {0} /\ m \in Nat /\ k \in 1..m - 1 + 1 /\ 1 + k - 1 = k
        BY <1>1
      <4>2. Nth(1..m, k) = 1 + k - 1
        BY <4>1, NthFrom
      <4> QED
        BY <2>1, <4>1, <4>2
    <3> QED
      BY <3>1, <3>2
  <2>3. Bare(w) = [k \in 1..m |-> w[k]]
    <3> HIDE DEF c, kept, m
    <3> QED
      BY <1>2, <2>2
  <2>4. w = [k \in 1..m |-> w[k]]
    BY <1>1
  <2> QED
    BY <1>3, <2>3, <2>4 DEF w
<1>4. CASE t[s] \in Quotes
  <2>0. /\ s < f - 1 /\ t[f - 1] \in Quotes /\ \A i \in s + 1..f - 2 : t[i] \notin Quotes
        /\ m - 1 \in Nat
    BY <1>4 DEF Word
  <2>1. kept = 2..m - 1
    <3>1. \A i \in 2..m - 1 : i \in 1..m /\ w[i] \notin Quotes
      <4> SUFFICES ASSUME NEW i \in 2..m - 1 PROVE i \in 1..m /\ w[i] \notin Quotes
        OBVIOUS
      <4>1. s + i - 1 \in s + 1..f - 2 /\ i \in 1..m
        BY <1>1
      <4>2. t[s + i - 1] \notin Quotes
        BY <2>0, <4>1
      <4> QED
        BY <1>1, <4>1, <4>2
    <3>2. w[1] \in Quotes /\ w[m] \in Quotes
      <4>1. 1 \in 1..m /\ m \in 1..m /\ s + 1 - 1 = s /\ s + m - 1 = f - 1
        BY <1>1
      <4>2. w[1] = t[s + 1 - 1] /\ w[m] = t[s + m - 1]
        BY <1>1, <4>1
      <4> HIDE DEF m
      <4> QED
        BY <1>4, <2>0, <4>1, <4>2
    <3>3. \A i \in 1..m : i = 1 \/ i = m \/ i \in 2..m - 1
      BY <1>1
    <3> HIDE DEF m
    <3> QED
      BY <1>1, <3>1, <3>2, <3>3
  <2>2. c = m - 2 /\ \A k \in 1..m - 2 : Nth(kept, k) = k + 1
    <3>0. 2 \in Nat \ {0} /\ m - 1 \in Nat /\ m - 1 - 2 + 1 = m - 2
      BY <2>0
    <3>1. c = m - 2
      <4>1. m >= 2 /\ m \in Nat
        BY <2>0
      <4> HIDE DEF m
      <4>2. Cardinality(2..m - 1) = m - 2
        <5>1. CASE m = 2
          <6>1. 2..m - 1 = {}
            BY <5>1
          <6> QED
            BY <5>1, <6>1, FS_EmptySet
        <5>2. CASE m # 2
          <6>1. 2 \in Int /\ m - 1 \in Int /\ m - 1 >= 2 /\ m - 1 - 2 + 1 = m - 2
            BY <4>1, <5>2
          <6> QED
            BY <6>1, FS_Interval
        <5> QED
          BY <5>1, <5>2
      <4> QED
        BY <2>1, <4>2
    <3>2. ASSUME NEW k \in 1..m - 2 PROVE Nth(kept, k) = k + 1
      <4>1. k \in 1..m - 1 - 2 + 1 /\ 2 + k - 1 = k + 1
        BY <3>0
      <4>2. Nth(2..m - 1, k) = 2 + k - 1
        <5> HIDE DEF m
        <5> QED
          BY <3>0, <4>1, NthFrom
      <4> QED
        BY <2>1, <4>1, <4>2
    <3> QED
      BY <3>1, <3>2
  <2>3. Bare(w) = [k \in 1..m - 2 |-> w[k + 1]]
    <3> HIDE DEF c, kept, m
    <3> QED
      BY <1>2, <2>2
  <2> DEFINE u == SubSeq(t, s + 1, f - 2)
  <2>4. /\ u \in Seq(Chars) /\ Len(u) = m - 2 /\ \A k \in 1..m - 2 : u[k] = t[(s + 1) + k - 1]
    BY <2>0
  <2>5. u = [k \in 1..m - 2 |-> u[k]]
    <3> HIDE DEF u, m
    <3> QED
      BY <2>4
  <2>6. \A k \in 1..m - 2 : u[k] = w[k + 1]
    <3> SUFFICES ASSUME NEW k \in 1..m - 2 PROVE u[k] = w[k + 1]
      OBVIOUS
    <3>1. k + 1 \in 1..m /\ s + (k + 1) - 1 = (s + 1) + k - 1
      BY <1>1
    <3> HIDE DEF u, m
    <3> QED
      BY <1>1, <2>4, <3>1
  <2>7. Bare(w) = u
    <3> HIDE DEF u, m
    <3> QED
      BY <2>3, <2>5, <2>6
  <2> QED
    BY <1>4, <2>7 DEF w
<1> QED
  BY <1>3, <1>4

\* Each position that is no gap is in a word.
LEMMA InWord ==
  ASSUME NEW Chars, NEW t \in Seq(Chars), NEW q, NEW i \in 1..Len(t), i \notin Gaps(t, q)
  PROVE  \E s \in Starts(t, Gaps(t, q)) : s <= i /\ i < After(t, q, s)
<1> DEFINE B == Gaps(t, q)
           n == Len(t)
           D == {s \in 1..i : \A l \in s..i : l \notin B}
<1>1. n \in Nat /\ B \subseteq 1..n /\ DOMAIN t = 1..n
  BY DEF Gaps
<1>2. PICK s \in D : \A l \in D : s <= l
  <2>1. i \in D /\ D \subseteq Nat
    OBVIOUS
  <2> HIDE DEF D
  <2> QED
    BY <2>1, LeastNatural
<1>3. s \in 1..n /\ s <= i /\ \A l \in s..i : l \notin B
  OBVIOUS
<1>4. s \in Starts(t, B)
  <2>1. s \notin B
    BY <1>3
  <2>2. s = 1 \/ s - 1 \in B
    <3> SUFFICES ASSUME s # 1, s - 1 \notin B PROVE FALSE
      OBVIOUS
    <3>1. s - 1 \in 1..i /\ ~(s <= s - 1) /\ \A l \in s - 1..i : l = s - 1 \/ l \in s..i
      BY <1>3
    <3>2. s - 1 \in D
      BY <1>3, <3>1
    <3> QED
      BY <1>2, <3>1, <3>2
  <2> QED
    BY <1>1, <1>3, <2>1, <2>2 DEF Starts
<1> DEFINE f == After(t, q, s)
<1>5. f \in s + 1..n + 1 /\ (f = n + 1 \/ f \in B)
  BY <1>4, WordEnds
<1> HIDE DEF f, D, B
<1>6. i < f
  <2> SUFFICES ASSUME f <= i PROVE FALSE
    BY <1>5
  <2>1. f \in s..i /\ f # n + 1
    BY <1>1, <1>3, <1>5
  <2> QED
    BY <1>3, <1>5, <2>1
<1> QED
  BY <1>3, <1>4, <1>6 DEF B, f

\* Where the argument of a word ends, and where parse_arguments() has it begin.
EndOf(t, q, s)   == IF t[s] \in Quotes THEN After(t, q, s) - 1 ELSE After(t, q, s)
StartOf(t, s)    == IF t[s] \in Quotes THEN s + 1 ELSE s

\* The marks of a plain text are its quotes and its gaps.
LEMMA MarksOfPlain ==
  ASSUME NEW Chars, NEW t \in Seq(Chars), NEW q, PlainText(t, q)
  PROVE  /\ Marks(t) \subseteq 1..Len(t) /\ Blank \notin Quotes
         /\ \A i \in 1..Len(t) : i \in Marks(t) <=> t[i] \in Quotes \/ i \in Gaps(t, q)
<1>1. Blank \notin Quotes
  BY DEF Blank, Quotes
<1>2. \A i \in 1..Len(t) : i \in 1..Len(t) + 1
  OBVIOUS
<1>3. \A i \in 1..Len(t) : in_quotes(t, i) <=> q[i] # "none"
  BY <1>2, InQuotes
<1>4. DOMAIN t = 1..Len(t)
  OBVIOUS
<1> QED
  BY <1>1, <1>3, <1>4 DEF Marks, Gaps

\* Each word makes an argument.
LEMMA WordEndsArgument ==
  ASSUME NEW Chars, NEW t \in Seq(Chars), NEW q, PlainText(t, q), NEW s \in Starts(t, Gaps(t, q))
  PROVE  /\ EndOf(t, q, s) \in ArgumentEnds(t)
         /\ arg_start(t, EndOf(t, q, s)) = StartOf(t, s)
<1> DEFINE B == Gaps(t, q)
           M == Marks(t)
           n == Len(t)
           f == After(t, q, s)
           e == EndOf(t, q, s)
<1>1. /\ s \in 1..n /\ s \notin B /\ (s = 1 \/ s - 1 \in B)
      /\ f \in s + 1..n + 1 /\ (f = n + 1 \/ f \in B)
      /\ \A l \in B : l >= s => f <= l
  BY WordEnds
<1>2. Word(t, q, s, f)
  BY WordsArePlain
<1>3. /\ M \subseteq 1..n /\ Blank \notin Quotes
      /\ \A i \in 1..n : i \in M <=> t[i] \in Quotes \/ i \in B
  BY MarksOfPlain
<1>4. n \in Nat /\ \A i \in B : i \in 1..n /\ t[i] = Blank /\ q[i] = "none"
  BY DEF Gaps
<1>5. M \subseteq Nat \ {0}
  BY <1>3
<1> HIDE DEF B, n, f, M
<1>6. CASE t[s] \notin Quotes
  <2>1. e = f
    BY <1>6 DEF EndOf, f
  <2>2. \A l \in M : ~(s - 1 < l /\ l < f)
    <3> SUFFICES ASSUME NEW l \in M, s - 1 < l, l < f PROVE FALSE
      OBVIOUS
    <3>1. l \in 1..n /\ l \in s..f - 1 /\ l >= s
      BY <1>1, <1>3
    <3>2. t[l] \notin Quotes
      BY <1>2, <1>6, <3>1 DEF Word
    <3>3. l \in B
      BY <1>3, <3>1, <3>2
    <3>4. f <= l
      BY <1>1, <3>1, <3>3
    <3> QED
      BY <1>1, <3>1, <3>4
  <2>3. LastOf(M, f) = s - 1
    <3>1. s - 1 \in M \cup {0}
      BY <1>1, <1>3, <1>4
    <3>2. f \in Nat \ {0} /\ s - 1 < f
      BY <1>1, <1>4
    <3> QED
      BY <1>5, <2>2, <3>1, <3>2, LastOfIs
  <2>4. arg_start(t, f) = s /\ s # f
    BY <1>1, <2>3 DEF arg_start, M
  <2>5. f \in ArgumentEnds(t)
    <3>1. CASE f = n + 1
      BY <2>4, <3>1 DEF ArgumentEnds, n
    <3>2. CASE f \in B
      <4>1. f \in M /\ t[f] = Blank
        BY <1>3, <1>4, <3>2
      <4> QED
        BY <2>4, <4>1 DEF ArgumentEnds, M
    <3> QED
      BY <1>1, <3>1, <3>2
  <2> QED
    BY <1>6, <2>1, <2>4, <2>5 DEF StartOf
<1>7. CASE t[s] \in Quotes
  <2>0. /\ s < f - 1 /\ t[f - 1] \in Quotes
        /\ \A i \in s + 1..f - 1 : q[i] # "none"
        /\ \A i \in s + 1..f - 2 : t[i] \notin Quotes
    BY <1>2, <1>7 DEF Word
  <2> DEFINE c == f - 1
  <2>1. e = c
    BY <1>7 DEF EndOf, f
  <2>2. c \in 1..n /\ c \in s + 1..f - 1 /\ f - 2 = c - 1
    BY <1>1, <1>4, <2>0
  <2>3. t[c] \in Quotes /\ q[c] # "none"
    BY <2>0, <2>2
  <2> HIDE DEF c
  <2>4. \A l \in M : ~(s < l /\ l < c)
    <3> SUFFICES ASSUME NEW l \in M, s < l, l < c PROVE FALSE
      OBVIOUS
    <3>1. l \in 1..n /\ l \in s + 1..f - 1 /\ l \in s + 1..f - 2
      BY <1>1, <1>3, <2>2 DEF c
    <3>2. t[l] \notin Quotes /\ q[l] # "none"
      BY <2>0, <3>1
    <3>3. l \notin B
      BY <1>4, <3>2
    <3> QED
      BY <1>3, <3>1, <3>2, <3>3
  <2>5. LastOf(M, c) = s
    <3>1. s \in M
      BY <1>1, <1>3, <1>7
    <3>2. c \in Nat \ {0} /\ s < c
      BY <1>1, <2>2
    <3> QED
      BY <1>5, <2>4, <3>1, <3>2, LastOfIs
  <2>6. arg_start(t, c) = s + 1
    BY <2>5 DEF arg_start, M
  <2>7. c \in ArgumentEnds(t)
    <3>1. c \in M /\ t[c] # Blank
      BY <1>3, <2>2, <2>3
    <3>2. in_quotes(t, c)
      <4>1. c \in 1..Len(t) + 1
        BY <2>2, <1>4 DEF n
      <4> QED
        BY <2>3, <4>1, InQuotes
    <3> QED
      BY <3>1, <3>2 DEF ArgumentEnds, M
  <2> QED
    BY <1>7, <2>1, <2>6, <2>7 DEF StartOf
<1> QED
  BY <1>6, <1>7

\* And each argument is that of a word.
LEMMA ArgumentsAreWords ==
  ASSUME NEW Chars, NEW t \in Seq(Chars), NEW q, PlainText(t, q), NEW i \in ArgumentEnds(t)
  PROVE  \E s \in Starts(t, Gaps(t, q)) : EndOf(t, q, s) = i
<1> DEFINE B == Gaps(t, q)
           M == Marks(t)
           n == Len(t)
           S == Starts(t, B)
<1>1. /\ M \subseteq 1..n /\ Blank \notin Quotes
      /\ \A l \in 1..n : l \in M <=> t[l] \in Quotes \/ l \in B
  BY MarksOfPlain
<1>2. n \in Nat /\ \A l \in B : l \in 1..n /\ t[l] = Blank /\ q[l] = "none"
  BY DEF Gaps
<1>3. ASSUME NEW s \in S
      PROVE  /\ s \in 1..n /\ After(t, q, s) \in s + 1..n + 1
             /\ \A l \in B : l >= s => After(t, q, s) <= l
             /\ Word(t, q, s, After(t, q, s)) /\ q[s] = "none"
  BY WordEnds, WordsArePlain
<1>4. \A l \in 1..n : l \notin B => \E s \in S : s <= l /\ l < After(t, q, s)
  BY InWord
<1>5. \/ i \in 1..n /\ t[i] \in Quotes /\ q[i] # "none"
      \/ (i \in B \/ i = n + 1) /\ arg_start(t, i) # i
  <2>1. CASE i \in M
    <3>1. i \in 1..n /\ IF t[i] = Blank THEN arg_start(t, i) # i ELSE in_quotes(t, i)
      <4>1. i # n + 1
        BY <1>1, <1>2, <2>1
      <4> QED
        BY <1>1, <2>1, <4>1 DEF ArgumentEnds
    <3>2. CASE t[i] \in Quotes
      <4>1. i \in 1..Len(t) + 1
        BY <1>2, <3>1
      <4>2. in_quotes(t, i) <=> q[i] # "none"
        BY <4>1, InQuotes
      <4> QED
        BY <1>1, <3>1, <3>2, <4>2
    <3>3. CASE i \in B
      BY <1>2, <3>1, <3>3
    <3> QED
      BY <1>1, <2>1, <3>1, <3>2, <3>3
  <2>2. CASE i \notin M
    BY <2>2 DEF ArgumentEnds
  <2> QED
    BY <2>1, <2>2
<1> HIDE DEF B, S, n
<1>6. CASE i \in 1..n /\ t[i] \in Quotes /\ q[i] # "none"
  <2>1. i \notin B
    BY <1>2, <1>6
  <2>2. PICK s \in S : s <= i /\ i < After(t, q, s)
    BY <1>4, <1>6, <2>1
  <2> DEFINE f == After(t, q, s)
  <2>3. s \in 1..n /\ f \in s + 1..n + 1 /\ Word(t, q, s, f) /\ q[s] = "none"
    BY <1>3
  <2>4. i \in s..f - 1
    BY <1>6, <2>2, <2>3
  <2>5. t[s] \in Quotes
    BY <1>6, <2>3, <2>4 DEF Word
  <2>6. i # s
    BY <1>6, <2>3
  <2>7. i \notin s + 1..f - 2
    BY <1>6, <2>3, <2>5 DEF Word
  <2>8. i = f - 1
    <3> HIDE DEF f
    <3> QED
      BY <2>3, <2>4, <2>6, <2>7
  <2> QED
    BY <2>5, <2>8 DEF EndOf, S, B
<1>7. CASE (i \in B \/ i = n + 1) /\ arg_start(t, i) # i
  <2>1. i \in 1..n + 1
    BY <1>2, <1>7
  <2>2. i # 1
    <3> SUFFICES ASSUME i = 1 PROVE FALSE
      OBVIOUS
    <3>1. \A l \in M : ~(0 < l /\ l < i)
      BY <1>1
    <3>2. M \subseteq Nat \ {0} /\ i \in Nat \ {0} /\ 0 < i
      BY <1>1
    <3>3. LastOf(M, i) = 0
      <4> HIDE DEF M
      <4> QED
        BY <3>1, <3>2, LastOfIs
    <3> QED
      BY <1>7, <3>3 DEF arg_start
  <2> DEFINE j == i - 1
  <2>3. j \in 1..n /\ j + 1 = i
    BY <1>2, <2>1, <2>2
  <2> HIDE DEF j
  <2>4. j \notin M
    <3> SUFFICES ASSUME j \in M PROVE FALSE
      OBVIOUS
    <3>1. M \in SUBSET Int /\ j \in Int
      BY <1>1, <2>3
    <3>2. LastOf(M, j + 1) = j
      <4> HIDE DEF M
      <4> QED
        BY <3>1, StartAfterMark
    <3> QED
      BY <1>7, <2>3, <3>2 DEF arg_start
  <2>5. j \notin B /\ t[j] \notin Quotes
    BY <1>1, <2>3, <2>4
  <2>6. PICK s \in S : s <= j /\ j < After(t, q, s)
    BY <1>4, <2>3, <2>5
  <2> DEFINE f == After(t, q, s)
  <2>7. s \in 1..n /\ f \in s + 1..n + 1 /\ Word(t, q, s, f) /\ \A l \in B : l >= s => f <= l
    BY <1>3
  <2>8. f = i
    <3>1. i >= s /\ j < f
      BY <2>3, <2>6, <2>7
    <3> HIDE DEF f
    <3>2. f <= i
      BY <1>7, <2>7, <3>1
    <3> QED
      BY <2>3, <2>7, <3>1, <3>2
  <2>9. t[s] \notin Quotes
    <3>1. j = f - 1
      BY <2>3, <2>8
    <3> QED
      BY <2>5, <2>7, <3>1 DEF Word
  <2> QED
    BY <2>8, <2>9 DEF EndOf, S, B
<1> QED
  BY <1>5, <1>6, <1>7 DEF n

\* parse_arguments() makes of a plain text the words that a shell makes of it.
LEMMA PlainWords ==
  ASSUME NEW Chars, NEW t \in Seq(Chars), PlainText(t, Quoting(t))
  PROVE  ParseArguments(t) = Words(t)
<1> DEFINE q == Quoting(t)
           n == Len(t)
           B == Gaps(t, q)
           S == Starts(t, B)
           E == ArgumentEnds(t)
           end == [s \in S |-> EndOf(t, q, s)]
           argument(i) == SubSeq(t, arg_start(t, i), i - 1)
           word(s) == SubSeq(t, s, After(t, q, s) - 1)
<1>0. n \in Nat /\ B \subseteq 1..n
  BY DEF Gaps
<1>1. \A s \in S : /\ s \in 1..n /\ s \notin B /\ (s = 1 \/ s - 1 \in B)
                   /\ After(t, q, s) \in s + 1..n + 1
                   /\ \A l \in B : l >= s => After(t, q, s) <= l
                   /\ Word(t, q, s, After(t, q, s))
  BY WordEnds, WordsArePlain
<1>2. \A s \in S : EndOf(t, q, s) \in E /\ arg_start(t, EndOf(t, q, s)) = StartOf(t, s)
  BY WordEndsArgument
<1>3. \A i \in E : \E s \in S : EndOf(t, q, s) = i
  BY ArgumentsAreWords
<1>4. E \subseteq 1..n + 1
  BY <1>0 DEF ArgumentEnds, Marks
<1>5. \A s \in S : argument(EndOf(t, q, s)) = Bare(word(s))
  <2> SUFFICES ASSUME NEW s \in S PROVE argument(EndOf(t, q, s)) = Bare(word(s))
    OBVIOUS
  <2> DEFINE f == After(t, q, s)
  <2>1. s \in 1..Len(t) /\ f \in s + 1..Len(t) + 1 /\ Word(t, q, s, f)
    BY <1>1
  <2>2. Bare(word(s)) = IF t[s] \in Quotes THEN SubSeq(t, s + 1, f - 2) ELSE SubSeq(t, s, f - 1)
    <3> HIDE DEF f, q
    <3>1. Bare(SubSeq(t, s, f - 1)) = IF t[s] \in Quotes THEN SubSeq(t, s + 1, f - 2)
                                      ELSE SubSeq(t, s, f - 1)
      BY <2>1, BareWord
    <3> QED
      BY <3>1 DEF f
  <2>3. (f - 1) - 1 = f - 2
    BY <2>1
  <2>4. arg_start(t, EndOf(t, q, s)) = StartOf(t, s)
    BY <1>2
  <2> HIDE DEF S, word
  <2> QED
    BY <2>2, <2>3, <2>4 DEF EndOf, StartOf
<1>6. SameOrder(S, E, end)
  <2>1. end \in [S -> E] /\ \A j \in E : \E s \in S : end[s] = j
    <3> HIDE DEF S, E
    <3> QED
      BY <1>2, <1>3
  <2>2. ASSUME NEW s \in S, NEW r \in S, s < r PROVE end[s] < end[r]
    <3> DEFINE f == After(t, q, s)
               g == After(t, q, r)
    <3>1. /\ s \in 1..n /\ r \in 1..n /\ r - 1 \in B /\ s \notin B
          /\ f \in s + 1..n + 1 /\ g \in r + 1..n + 1
          /\ \A l \in B : l >= s => f <= l
      BY <1>1, <2>2
    <3>2. r - 1 >= s
      BY <2>2, <3>1
    <3>3. f <= r - 1
      <4> HIDE DEF f
      <4> QED
        BY <3>1, <3>2
    <3>4. end[s] \in {f, f - 1} /\ end[r] \in {g, g - 1}
      <4>1. end[s] = EndOf(t, q, s) /\ end[r] = EndOf(t, q, r)
        OBVIOUS
      <4> HIDE DEF end
      <4> QED
        BY <4>1 DEF EndOf
    <3> HIDE DEF end, f, g
    <3> QED
      BY <1>0, <3>1, <3>3, <3>4
  <2> HIDE DEF end, S, E
  <2> QED
    BY <2>1, <2>2 DEF SameOrder
<1>7. /\ Cardinality(S) \in Nat /\ Cardinality(E) = Cardinality(S)
      /\ \A k \in 1..Cardinality(S) : Nth(S, k) \in S /\ Nth(E, k) = end[Nth(S, k)]
  <2> DEFINE m == n + 1
  <2>1. n \in Nat /\ m \in Nat /\ S \subseteq 1..n /\ E \subseteq 1..m
    BY <1>0, <1>1, <1>4
  <2> HIDE DEF S, E, end, n, m
  <2>2. KthToKth(S, E, end)
    BY <1>6, <2>1, InOrder
  <2> QED
    BY <2>2 DEF KthToKth
<1> DEFINE c == Cardinality(S)
<1>8. ParseArguments(t) = [k \in 1..Cardinality(E) |-> argument(Nth(E, k))]
  BY DEF ParseArguments
<1>9. Words(t) = [k \in 1..c |-> Bare(word(Nth(S, k)))]
  <2> DEFINE u == [k \in 1..c |-> word(Nth(S, k))]
  <2>1. Unquoted(t, Blank) = u
    BY DEF Unquoted, Pieces, Gaps, After
  <2>2. Len(u) = c
    <3> HIDE DEF c, word
    <3> QED
      BY <1>7 DEF c
  <2>3. Words(t) = [k \in 1..Len(u) |-> Bare(u[k])]
    BY <2>1 DEF Words
  <2>4. \A k \in 1..c : u[k] = word(Nth(S, k))
    OBVIOUS
  <2> HIDE DEF u, c, word
  <2> QED
    BY <2>2, <2>3, <2>4
<1>10. \A k \in 1..c : argument(Nth(E, k)) = Bare(word(Nth(S, k)))
  <2> SUFFICES ASSUME NEW k \in 1..c PROVE argument(Nth(E, k)) = Bare(word(Nth(S, k)))
    OBVIOUS
  <2>1. Nth(S, k) \in S /\ Nth(E, k) = end[Nth(S, k)]
    BY <1>7
  <2>2. Nth(E, k) = EndOf(t, q, Nth(S, k))
    BY <2>1
  <2> HIDE DEF argument, word, S, E, end
  <2> QED
    BY <1>5, <2>1, <2>2
<1> HIDE DEF argument, word, S, E, c
<1> QED
  BY <1>7, <1>8, <1>9, <1>10 DEF c

\* Each command of a plain line has the arguments that were typed.
THEOREM PlainLinesAreReadAsTyped ==
  ASSUME NEW Chars, NEW t \in Seq(Chars), Plain(t), NEW k \in 1..Len(Tokens(t))
  PROVE  ParseArguments(Tokens(t)[k]) = Words(Unquoted(t, Bar)[k])
<1> DEFINE u == Tokens(t)[k]
<1>1. Unquoted(t, Bar)[k] = u /\ u \in Seq(Chars) /\ PlainText(u, Quoting(u))
  BY TokensOfPlain
<1> HIDE DEF u
<1>2. ParseArguments(u) = Words(u)
  BY <1>1, PlainWords
<1> QED
  BY <1>1, <1>2 DEF u

\* Sets that a function takes to one another, element by element, are as large.
LEMMA SameSize ==
  ASSUME NEW A, NEW B, NEW f, IsFiniteSet(A), f \in [A -> B],
         \A j \in B : \E i \in A : f[i] = j, \A i, j \in A : f[i] = f[j] => i = j
  PROVE  Cardinality(A) \in Nat /\ Cardinality(B) = Cardinality(A)
<1>1. f \in Injection(A, B)
  BY DEF Injection, IsInjective
<1>2. f \in Surjection(A, B)
  BY DEF Surjection
<1>3. ExistsBijection(A, B)
  BY <1>1, <1>2 DEF ExistsBijection, Bijection
<1> QED
  BY <1>3, FS_Bijection, FS_CardinalityType

\* What interpret_escape_sequences() leaves of a text spells it.
LEMMA EscapesAreSpelled ==
  ASSUME NEW Chars, NEW w \in Seq(Chars)
  PROVE  Spells(InterpretEscapes(w), w)
<1> DEFINE n == Len(w)
           X == EscapesOf(w)
           kept == DOMAIN w \ X
           c == Cardinality(kept)
           place(k) == Nth(kept, k)
           upTo(i) == {j \in kept : j <= i}
           E == {k \in 1..c : place(k) - 1 \in X}
           from(k) == k + Cardinality({j \in E : j < k})
           s == InterpretEscapes(w)
<1>1. /\ n \in Nat /\ DOMAIN w = 1..n /\ X \subseteq 1..n /\ kept \subseteq 1..n
      /\ \A i \in 1..n : i \in kept <=> i \notin X
      /\ \A x \in X : x + 1 \in 1..n /\ x + 1 \in kept
  <2>1. Backslash \notin Escapes
    BY DEF Backslash, Escapes
  <2>2. \A x \in X : x \in 1..n /\ x + 1 \in 1..n /\ x + 1 \notin X
    BY <2>1 DEF EscapesOf
  <2>3. n \in Nat /\ DOMAIN w = 1..n
    OBVIOUS
  <2> HIDE DEF X, n
  <2> QED
    BY <2>2, <2>3
<1> HIDE DEF X, n, kept
\* Every set of positions is finite.
<1>2. \A S : S \subseteq 1..n => IsFiniteSet(S) /\ Cardinality(S) \in Nat
  <2>1. IsFiniteSet(1..n)
    BY <1>1, FS_Interval
  <2> QED
    BY <2>1, FS_Subset, FS_CardinalityType
<1>3. c \in Nat /\ c + Cardinality(X) = n
  <2>1. IsFiniteSet(1..n) /\ Cardinality(1..n) = n
    <3>1. 1 \in Int /\ n \in Int
      BY <1>1
    <3>2. Cardinality(1..n) = IF 1 > n THEN 0 ELSE n - 1 + 1
      BY <3>1, FS_Interval
    <3> QED
      BY <1>1, <1>2, <3>2
  <2>2. kept \cup X = 1..n /\ kept \cap X = {}
    BY <1>1
  <2>3. Cardinality(kept \cup X) = Cardinality(kept) + Cardinality(X) - Cardinality(kept \cap X)
    BY <1>1, <1>2, FS_Union
  <2>4. Cardinality(kept \cap X) = 0
    BY <2>2, FS_EmptySet, Zenon
  <2>5. Cardinality(kept) \in Nat /\ Cardinality(X) \in Nat
    BY <1>1, <1>2
  <2>6. Cardinality(kept \cup X) = n
    BY <2>1, <2>2, Zenon
  <2> QED
    BY <2>3, <2>4, <2>5, <2>6
\* The positions that are kept, in order,
<1>4. ASSUME NEW k \in 1..c PROVE place(k) \in kept /\ place(k) \in 1..n /\ Cardinality(upTo(place(k))) = k
  BY <1>1, NthCounts
<1>5. ASSUME NEW j \in 1..c, NEW k \in 1..c, place(j) <= place(k) PROVE j <= k
  <2>1. upTo(place(j)) \subseteq upTo(place(k)) /\ upTo(place(k)) \subseteq 1..n
    <3>1. \A i \in kept : i \in Int
      BY <1>1
    <3>2. place(j) \in Int /\ place(k) \in Int
      <4>1. place(j) \in 1..n /\ place(k) \in 1..n
        BY <1>4
      <4> QED
        BY <1>1, <4>1
    <3>3. place(j) <= place(k)
      BY <1>5
    <3>4. \A i \in Int : i <= place(j) => i <= place(k)
      BY <3>2, <3>3
    <3> HIDE DEF place
    <3> QED
      BY <1>1, <3>1, <3>4
  <2> HIDE DEF place, upTo
  <2>2. Cardinality(upTo(place(j))) <= Cardinality(upTo(place(k)))
    BY <1>2, <2>1, FS_Subset
  <2> QED
    BY <1>4, <2>2
<1>6. ASSUME NEW j \in 1..c, NEW k \in 1..c PROVE (j < k <=> place(j) < place(k)) /\ (place(j) = place(k) => j = k)
  <2>1. place(j) \in Int /\ place(k) \in Int /\ j \in Int /\ k \in Int
    <3>1. place(j) \in 1..n /\ place(k) \in 1..n
      BY <1>4
    <3> QED
      BY <1>1, <3>1
  <2>2. (place(j) <= place(k) => j <= k) /\ (place(k) <= place(j) => k <= j)
    BY <1>5
  <2>3. j = k => place(j) = place(k)
    OBVIOUS
  <2> HIDE DEF place, c
  <2> QED
    BY <2>1, <2>2, <2>3
<1>7. ASSUME NEW i \in kept PROVE \E k \in 1..c : place(k) = i
  <2> DEFINE k == Cardinality(upTo(i))
  <2>1. upTo(i) \subseteq kept /\ i \in upTo(i) /\ upTo(i) \subseteq 1..n
    <3>1. i <= i
      BY <1>1
    <3> QED
      BY <1>1, <3>1
  <2>2. k \in Nat /\ k <= c
    <3> HIDE DEF upTo
    <3> QED
      BY <1>1, <1>2, <2>1, FS_Subset
  <2>3. k # 0
    <3> HIDE DEF upTo
    <3> QED
      BY <1>2, <2>1, FS_EmptySet
  <2>4. place(k) = i
    BY <1>1, <2>2, NthIs
  <2> HIDE DEF k, place
  <2> QED
    BY <1>3, <2>2, <2>3, <2>4
\* the escapes in front of each,
<1>8. ASSUME NEW k \in 1..c PROVE place(k) = k + Cardinality({x \in X : x < place(k)})
  <2> DEFINE i == place(k)
             F == {x \in X : x < i}
  <2>1. i \in kept /\ i \in 1..n /\ Cardinality(upTo(i)) = k
    BY <1>4
  <2> HIDE DEF i
  <2>2. upTo(i) \cup F = 1..i /\ upTo(i) \cap F = {} /\ upTo(i) \subseteq 1..n /\ F \subseteq 1..n
    <3>1. \A j \in 1..n : j \in 1..i <=> j <= i
      BY <1>1, <2>1
    <3>2. \A j \in X : j \in 1..n /\ j # i /\ j \in Int
      BY <1>1, <2>1
    <3>3. i \in Int /\ 1..i \subseteq 1..n /\ \A j \in 1..n : j \in Int
      BY <1>1, <2>1
    <3>4. \A j : j \in upTo(i) <=> j \in kept /\ j \in 1..i
      BY <1>1, <3>1, <3>3
    <3>5. \A j : j \in F <=> j \in X /\ j \in 1..i
      BY <3>1, <3>2, <3>3
    <3> HIDE DEF upTo, F
    <3> QED
      BY <1>1, <3>3, <3>4, <3>5
  <2>3. Cardinality(1..i) = i
    <3>1. Cardinality(1..i) = IF 1 > i THEN 0 ELSE i - 1 + 1
      BY <2>1, FS_Interval
    <3> QED
      BY <2>1, <3>1
  <2> HIDE DEF upTo, F
  <2>4. Cardinality(upTo(i) \cup F) = Cardinality(upTo(i)) + Cardinality(F) - Cardinality(upTo(i) \cap F)
    BY <1>2, <2>2, FS_Union
  <2>5. Cardinality(upTo(i) \cap F) = 0
    BY <2>2, FS_EmptySet, Zenon
  <2>6. Cardinality(upTo(i)) \in Nat /\ Cardinality(F) \in Nat
    BY <1>2, <2>2
  <2>7. Cardinality(upTo(i) \cup F) = i
    BY <2>2, <2>3, Zenon
  <2>8. i = k + Cardinality(F)
    BY <2>1, <2>4, <2>5, <2>6, <2>7
  <2> QED
    BY <2>8 DEF F, i
<1> HIDE DEF upTo, place
\* and the position that each escape shrinks to.
<1>9. ASSUME NEW A, NEW B, A \subseteq E, B \subseteq X, \A k \in E : k \in A <=> place(k) - 1 \in B
      PROVE  Cardinality(A) = Cardinality(B)
  <2> DEFINE f == [k \in A |-> place(k) - 1]
  <2>0. \A k \in A : k \in 1..c /\ place(k) \in Int
    BY <1>1, <1>4, <1>9
  <2>1. f \in [A -> B]
    BY <1>9
  <2>2. \A x \in B : \E k \in A : f[k] = x
    <3> SUFFICES ASSUME NEW x \in B PROVE \E k \in A : f[k] = x
      OBVIOUS
    <3>1. x \in X /\ x \in Int /\ x + 1 \in kept
      BY <1>1, <1>9
    <3>2. PICK k \in 1..c : place(k) = x + 1
      BY <1>7, <3>1
    <3>3. place(k) - 1 = x
      BY <3>1, <3>2
    <3>4. k \in E
      BY <3>1, <3>3
    <3>5. k \in A
      BY <1>9, <3>3, <3>4
    <3> QED
      BY <3>3, <3>5
  <2>3. \A i, j \in A : f[i] = f[j] => i = j
    <3> SUFFICES ASSUME NEW i \in A, NEW j \in A, f[i] = f[j] PROVE i = j
      OBVIOUS
    <3>1. place(i) = place(j)
      BY <2>0
    <3> QED
      BY <1>6, <2>0, <3>1
  <2>4. IsFiniteSet(A)
    <3>1. A \subseteq 1..c /\ IsFiniteSet(1..c)
      BY <1>3, <1>9, FS_Interval
    <3> QED
      BY <3>1, FS_Subset
  <2> HIDE DEF f
  <2> QED
    BY <2>1, <2>2, <2>3, <2>4, SameSize
<1>10. Cardinality(E) = Cardinality(X)
  <2>1. E \subseteq E /\ X \subseteq X /\ \A k \in E : k \in E <=> place(k) - 1 \in X
    OBVIOUS
  <2> HIDE DEF E
  <2> QED
    BY <1>9, <2>1
<1>11. ASSUME NEW k \in 1..c PROVE from(k) = IF k \in E THEN place(k) - 1 ELSE place(k)
  <2> DEFINE A == {j \in E : j < k}
             B == {x \in X : x < place(k) - 1}
             F == {x \in X : x < place(k)}
  <2>0. place(k) \in Int /\ k \in Int /\ \A x \in X : x \in Int
    BY <1>1, <1>4
  <2>1. Cardinality(A) = Cardinality(B)
    <3>1. A \subseteq E /\ B \subseteq X
      OBVIOUS
    <3>2. \A j \in E : j \in A <=> place(j) - 1 \in B
      <4> SUFFICES ASSUME NEW j \in E PROVE j \in A <=> place(j) - 1 \in B
        OBVIOUS
      <4>1. j \in 1..c /\ place(j) - 1 \in X
        OBVIOUS
      <4>2. place(j) \in Int
        BY <1>1, <1>4, <4>1
      <4>3. j < k <=> place(j) < place(k)
        BY <1>6, <4>1
      <4> QED
        BY <2>0, <4>1, <4>2, <4>3
    <3> HIDE DEF A, B, E
    <3> QED
      BY <1>9, <3>1, <3>2
  <2>2. /\ k \in E => F = B \cup {place(k) - 1} /\ place(k) - 1 \notin B
        /\ k \notin E => F = B
    BY <2>0
  <2>3. B \subseteq 1..n
    BY <1>1
  <2>4. IsFiniteSet(B) /\ Cardinality(B) \in Nat
    <3> HIDE DEF B
    <3> QED
      BY <1>2, <2>3
  <2>5. place(k) = k + Cardinality(F)
    BY <1>8
  <2>6. from(k) = k + Cardinality(A)
    OBVIOUS
  <2> HIDE DEF A, B, F, from
  <2>7. CASE k \in E
    <3>1. Cardinality(F) = Cardinality(B) + 1
      BY <2>2, <2>4, <2>7, FS_AddElement
    <3> QED
      BY <2>0, <2>1, <2>4, <2>5, <2>6, <2>7, <3>1
  <2>8. CASE k \notin E
    BY <2>0, <2>1, <2>2, <2>5, <2>6, <2>8
  <2> QED
    BY <2>7, <2>8
<1>12. /\ DOMAIN s = 1..c /\ Len(s) = c
       /\ \A k \in 1..c : s[k] = IF place(k) - 1 \in X THEN Control(w[place(k)]) ELSE w[place(k)]
  <2>1. s = [k \in 1..c |-> IF place(k) - 1 \in X THEN Control(w[place(k)]) ELSE w[place(k)]]
    BY DEF InterpretEscapes, X, kept, place
  <2> HIDE DEF s, c
  <2> QED
    BY <1>3, <2>1
<1>13. Len(w) = Len(s) + Cardinality(E)
  BY <1>3, <1>10, <1>12 DEF n
<1>14. ASSUME NEW k \in DOMAIN s
       PROVE  IF k \in E THEN from(k) \in X /\ s[k] = Control(w[from(k) + 1])
              ELSE from(k) \notin X /\ s[k] = w[from(k)]
  <2>1. k \in 1..c /\ place(k) \in kept /\ place(k) \in 1..n
    BY <1>4, <1>12
  <2>2. from(k) = IF k \in E THEN place(k) - 1 ELSE place(k)
    BY <1>11, <2>1
  <2>3. k \in E <=> place(k) - 1 \in X
    BY <2>1
  <2>4. place(k) \notin X /\ (place(k) - 1) + 1 = place(k)
    BY <1>1, <2>1
  <2>5. s[k] = IF place(k) - 1 \in X THEN Control(w[place(k)]) ELSE w[place(k)]
    BY <1>12, <2>1
  <2> HIDE DEF from, E, s
  <2> QED
    BY <2>2, <2>3, <2>4, <2>5
<1>15. E \in SUBSET DOMAIN s
  BY <1>12
<1> HIDE DEF s, E
<1> QED
  BY <1>13, <1>14, <1>15 DEF Spells, X, s
-----------------------------------------------------------------------------
(***************************************************************************)
(* The shell.                                                              *)
(***************************************************************************)
IsSequence(s) == \E A : s \in Seq(A)

\* The types of everything a step looks at.
TypeInv ==
  /\ shell \in {"prompt", "fork", "wait", "dead"}
  /\ command \in Seq(STRING) /\ commands \in Seq(Seq(STRING))
  /\ Len(command) < LineSize /\ \A k \in 1..Len(commands) : Len(commands[k]) < LineSize
  /\ Len(commands) <= MaxCommands
  /\ at \in 1..MaxCommands + 1 /\ turns \in 0..MaxLines
  /\ proc \in [Commands -> {"none", "forked", "running", "exited"}]
  /\ held \in [Procs -> SUBSET EndsOf(commands)]
  /\ DOMAIN args = Commands /\ \A k \in Commands : IsSequence(args[k])
  /\ DOMAIN hand = Commands /\ \A k \in Commands : IsSequence(hand[k])
  /\ DOMAIN pipes = Commands
  /\ \A k \in Commands : IsSequence(pipes[k]) /\ Len(pipes[k]) <= Capacity

\* Which children there are, as far as the parent has come.
ChildrenInv ==
  /\ \A k \in Commands : proc[k] \in {"none", "exited"} => held[k] = {}
  /\ shell = "fork" =>
       /\ at <= Len(commands) + 1
       /\ \A k \in Commands : k >= at <=> proc[k] = "none"
  /\ shell \in {"wait", "prompt"} =>
       /\ held[Parent] = {}
       /\ \A k \in Commands : k > Len(commands) <=> proc[k] = "none"
  /\ shell = "wait" => /\ at <= Len(commands) + 1
                       /\ \A k \in Commands : k < at => proc[k] = "exited"
  /\ shell = "prompt" => \A k \in 1..Len(commands) : proc[k] = "exited"

IInv == TypeInv /\ ChildrenInv

\* Removing `-e` and replacing escapes makes texts of texts.
LEMMA ExecutedIsSequence ==
  ASSUME NEW Chars, NEW a \in Seq(Seq(Chars)), ~NullPointer(a)
  PROVE  IsSequence(Executed(a)) /\ (AfterEcho(a) => Len(a) > 2)
<1> DEFINE m == Len(a)
           A == Seq(Chars) \cup {Echo, InterpretEscapes(a[3])}
           h == <<Echo, InterpretEscapes(a[3])>>
           r == SubSeq(a, 4, m)
<1>1. CASE ~AfterEcho(a)
  BY <1>1 DEF Executed, IsSequence
<1>2. CASE AfterEcho(a)
  <2>1. m \in Nat /\ m > 2
    <3>1. m \in Nat /\ m > 1 /\ a[1] = Echo /\ a[2] = DashE
      BY <1>2 DEF AfterEcho
    <3>2. m = 2 => a = <<Echo, DashE>>
      BY <3>1
    <3>3. m # 2
      BY <3>2 DEF NullPointer
    <3> HIDE DEF m
    <3> QED
      BY <3>1, <3>3
  <2>2. h \in Seq(A)
    <3>1. Echo \in A /\ InterpretEscapes(a[3]) \in A
      BY Zenon
    <3> HIDE DEF A
    <3> QED
      BY <3>1
  <2>3. r \in Seq(A)
    <3>1. a \in Seq(A)
      BY SeqMonotonic
    <3> HIDE DEF A
    <3>2. \A i \in 4..m : a[i] \in A
      BY <3>1
    <3> QED
      BY <2>1, <3>1, <3>2, SubSeqProperties
  <2> HIDE DEF h, r, A
  <2>4. h \o r \in Seq(A)
    BY <2>2, <2>3, ConcatProperties, Zenon
  <2>5. Executed(a) = h \o r
    BY <1>2 DEF Executed, h, r
  <2> QED
    BY <2>1, <2>4, <2>5 DEF IsSequence
<1> QED
  BY <1>1, <1>2

\* What a child gives to execvp() is a list, wild or not.
LEMMA ArgvIsSequence ==
  ASSUME NEW Chars, NEW t \in Seq(Chars), NEW wild, Overruns(t) => wild \in Wild
  PROVE  IsSequence(Argv(t, wild))
<1> DEFINE a == ParseArguments(t)
<1>1. a \in Seq(Seq(Chars))
  BY ArgumentsAreTexts
<1>2. CASE Overruns(t)
  BY <1>2, ShellAssumption DEF Argv, IsSequence
<1>3. CASE ~Overruns(t) /\ NullPointer(a)
  <2>1. <<>> \in Seq({})
    OBVIOUS
  <2> QED
    BY <1>3, <2>1 DEF Argv, IsSequence, Killed
<1>4. CASE ~Overruns(t) /\ ~NullPointer(a)
  BY <1>1, <1>4, ExecutedIsSequence DEF Argv
<1> QED
  BY <1>2, <1>3, <1>4
-----------------------------------------------------------------------------
\* The empty sequence, and what Tail and Append make of any other: their elements
\* may be of any kind.
LEMMA EmptyIsSequence == IsSequence(<<>>) /\ Len(<<>>) = 0
<1>1. <<>> \in Seq({}) /\ Len(<<>>) = 0
  OBVIOUS
<1> QED
  BY <1>1 DEF IsSequence

\* The tail of a sequence is one element shorter.
LEMMA TailIsSequence ==
  ASSUME NEW s, IsSequence(s), s # <<>>
  PROVE  IsSequence(Tail(s)) /\ Len(Tail(s)) = Len(s) - 1 /\ Len(s) \in Nat
<1>1. PICK A : s \in Seq(A)
  BY DEF IsSequence
<1>2. Tail(s) \in Seq(A) /\ Len(Tail(s)) = Len(s) - 1
  BY <1>1, HeadTailProperties, Zenon
<1>3. Len(s) \in Nat
  BY <1>1
<1> QED
  BY <1>2, <1>3 DEF IsSequence

\* Appending to a sequence makes it one element longer.
LEMMA AppendIsSequence ==
  ASSUME NEW s, IsSequence(s), NEW e
  PROVE  IsSequence(Append(s, e)) /\ Len(Append(s, e)) = Len(s) + 1 /\ Len(s) \in Nat
<1>1. PICK A : s \in Seq(A)
  BY DEF IsSequence
<1> DEFINE B == A \cup {e}
<1>2. s \in Seq(B) /\ e \in B
  BY <1>1, SeqMonotonic
<1> HIDE DEF B
<1>3. Append(s, e) \in Seq(B) /\ Len(Append(s, e)) = Len(s) + 1 /\ Len(s) \in Nat
  BY <1>2
<1> QED
  BY <1>3 DEF IsSequence

\* The number of commands of the line is within the bound.
LEMMA LenCommands == TypeInv => Len(commands) \in 0..MaxCommands
  BY ShellAssumption DEF TypeInv

\* Before the first line there are no children and no pipes.
LEMMA InitInv == Init => IInv
<1> SUFFICES ASSUME Init PROVE IInv
  OBVIOUS
<1> USE ShellAssumption, EmptyIsSequence
<1>1. TypeInv
  <2>1. <<>> \in Seq(STRING) /\ <<>> \in Seq(Seq(STRING))
    OBVIOUS
  <2>2. hand = Nothing /\ pipes = Nothing /\ args = Nothing /\ proc = Unborn
    BY DEF Init
  <2>3. Len(command) = 0 /\ Len(commands) = 0
    BY DEF Init
  <2> QED
    BY <2>1, <2>2, <2>3 DEF Init, TypeInv, Nothing, Unborn, Procs, Commands
<1>2. ChildrenInv
  BY DEF Init, ChildrenInv, Unborn, Commands, Procs, Parent
<1> QED
  BY <1>1, <1>2 DEF IInv

\* A new line begins without children: those of the last one have ended, and the
\* shell had closed all its ends.
LEMMA ReadLineInv == IInv /\ ReadLine => IInv'
<1> SUFFICES ASSUME IInv, ReadLine PROVE IInv'
  OBVIOUS
<1> USE ShellAssumption
<1> DEFINE L == Len(commands')
<1>1. turns' \in 1..MaxLines
  BY DEF IInv, TypeInv, ReadLine
<1>2. command' \in Seq(STRING) /\ Len(command') < LineSize
  <2>1. CASE command' \in Texts[turns']
    BY <1>1, <2>1
  <2>2. CASE commands # <<>> /\ command' = Head(commands)
    <3>1. commands \in Seq(Seq(STRING)) /\ \A k \in 1..Len(commands) : Len(commands[k]) < LineSize
      BY DEF IInv, TypeInv
    <3>2. 1 \in 1..Len(commands) /\ command' = commands[1]
      BY <2>2, <3>1
    <3> QED
      BY <3>1, <3>2
  <2> QED
    BY <2>1, <2>2 DEF ReadLine
<1>3. /\ commands' = Tokens(command') /\ commands' \in Seq(Seq(STRING))
      /\ L \in Nat /\ 1 <= L /\ L <= MaxCommands
      /\ \A k \in 1..L : Len(commands'[k]) < LineSize
  <2>1. commands' = Tokens(command') /\ commands' # <<>>
    BY DEF ReadLine
  <2>2. /\ commands' \in Seq(Seq(STRING))
        /\ \A k \in 1..L : Len(commands'[k]) <= Len(command')
    BY <1>2, <2>1, TokensAreTexts
  <2>3. L \in Nat /\ 2 * L <= Len(command') + 1
    BY <1>2, <2>1, TokensFit
  <2>4. Len(command') \in Nat /\ \A k \in 1..L : Len(commands'[k]) \in Nat
    BY <1>2, <2>2
  <2>5. 1 <= L
    BY <2>1, <2>2
  <2>6. L <= MaxCommands
    BY <1>2, <2>3, <2>4
  <2>7. \A k \in 1..L : Len(commands'[k]) < LineSize
    BY <1>2, <2>2, <2>4
  <2> QED
    BY <2>1, <2>2, <2>3, <2>5, <2>6, <2>7
<1>4. \A p \in Procs : held[p] = {}
  <2>1. \A k \in Commands : proc[k] \in {"none", "exited"}
    BY LenCommands DEF IInv, TypeInv, ChildrenInv, ReadLine, Commands
  <2> QED
    BY <2>1 DEF IInv, ChildrenInv, ReadLine, Procs
<1>5. /\ held' \in [Procs -> SUBSET EndsOf(commands')]
      /\ \A k \in Commands : held'[k] = {}
  <2>0. held \in [Procs -> SUBSET EndsOf(commands)] /\ Parent \in Procs
        /\ \A k \in Commands : k \in Procs /\ k # Parent
    BY DEF IInv, TypeInv, Procs, Parent, Commands
  <2>1. CASE held' = [held EXCEPT ![Parent] = @ \cup EndsOf(commands')]
    BY <1>4, <2>0, <2>1
  <2>2. CASE held' = held
    BY <1>4, <2>0, <2>2
  <2> QED
    BY <2>1, <2>2 DEF ReadLine
<1>6. ASSUME NEW k \in Commands PROVE IsSequence(args'[k])
  <2> DEFINE O == {l \in 1..L : Overruns(commands'[l])}
  <2>1. PICK wild \in [O -> Wild] :
          args' = [l \in Commands |-> IF l <= L THEN Argv(commands'[l], wild[l]) ELSE Killed]
    BY DEF ReadLine
  <2>2. args'[k] = IF k <= L THEN Argv(commands'[k], wild[k]) ELSE Killed
    BY <2>1
  <2>3. k <= L => commands'[k] \in Seq(STRING) /\ k \in 1..L
    BY <1>3 DEF Commands
  <2>4. k <= L /\ Overruns(commands'[k]) => wild[k] \in Wild
    BY <2>1, <2>3
  <2> QED
    <3>1. CASE k <= L
      <4>1. IsSequence(Argv(commands'[k], wild[k]))
        BY <2>3, <2>4, <3>1, ArgvIsSequence
      <4> QED
        BY <2>2, <3>1, <4>1
    <3>2. CASE ~(k <= L)
      BY <2>2, <3>2, EmptyIsSequence DEF Killed
    <3> QED
      BY <3>1, <3>2
<1>7. TypeInv'
  <2>1. shell' \in {"prompt", "fork", "wait", "dead"}
    BY DEF ReadLine
  <2>2. at' \in 1..MaxCommands + 1 /\ turns' \in 0..MaxLines
    BY <1>1 DEF ReadLine
  <2>3. proc' \in [Commands -> {"none", "forked", "running", "exited"}]
    BY DEF ReadLine, Unborn
  <2>4. DOMAIN args' = Commands
    BY DEF ReadLine
  <2>5. /\ DOMAIN hand' = Commands /\ \A k \in Commands : IsSequence(hand'[k])
        /\ DOMAIN pipes' = Commands
        /\ \A k \in Commands : IsSequence(pipes'[k]) /\ Len(pipes'[k]) <= Capacity
    BY EmptyIsSequence DEF ReadLine, Nothing
  <2> QED
    BY <1>2, <1>3, <1>5, <1>6, <2>1, <2>2, <2>3, <2>4, <2>5 DEF TypeInv
<1>8. ChildrenInv'
  <2>1. shell' \in {"fork", "dead"} /\ at' = 1 /\ \A k \in Commands : proc'[k] = "none"
    BY DEF ReadLine, Unborn
  <2> QED
    BY <1>3, <1>5, <2>1 DEF ChildrenInv, Commands
<1> QED
  BY <1>7, <1>8 DEF IInv
-----------------------------------------------------------------------------
\* The shell forks the children in order, closes its ends, waits for each.
LEMMA ParentInv == IInv /\ (Run \/ ForkFails) => IInv'
<1> SUFFICES ASSUME IInv, Run \/ ForkFails PROVE IInv'
  OBVIOUS
<1>1. UNCHANGED <<command, commands, args, turns, hand, pipes>>
  BY DEF Run, Fork, CloseEnds, Waitpid, BackToPrompt, ForkFails, commandVars
<1>3. /\ Len(commands) \in Nat /\ Len(commands) <= MaxCommands
      /\ at \in Nat /\ at >= 1
      /\ Parent \in Procs /\ \A k \in Commands : k \in Procs /\ k # Parent
  BY LenCommands, ShellAssumption DEF IInv, TypeInv, Procs, Parent, Commands
<1> USE ShellAssumption, <1>1, <1>3
<1>4. CASE Fork
  <2>1. at \in Commands /\ at \in Procs /\ at # Parent /\ proc[at] = "none"
    <3>1. at \in Commands
      BY <1>4 DEF Fork, Commands
    <3> QED
      BY <1>4, <3>1 DEF Fork, IInv, ChildrenInv
  <2>2. TypeInv'
    <3>1. /\ held' \in [Procs -> SUBSET EndsOf(commands)]
          /\ proc' \in [Commands -> {"none", "forked", "running", "exited"}]
      BY <1>4, <2>1 DEF Fork, IInv, TypeInv
    <3>2. shell' \in {"prompt", "fork", "wait", "dead"} /\ at' \in 1..MaxCommands + 1
      BY <1>4, <2>1 DEF Fork, IInv, TypeInv, Commands
    <3> QED
      BY <3>1, <3>2 DEF IInv, TypeInv
  <2>3. ChildrenInv'
    <3>1. \A k \in Commands : /\ proc'[k] = IF k = at THEN "forked" ELSE proc[k]
                              /\ k # at => held'[k] = held[k]
      BY <1>4, <2>1 DEF Fork, IInv, TypeInv
    <3>2. shell' = "fork" /\ shell = "fork" /\ at' = at + 1 /\ at <= Len(commands)
      BY <1>4 DEF Fork
    <3>3. \A k \in Commands : k >= at + 1 <=> k >= at /\ k # at
      BY <1>3 DEF Commands
    <3>4. \A k \in Commands : proc'[k] \in {"none", "exited"} => held'[k] = {}
      BY <2>1, <3>1 DEF IInv, ChildrenInv
    <3>5. at' <= Len(commands') + 1
      BY <1>3, <3>2
    <3>6. \A k \in Commands : k >= at' <=> proc'[k] = "none"
      BY <2>1, <3>1, <3>2, <3>3 DEF IInv, ChildrenInv
    <3> QED
      BY <3>2, <3>4, <3>5, <3>6 DEF ChildrenInv
  <2> QED
    BY <2>2, <2>3 DEF IInv
<1>5. CASE ForkFails
  <2>1. /\ held' \in [Procs -> SUBSET EndsOf(commands)]
        /\ \A k \in Commands : held'[k] = held[k]
    BY <1>5 DEF ForkFails, IInv, TypeInv
  <2>2. TypeInv'
    BY <1>5, <2>1 DEF ForkFails, IInv, TypeInv
  <2>3. ChildrenInv'
    BY <1>5, <2>1 DEF ForkFails, IInv, ChildrenInv
  <2> QED
    BY <2>2, <2>3 DEF IInv
<1>6. CASE CloseEnds
  <2>1. /\ held' \in [Procs -> SUBSET EndsOf(commands)]
        /\ held'[Parent] = {}
        /\ \A k \in Commands : held'[k] = held[k]
    BY <1>6 DEF CloseEnds, ParentEnds, IInv, TypeInv
  <2>2. TypeInv'
    BY <1>6, <2>1 DEF CloseEnds, IInv, TypeInv
  <2>3. at = Len(commands) + 1
    BY <1>6 DEF CloseEnds, IInv, ChildrenInv
  <2>4. \A k \in Commands : (k > Len(commands) <=> k >= at) /\ ~(k < 1)
    BY <2>3 DEF Commands
  <2>5. ChildrenInv'
    BY <1>6, <2>1, <2>4 DEF CloseEnds, IInv, ChildrenInv
  <2> QED
    BY <2>2, <2>5 DEF IInv
<1>7. CASE Waitpid
  <2>1. TypeInv'
    BY <1>7 DEF Waitpid, IInv, TypeInv
  <2>2. \A k \in Commands : k < at + 1 => k < at \/ k = at
    BY DEF Commands
  <2>3. ChildrenInv'
    BY <1>7, <2>2 DEF Waitpid, Ended, IInv, ChildrenInv
  <2> QED
    BY <2>1, <2>3 DEF IInv
<1>8. CASE BackToPrompt
  <2>1. TypeInv'
    BY <1>8 DEF BackToPrompt, IInv, TypeInv
  <2>2. \A k \in 1..Len(commands) : k \in Commands /\ k < at
    BY <1>8 DEF BackToPrompt, Commands
  <2>3. ChildrenInv'
    BY <1>8, <2>2 DEF BackToPrompt, IInv, ChildrenInv
  <2> QED
    BY <2>1, <2>3 DEF IInv
<1> QED
  BY <1>4, <1>5, <1>6, <1>7, <1>8 DEF Run

\* A child closes ends and opens none, and has none once it has ended.
LEMMA ChildInv == ASSUME NEW k \in Commands, IInv, Child(k) PROVE IInv'
<1>1. UNCHANGED <<shell, command, commands, at, turns, args>>
  BY DEF Child, Exec, Read, EndOfFile, Write, Sigpipe, Finish, End, commandVars
<1>3. k \in Procs /\ k # Parent /\ k <= Len(commands) /\ (k > 1 => k - 1 \in Commands)
  BY ShellAssumption DEF Commands, Procs, Parent, Child
<1> USE ShellAssumption, <1>1, <1>3
\* A child that runs goes on to run or to be gone, and may close ends.
<1>4. /\ held' \in [Procs -> SUBSET EndsOf(commands)]
      /\ proc' \in [Commands -> {"none", "forked", "running", "exited"}]
      /\ \A p \in Procs : p # k => held'[p] = held[p]
      /\ \A j \in Commands : j # k => proc'[j] = proc[j]
      /\ proc[k] \in {"forked", "running"}
      /\ proc'[k] # "none" /\ (proc'[k] = "exited" => held'[k] = {})
  <2>1. CASE Exec(k)
    <3>1. Own(k) \subseteq EndsOf(commands)
      BY DEF Own
    <3> QED
      BY <2>1, <3>1 DEF Exec, IInv, TypeInv
  <2>2. CASE End(k)
    BY <2>2 DEF End, IInv, TypeInv
  <2>3. CASE Read(k) \/ Write(k)
    BY <2>3 DEF Read, Write, IInv, TypeInv
  <2> QED
    BY <2>1, <2>2, <2>3 DEF Child, EndOfFile, Sigpipe, Finish
<1>5. ChildrenInv'
  <2>1. /\ \A j \in Commands : proc'[j] \in {"none", "exited"} => held'[j] = {}
        /\ held'[Parent] = held[Parent]
    <3>1. \A j \in Commands : j \in Procs
      BY DEF Procs
    <3>2. Parent \in Procs
      BY DEF Procs
    <3> QED
      BY <1>4, <3>1, <3>2 DEF IInv, ChildrenInv
  <2>2. /\ \A j \in Commands : proc'[j] = "none" <=> proc[j] = "none"
        /\ \A j \in Commands : proc[j] = "exited" => proc'[j] = "exited"
    BY <1>4
  <2>3. shell = "prompt" => \A j \in 1..Len(commands) : j \in Commands
    BY LenCommands DEF IInv, Commands
  <2> QED
    BY <2>1, <2>2, <2>3 DEF IInv, ChildrenInv
<1>6. /\ DOMAIN hand' = Commands /\ \A j \in Commands : IsSequence(hand'[j])
      /\ DOMAIN pipes' = Commands
      /\ \A j \in Commands : IsSequence(pipes'[j]) /\ Len(pipes'[j]) <= Capacity
  <2>1. CASE Exec(k)
    <3>1. IsSequence(IF Kind(k) = "source" THEN Tail(args[k]) ELSE <<>>)
      BY EmptyIsSequence, TailIsSequence DEF Kind, IInv, TypeInv
    <3> QED
      BY <2>1, <3>1 DEF Exec, IInv, TypeInv
  <2>2. CASE End(k)
    BY <2>2 DEF End, commandVars, IInv, TypeInv
  <2>3. CASE Read(k)
    <3>1. k > 1
      BY <2>3 DEF Read, Kind
    <3>2. IsSequence(<<Head(pipes[k - 1])>>)
      <4>1. \A e : <<e>> \in Seq({e})
        OBVIOUS
      <4> QED
        BY <4>1, Zenon DEF IsSequence
    <3>3. IsSequence(Tail(pipes[k - 1])) /\ Len(Tail(pipes[k - 1])) <= Capacity
      BY <2>3, <3>1, TailIsSequence DEF Read, IInv, TypeInv
    <3> QED
      BY <2>3, <3>1, <3>2, <3>3 DEF Read, IInv, TypeInv
  <2>4. CASE Write(k)
    <3>1. IsSequence(Tail(hand[k]))
      BY <2>4, TailIsSequence DEF Write, IInv, TypeInv
    <3>2. DOMAIN hand' = Commands /\ \A j \in Commands : IsSequence(hand'[j])
      BY <2>4, <3>1 DEF Write, IInv, TypeInv
    <3>3. CASE k = Len(commands)
      BY <2>4, <3>2, <3>3 DEF Write, IInv, TypeInv
    <3>4. CASE k # Len(commands)
      <4>1. /\ Len(pipes[k]) < Capacity
            /\ pipes' = [pipes EXCEPT ![k] = Append(@, Head(hand[k]))]
        BY <2>4, <3>4 DEF Write
      <4>2. /\ IsSequence(Append(pipes[k], Head(hand[k])))
            /\ Len(Append(pipes[k], Head(hand[k]))) <= Capacity
        BY <4>1, AppendIsSequence DEF IInv, TypeInv
      <4> QED
        BY <3>2, <4>1, <4>2 DEF IInv, TypeInv
    <3> QED
      BY <3>3, <3>4
  <2> QED
    BY <2>1, <2>2, <2>3, <2>4 DEF Child, EndOfFile, Sigpipe, Finish
<1>7. TypeInv'
  BY <1>4, <1>6 DEF IInv, TypeInv
<1> QED
  BY <1>5, <1>7 DEF IInv

\* So IInv holds in every state of the shell.
LEMMA Invariance == Spec => []IInv
<1>1. IInv /\ UNCHANGED vars => IInv'
  <2> SUFFICES ASSUME IInv, UNCHANGED vars PROVE IInv'
    OBVIOUS
  <2>1. TypeInv'
    BY DEF vars, commandVars, IInv, TypeInv
  <2>2. ChildrenInv'
    BY DEF vars, commandVars, IInv, ChildrenInv
  <2> QED
    BY <2>1, <2>2 DEF IInv
<1>2. IInv /\ [Next]_vars => IInv'
  BY <1>1, ReadLineInv, ParentInv, ChildInv DEF Next
<1> QED
  BY InitInv, <1>2, PTL DEF Spec

\* The phases of the shell and of its children, the ends that may be open and
\* what a pipe holds are what TypeOK says.
THEOREM TypeCorrect == Spec => []TypeOK
<1>1. IInv => TypeOK
  BY LenCommands DEF IInv, TypeInv, TypeOK
<1> QED
  BY <1>1, Invariance, PTL

\* Back at the prompt every child of the line has exited and been waited for, and
\* no process has an end of a pipe open: main() neither leaks descriptors from
\* line to line nor leaves a zombie.
THEOREM CleanPromptHolds == Spec => []CleanPrompt
<1>1. IInv => CleanPrompt
  <2> SUFFICES ASSUME IInv, shell = "prompt"
               PROVE  /\ \A k \in 1..Len(commands) : proc[k] = "exited"
                      /\ \A p \in Procs : held[p] = {}
    BY DEF CleanPrompt
  <2>1. \A k \in Commands : proc[k] \in {"none", "exited"}
    BY LenCommands, ShellAssumption DEF IInv, TypeInv, ChildrenInv, Commands
  <2> QED
    BY <2>1 DEF IInv, ChildrenInv, Procs
<1> QED
  BY <1>1, Invariance, PTL

\* However the bars, blanks and quotes of a line lie, commands[] has room for its
\* commands as long as the line array is no longer than twice the table, and args[]
\* for the arguments of each command of fewer than 2 * MAX_ARGS - 1 characters.
THEOREM ShortCommandsFitHolds == Spec => []ShortCommandsFit
<1>1. IInv => ShortCommandsFit
  <2> SUFFICES ASSUME IInv, NEW k \in 1..Len(commands), Len(commands[k]) < 2 * MaxArgs - 1
               PROVE  ~Overruns(commands[k])
    BY DEF IInv, TypeInv, ShortCommandsFit
  <2>1. commands[k] \in Seq(STRING)
    BY DEF IInv, TypeInv
  <2>2. /\ Len(ParseArguments(commands[k])) \in Nat
        /\ 2 * Len(ParseArguments(commands[k])) <= Len(commands[k]) + 1
    BY <2>1, ArgumentsFit
  <2>3. Len(commands[k]) \in Nat /\ MaxArgs \in Nat
    BY <2>1, ShellAssumption
  <2> QED
    BY <2>2, <2>3 DEF Overruns
<1> QED
  BY <1>1, Invariance, PTL
-----------------------------------------------------------------------------
(***************************************************************************)
(* The output of a line.  What the last command that is no filter writes   *)
(* goes through the filters behind it in pieces: what w[n] elements of it  *)
(* have come out of the line, what is between r[k] and w[k] elements is in *)
(* the hand of command k and what is between w[k] and r[k + 1] in its pipe.*)
(***************************************************************************)
IsOrigin(o) ==
  /\ o \in 1..Len(commands) /\ Kind(o) # "filter"
  /\ \A j \in o + 1..Len(commands) : Kind(j) = "filter"

\* What the line is to print.
Whole(o) == IF Kind(o) = "source" THEN Tail(args[o]) ELSE <<>>

NotStarted(k) == proc[k] \in {"none", "forked"}

\* The ends that the shell and the children have open.
EndsInv ==
  /\ shell = "fork" => held[Parent] = EndsOf(commands)
  /\ \A k \in Commands : /\ proc[k] = "forked" => held[k] = EndsOf(commands)
                         /\ proc[k] = "running" => held[k] = Own(k)
                         /\ NotStarted(k) => hand[k] = <<>>

\* From the origin on, the commands end from the first to the last, and each when
\* there is nothing left for it to do.
Drained(o) ==
  \A k \in o..Len(commands) :
    proc[k] = "exited" =>
      /\ hand[k] = <<>>
      /\ k > o => proc[k - 1] = "exited" /\ pipes[k - 1] = <<>>

Stretches(o, w, r) ==
  /\ out = SubSeq(Whole(o), 1, w[Len(commands)])
  /\ r[o] = Len(Whole(o)) /\ (NotStarted(o) => w[o] = 0)
  /\ \A k \in o..Len(commands) :
       /\ w[k] <= r[k]
       /\ ~NotStarted(k) => hand[k] = SubSeq(Whole(o), w[k] + 1, r[k])
       /\ k > o => /\ NotStarted(k) => w[k] = r[k]
                   /\ r[k] <= w[k - 1]
                   /\ pipes[k - 1] = SubSeq(Whole(o), r[k] + 1, w[k - 1])

Flows(o) == \E w, r \in [Commands -> 0..Len(Whole(o))] : Stretches(o, w, r)

FlowInv ==
  shell # "dead" => EndsInv /\ \A o : IsOrigin(o) => Drained(o) /\ Flows(o)

\* A piece of a sequence.
LEMMA Piece ==
  ASSUME NEW A, NEW s \in Seq(A), NEW a \in 0..Len(s), NEW b \in a..Len(s)
  PROVE  /\ SubSeq(s, a + 1, b) \in Seq(A) /\ Len(SubSeq(s, a + 1, b)) = b - a
         /\ \A i \in 1..b - a : SubSeq(s, a + 1, b)[i] = s[a + i]
         /\ SubSeq(s, a + 1, b) = <<>> <=> a = b
<1>1. \A i \in a + 1..b : s[i] \in A
  OBVIOUS
<1>2. /\ SubSeq(s, a + 1, b) \in Seq(A)
      /\ Len(SubSeq(s, a + 1, b)) = IF a + 1 <= b THEN b - (a + 1) + 1 ELSE 0
      /\ \A i \in 1..b - (a + 1) + 1 : SubSeq(s, a + 1, b)[i] = s[a + 1 + i - 1]
  BY <1>1, SubSeqProperties
<1>3. Len(SubSeq(s, a + 1, b)) = b - a
  BY <1>2
<1>4. \A i \in 1..b - a : SubSeq(s, a + 1, b)[i] = s[a + i]
  <2>1. \A i \in 1..b - a : i \in 1..b - (a + 1) + 1 /\ a + 1 + i - 1 = a + i
    OBVIOUS
  <2> QED
    BY <1>2, <2>1
<1>5. SubSeq(s, a + 1, b) = <<>> <=> Len(SubSeq(s, a + 1, b)) = 0
  BY <1>2, EmptySeq
<1> QED
  BY <1>2, <1>3, <1>4, <1>5

\* Its first element taken away.
LEMMA TakeFromPiece ==
  ASSUME NEW A, NEW s \in Seq(A), NEW a \in 0..Len(s), NEW b \in a + 1..Len(s)
  PROVE  /\ Head(SubSeq(s, a + 1, b)) = s[a + 1]
         /\ Tail(SubSeq(s, a + 1, b)) = SubSeq(s, (a + 1) + 1, b)
<1>1. a + 1 \in 1..Len(s) /\ b \in a + 1..Len(s)
  OBVIOUS
<1> QED
  BY <1>1, HeadTailOfSubSeq

\* The next element of the sequence added to it.
LEMMA AddToPiece ==
  ASSUME NEW A, NEW s \in Seq(A), NEW c \in 0..Len(s), NEW a \in c..Len(s) - 1
  PROVE  Append(SubSeq(s, c + 1, a), s[a + 1]) = SubSeq(s, c + 1, a + 1)
<1> DEFINE p == SubSeq(s, c + 1, a)
           q == SubSeq(s, c + 1, a + 1)
           e == s[a + 1]
<1>1. p \in Seq(A) /\ Len(p) = a - c /\ \A i \in 1..a - c : p[i] = s[c + i]
  BY Piece
<1>2. q \in Seq(A) /\ Len(q) = (a + 1) - c /\ \A i \in 1..(a + 1) - c : q[i] = s[c + i]
  BY Piece
<1>3. e \in A
  OBVIOUS
<1>4. q[a + 1 - c] = e
  <2>1. a + 1 - c \in 1..(a + 1) - c /\ c + (a + 1 - c) = a + 1
    OBVIOUS
  <2> HIDE DEF q
  <2> QED
    BY <1>2, <2>1
<1> HIDE DEF p, q, e
<1>5. /\ Append(p, e) \in Seq(A) /\ Len(Append(p, e)) = Len(p) + 1
      /\ \A i \in 1..Len(p) : Append(p, e)[i] = p[i]
      /\ Append(p, e)[Len(p) + 1] = e
  BY <1>1, <1>3
<1>6. \A i \in 1..Len(q) : Append(p, e)[i] = q[i]
  <2> SUFFICES ASSUME NEW i \in 1..Len(q) PROVE Append(p, e)[i] = q[i]
    OBVIOUS
  <2>1. CASE i <= Len(p)
    BY <1>1, <1>2, <1>5, <2>1
  <2>2. CASE i = Len(p) + 1
    BY <1>1, <1>4, <1>5, <2>2
  <2> QED
    BY <1>1, <1>2, <2>1, <2>2
<1>7. Append(p, e) = q
  BY <1>1, <1>2, <1>5, <1>6, SeqEqual
<1> QED
  BY <1>7 DEF p, q, e

\* Nothing but reading a line changes what its commands are.
LEMMA LineStays ==
  ASSUME UNCHANGED <<commands, args>>
  PROVE  /\ \A k : Kind(k)' = Kind(k)
         /\ \A o : (IsOrigin(o)' <=> IsOrigin(o)) /\ Whole(o)' = Whole(o)
<1>1. \A k : Kind(k)' = Kind(k)
  BY DEF Kind
<1> QED
  BY <1>1 DEF IsOrigin, Whole

\* The origin is a command, and what it writes a sequence.
LEMMA WholeIsSequence ==
  ASSUME TypeInv, NEW o, IsOrigin(o)
  PROVE  /\ o \in Commands /\ Len(commands) \in Commands /\ o <= Len(commands)
         /\ \A j \in o..Len(commands) :
              j \in Commands /\ (j > o => j - 1 \in Commands /\ j - 1 >= o)
         /\ Len(Whole(o)) \in Nat /\ \E A : Whole(o) \in Seq(A)
<1>1. /\ o \in Commands /\ Len(commands) \in Commands /\ o <= Len(commands)
      /\ \A j \in o..Len(commands) :
           j \in Commands /\ (j > o => j - 1 \in Commands /\ j - 1 >= o)
  BY LenCommands, ShellAssumption DEF IsOrigin, Commands
<1>2. IsSequence(Whole(o))
  <2>1. CASE Kind(o) = "source"
    <3>1. IsSequence(args[o]) /\ args[o] # <<>>
      BY <1>1, <2>1 DEF TypeInv, Kind
    <3> QED
      BY <2>1, <3>1, TailIsSequence DEF Whole
  <2>2. CASE Kind(o) # "source"
    BY <2>2, EmptyIsSequence DEF Whole
  <2> QED
    BY <2>1, <2>2
<1>3. PICK A : Whole(o) \in Seq(A)
  BY <1>2 DEF IsSequence
<1>4. Len(Whole(o)) \in Nat
  BY <1>3
<1> QED
  BY <1>1, <1>3, <1>4

\* A pipe has an open end as long as the command at that end has not exited: its
\* own, or before it is born the shell's.
LEMMA OpenEnds ==
  ASSUME IInv, EndsInv, shell # "dead", NEW k \in 1..Len(commands) - 1
  PROVE  /\ proc[k] # "exited" => Open(W(k))
         /\ proc[k + 1] # "exited" => Open(R(k))
<1> DEFINE n == Len(commands)
<1>1. n \in Nat /\ n <= MaxCommands
  BY LenCommands, ShellAssumption DEF IInv
<1>2. R(k) \in EndsOf(commands) /\ W(k) \in EndsOf(commands)
  BY DEF EndsOf
<1>3. /\ k \in Commands /\ k + 1 \in Commands /\ k <= n /\ k + 1 <= n
      /\ Parent \in Procs /\ k \in Procs /\ k + 1 \in Procs
  BY <1>1, ShellAssumption DEF Commands, Procs, Parent
<1>4. W(k) \in Own(k) /\ R(k) \in Own(k + 1)
  <2>1. (k + 1) - 1 = k
    OBVIOUS
  <2> QED
    BY <1>2, <2>1 DEF Own
<1>5. ASSUME NEW j \in Commands, j <= n
      PROVE  \/ proc[j] = "exited"
             \/ \E p \in Procs : held[p] = EndsOf(commands)
             \/ held[j] = Own(j)
  <2>1. proc[j] = "none" => shell = "fork"
    BY <1>1, <1>5 DEF IInv, TypeInv, ChildrenInv, Commands
  <2>2. proc[j] \in {"none", "forked", "running", "exited"} /\ j \in Procs /\ Parent \in Procs
    BY <1>5 DEF IInv, TypeInv, Procs
  <2> QED
    BY <1>5, <2>1, <2>2 DEF EndsInv
<1> HIDE DEF n
<1>6. proc[k] # "exited" => Open(W(k))
  BY <1>2, <1>3, <1>4, <1>5 DEF Open
<1>7. proc[k + 1] # "exited" => Open(R(k))
  BY <1>2, <1>3, <1>4, <1>5 DEF Open
<1> QED
  BY <1>6, <1>7

\* The shell: a child that it forks has all ends, like the shell itself.
LEMMA ParentFlow == IInv /\ FlowInv /\ (Run \/ ForkFails) => FlowInv'
<1> SUFFICES ASSUME IInv, FlowInv, Run \/ ForkFails, shell' # "dead" PROVE FlowInv'
  BY DEF FlowInv
<1>1. /\ Run /\ shell # "dead"
      /\ UNCHANGED <<commands, args, hand, pipes, out>>
  BY DEF Run, Fork, CloseEnds, Waitpid, BackToPrompt, ForkFails, commandVars
<1>2. EndsInv /\ \A o : IsOrigin(o) => Drained(o) /\ Flows(o)
  BY <1>1 DEF FlowInv
<1>3. /\ Len(commands) \in Nat /\ Len(commands) <= MaxCommands /\ MaxCommands \in Nat
      /\ at \in Nat /\ at >= 1
      /\ Parent \in Procs /\ \A k \in Commands : k \in Procs /\ k # Parent
  BY LenCommands, ShellAssumption DEF IInv, TypeInv, Procs, Parent, Commands
<1>4. \A k \in Commands : /\ NotStarted(k)' <=> NotStarted(k)
                          /\ proc'[k] = "exited" <=> proc[k] = "exited"
  <2>1. CASE Fork
    <3>1. at \in Commands
      BY <1>3, <2>1 DEF Fork, Commands
    <3>2. proc[at] = "none"
      BY <1>3, <2>1, <3>1 DEF Fork, IInv, ChildrenInv
    <3>3. \A k \in Commands : proc'[k] = IF k = at THEN "forked" ELSE proc[k]
      BY <2>1 DEF Fork, IInv, TypeInv
    <3> QED
      BY <3>2, <3>3 DEF NotStarted
  <2>2. CASE CloseEnds \/ Waitpid \/ BackToPrompt
    BY <2>2 DEF CloseEnds, Waitpid, BackToPrompt, NotStarted
  <2> QED
    BY <1>1, <2>1, <2>2 DEF Run
<1>5. EndsInv'
  <2>1. CASE Fork
    <3>1. at \in Commands
      BY <1>3, <2>1 DEF Fork, Commands
    <3>2. /\ held[Parent] = EndsOf(commands) /\ held'[at] = held[Parent]
          /\ \A p \in Procs : p # at => held'[p] = held[p]
          /\ \A k \in Commands : proc'[k] = IF k = at THEN "forked" ELSE proc[k]
      BY <1>2, <1>3, <2>1, <3>1 DEF Fork, EndsInv, IInv, TypeInv
    <3>3. held'[Parent] = held[Parent]
      BY <1>3, <3>1, <3>2
    <3>4. EndsOf(commands)' = EndsOf(commands) /\ \A k \in Commands : Own(k)' = Own(k)
      BY <1>1 DEF EndsOf, Own
    <3>5. ASSUME NEW k \in Commands
          PROVE  /\ proc'[k] = "forked" => held'[k] = EndsOf(commands)
                 /\ proc'[k] = "running" => held'[k] = Own(k)
      BY <1>2, <1>3, <3>2, <3>5 DEF EndsInv
    <3>6. \A k \in Commands : NotStarted(k)' => hand'[k] = <<>>
      BY <1>1, <1>2, <1>4 DEF EndsInv
    <3> QED
      BY <3>2, <3>3, <3>4, <3>5, <3>6 DEF EndsInv
  <2>2. CASE CloseEnds
    <3>1. \A k \in Commands : held'[k] = held[k]
      BY <1>3, <2>2 DEF CloseEnds, IInv, TypeInv
    <3>2. shell' = "wait" /\ UNCHANGED proc
      BY <2>2 DEF CloseEnds
    <3> QED
      BY <1>1, <1>2, <3>1, <3>2 DEF EndsInv, EndsOf, Own, NotStarted
  <2>3. CASE Waitpid \/ BackToPrompt
    <3>1. UNCHANGED <<held, proc>> /\ shell' # "fork"
      BY <2>3 DEF Waitpid, BackToPrompt
    <3> QED
      BY <1>1, <1>2, <3>1 DEF EndsInv, EndsOf, Own, NotStarted
  <2> QED
    BY <1>1, <2>1, <2>2, <2>3 DEF Run
<1>6. ASSUME NEW o, IsOrigin(o)' PROVE Drained(o)' /\ Flows(o)'
  <2>1. IsOrigin(o) /\ Whole(o)' = Whole(o)
    BY <1>1, <1>6, LineStays
  <2>2. Drained(o) /\ Flows(o)
    BY <1>2, <2>1
  <2>3. /\ o \in Commands
        /\ \A k \in o..Len(commands) : k \in Commands /\ (k > o => k - 1 \in Commands)
    BY <1>3, <2>1 DEF IsOrigin, Commands
  <2>4. Drained(o)'
    BY <1>1, <1>4, <2>2, <2>3 DEF Drained
  <2>5. \A w, r : Stretches(o, w, r)' <=> Stretches(o, w, r)
    BY <1>1, <1>4, <2>1, <2>3 DEF Stretches
  <2> QED
    BY <2>1, <2>2, <2>4, <2>5 DEF Flows
<1> QED
  BY <1>5, <1>6 DEF FlowInv

\* A new line: all of it is still to be written, and nothing has gone anywhere.
LEMMA ReadLineFlow == IInv /\ ReadLine => FlowInv'
<1> SUFFICES ASSUME IInv, ReadLine, shell' # "dead" PROVE FlowInv'
  BY DEF FlowInv
<1>1. /\ shell' = "fork" /\ held' = [held EXCEPT ![Parent] = @ \cup EndsOf(commands')]
      /\ hand' = Nothing /\ pipes' = Nothing /\ out' = <<>> /\ proc' = Unborn
  BY DEF ReadLine
<1>2. IInv'
  BY ReadLineInv
<1>3. \A k \in Commands : proc'[k] = "none" /\ NotStarted(k)' /\ hand'[k] = <<>> /\ pipes'[k] = <<>>
  BY <1>1 DEF Unborn, Nothing, NotStarted
<1>4. EndsInv'
  <2>1. held[Parent] = {} /\ Parent \in Procs
    BY DEF IInv, ChildrenInv, ReadLine, Procs
  <2>2. held'[Parent] = EndsOf(commands')
    BY <1>1, <2>1 DEF IInv, TypeInv
  <2> QED
    BY <1>3, <2>2 DEF EndsInv, EndsOf
<1>5. ASSUME NEW o, IsOrigin(o)' PROVE Drained(o)' /\ Flows(o)'
  <2>1. o \in Commands /\ Len(commands') \in Commands /\ o <= Len(commands')
    <3>1. Len(commands') \in Nat /\ Len(commands') <= MaxCommands
      BY <1>2 DEF IInv, TypeInv
    <3> QED
      BY <1>5, <3>1, ShellAssumption DEF IsOrigin, Commands
  <2>0. Len(Whole(o)') \in Nat
    <3>1. CASE Kind(o)' = "source"
      <4>1. IsSequence(args'[o]) /\ args'[o] # <<>>
        BY <1>2, <2>1, <3>1 DEF IInv, TypeInv, Kind
      <4>2. Len(Tail(args'[o])) \in Nat
        BY <4>1, TailIsSequence DEF IsSequence
      <4> QED
        BY <3>1, <4>2 DEF Whole
    <3>2. CASE Kind(o)' # "source"
      BY <3>2, EmptyIsSequence DEF Whole
    <3> QED
      BY <3>1, <3>2
  <2>2. \A k \in o..Len(commands') : k \in Commands /\ (k > o => k - 1 \in Commands)
    BY <2>1, ShellAssumption DEF Commands
  <2>3. Drained(o)'
    BY <1>3, <2>2 DEF Drained
  <2>4. PICK l \in Nat : l = Len(Whole(o)')
    BY <2>0
  <2> DEFINE w == [k \in Commands |-> 0]
             r == [k \in Commands |-> IF k = o THEN l ELSE 0]
  <2>5. w \in [Commands -> 0..l] /\ r \in [Commands -> 0..l]
    OBVIOUS
  <2>6. Stretches(o, w, r)'
    <3>1. \A E : SubSeq(E, 1, 0) = <<>> /\ SubSeq(E, 0 + 1, 0) = <<>>
      BY SubSeqEmpty
    <3>2. \A k \in Commands : w[k] = 0 /\ r[k] = IF k = o THEN l ELSE 0
      OBVIOUS
    <3> HIDE DEF w, r
    <3>3. out' = SubSeq(Whole(o)', 1, w[Len(commands')])
      BY <1>1, <2>1, <3>1, <3>2
    <3>4. ASSUME NEW k \in o..Len(commands')
          PROVE  /\ w[k] <= r[k] /\ NotStarted(k)'
                 /\ k > o => /\ w[k] = r[k] /\ r[k] <= w[k - 1]
                             /\ pipes'[k - 1] = SubSeq(Whole(o)', r[k] + 1, w[k - 1])
      <4>1. k \in Commands /\ w[k] = 0 /\ r[k] \in {0, l} /\ NotStarted(k)'
        BY <1>3, <2>2, <3>2
      <4>2. k > o => /\ r[k] = 0 /\ w[k - 1] = 0 /\ pipes'[k - 1] = <<>>
                     /\ SubSeq(Whole(o)', 0 + 1, 0) = <<>>
        BY <1>3, <2>1, <2>2, <3>1, <3>2
      <4>3. w[k] <= r[k]
        BY <2>4, <4>1
      <4>4. ASSUME k > o
            PROVE  pipes'[k - 1] = SubSeq(Whole(o)', r[k] + 1, w[k - 1])
        <5>1. r[k] = 0 /\ w[k - 1] = 0
          BY <4>2, <4>4
        <5>2. SubSeq(Whole(o)', r[k] + 1, w[k - 1]) = <<>>
          BY <3>1, <5>1, Zenon
        <5> QED
          BY <4>2, <4>4, <5>2, Zenon
      <4>5. k > o => w[k] = r[k] /\ r[k] <= w[k - 1]
        BY <4>1, <4>2
      <4> QED
        BY <4>1, <4>3, <4>4, <4>5
    <3> QED
      BY <2>1, <2>4, <3>2, <3>3, <3>4 DEF Stretches
  <2>7. Flows(o)'
    <3> HIDE DEF w, r
    <3> QED
      BY <2>4, <2>5, <2>6 DEF Flows
  <2> QED
    BY <2>3, <2>7
<1> QED
  BY <1>4, <1>5 DEF FlowInv
-----------------------------------------------------------------------------
\* A command in front of the origin touches nothing that the output depends on.
LEMMA UpstreamFlow ==
  ASSUME IInv, NEW o, IsOrigin(o), Drained(o), Flows(o), NEW k \in Commands, Child(k), k < o
  PROVE  Drained(o)' /\ Flows(o)'
<1>1. o \in Commands /\ Len(commands) \in Commands /\ o <= Len(commands)
  BY WholeIsSequence DEF IInv
<1>2. /\ UNCHANGED <<commands, args>> /\ Whole(o)' = Whole(o)
  <2>1. UNCHANGED <<commands, args>>
    BY DEF Child, Exec, Read, EndOfFile, Write, Sigpipe, Finish, End, commandVars
  <2> QED
    BY <2>1, LineStays
<1>3. /\ UNCHANGED out
      /\ \A j \in Commands : j >= o => /\ proc'[j] = proc[j] /\ hand'[j] = hand[j]
                                       /\ pipes'[j] = pipes[j]
  <2>0. \A j \in Commands : j >= o => j # k /\ j # k - 1
    BY <1>1 DEF Commands
  <2>1. CASE Exec(k)
    BY <2>0, <2>1 DEF Exec, IInv, TypeInv
  <2>2. CASE End(k)
    BY <2>0, <2>2 DEF End, commandVars, IInv, TypeInv
  <2>3. CASE Read(k)
    BY <2>0, <2>3 DEF Read, IInv, TypeInv
  <2>4. CASE Write(k)
    <3>1. k # Len(commands)
      BY <1>1 DEF Commands
    <3> QED
      BY <2>0, <2>4, <3>1 DEF Write, IInv, TypeInv
  <2> QED
    BY <2>1, <2>2, <2>3, <2>4 DEF Child, EndOfFile, Sigpipe, Finish
<1>4. \A j \in o..Len(commands) : /\ j \in Commands /\ j >= o
                                  /\ j > o => j - 1 \in Commands /\ j - 1 >= o
  BY WholeIsSequence DEF IInv, Commands
<1>5. Drained(o)'
  BY <1>2, <1>3, <1>4 DEF Drained
<1>6. \A w, r : Stretches(o, w, r)' <=> Stretches(o, w, r)
  <2>1. /\ NotStarted(o)' <=> NotStarted(o)
        /\ \A j \in o..Len(commands) :
             /\ hand'[j] = hand[j] /\ (NotStarted(j)' <=> NotStarted(j))
             /\ j > o => pipes'[j - 1] = pipes[j - 1]
    BY <1>1, <1>3, <1>4 DEF NotStarted, Commands
  <2> QED
    BY <1>2, <1>3, <2>1 DEF Stretches
<1> QED
  BY <1>2, <1>5, <1>6 DEF Flows

\* The origin starts with all it has to write, a filter with nothing.
LEMMA ExecFlow ==
  ASSUME IInv, EndsInv, NEW o, IsOrigin(o), Drained(o), Flows(o),
         NEW k \in o..Len(commands), Exec(k)
  PROVE  Drained(o)' /\ Flows(o)'
<1>1. /\ o \in Commands /\ Len(commands) \in Commands /\ o <= Len(commands) /\ k \in Commands
      /\ \A j \in o..Len(commands) : j \in Commands /\ (j > o => j - 1 \in Commands)
  BY WholeIsSequence DEF IInv
<1>2. UNCHANGED <<commands, args, pipes, out>> /\ Whole(o)' = Whole(o)
  BY LineStays DEF Exec
<1>3. /\ proc[k] = "forked" /\ hand[k] = <<>>
      /\ \A j \in Commands : /\ proc'[j] = IF j = k THEN "running" ELSE proc[j]
                             /\ j # k => hand'[j] = hand[j]
      /\ hand'[k] = Whole(k)
  BY <1>1 DEF Exec, IInv, TypeInv, EndsInv, NotStarted, Whole
<1>4. Drained(o)'
  <2>1. \A j \in o..Len(commands) : proc'[j] = "exited" => j # k /\ proc[j] = "exited"
    BY <1>1, <1>3
  <2>2. \A j \in Commands : proc[j] = "exited" => proc'[j] = "exited"
    BY <1>3
  <2> QED
    BY <1>1, <1>2, <1>3, <2>1, <2>2 DEF Drained
<1>5. PICK w, r \in [Commands -> 0..Len(Whole(o))] : Stretches(o, w, r)
  BY DEF Flows
<1>6. hand'[k] = SubSeq(Whole(o), w[k] + 1, r[k])
  <2>1. CASE k = o
    <3>1. w[k] = 0 /\ r[k] = Len(Whole(o))
      BY <1>3, <1>5, <2>1 DEF Stretches, NotStarted
    <3>2. PICK A : Whole(o) \in Seq(A)
      BY WholeIsSequence DEF IInv
    <3>3. Whole(o) = SubSeq(Whole(o), 1, Len(Whole(o)))
      <4>1. 1 = 0 + 1 /\ Len(Whole(o)) \in 0..Len(Whole(o)) /\ 0 \in 0..Len(Whole(o))
        BY <3>2
      <4> HIDE DEF Whole
      <4>2. /\ SubSeq(Whole(o), 1, Len(Whole(o))) \in Seq(A)
            /\ Len(SubSeq(Whole(o), 1, Len(Whole(o)))) = Len(Whole(o))
            /\ \A i \in 1..Len(Whole(o)) : SubSeq(Whole(o), 1, Len(Whole(o)))[i] = Whole(o)[i]
        BY <3>2
      <4> QED
        BY <3>2, <4>2, SeqEqual
    <3> QED
      BY <1>3, <2>1, <3>1, <3>3
  <2>2. CASE k # o
    <3>1. Kind(k) = "filter"
      BY <1>1, <2>2 DEF IsOrigin, Commands
    <3>2. hand'[k] = <<>>
      BY <1>3, <3>1 DEF Whole
    <3>3. w[k] = r[k] /\ w[k] \in Nat
      BY <1>1, <1>3, <1>5, <2>2 DEF Stretches, NotStarted, Commands
    <3>4. SubSeq(Whole(o), w[k] + 1, r[k]) = <<>>
      BY <3>3, SubSeqEmpty
    <3> QED
      BY <3>2, <3>4
  <2> QED
    BY <2>1, <2>2
<1>7. Stretches(o, w, r)'
  BY <1>1, <1>2, <1>3, <1>5, <1>6 DEF Stretches, NotStarted
<1> QED
  BY <1>2, <1>4, <1>5, <1>7 DEF Flows

\* A command ends when it has nothing left to do: the end of file comes after the
\* end of the one that writes, and no pipe on the way to the end is broken.
LEMMA EndFlow ==
  ASSUME IInv, EndsInv, shell # "dead", NEW o, IsOrigin(o), Drained(o), Flows(o),
         NEW k \in o..Len(commands), EndOfFile(k) \/ Sigpipe(k) \/ Finish(k)
  PROVE  Drained(o)' /\ Flows(o)'
<1>1. /\ o \in Commands /\ Len(commands) \in Commands /\ o <= Len(commands) /\ k \in Commands
      /\ \A j \in o..Len(commands) :
           j \in Commands /\ (j > o => j - 1 \in Commands /\ j - 1 >= o)
  BY WholeIsSequence DEF IInv
<1>2. End(k)
  BY DEF EndOfFile, Sigpipe, Finish
<1>3. /\ UNCHANGED <<commands, args, hand, pipes, out>> /\ Whole(o)' = Whole(o)
      /\ proc[k] = "running"
      /\ \A j \in Commands : proc'[j] = IF j = k THEN "exited" ELSE proc[j]
  BY <1>1, <1>2, LineStays DEF End, commandVars, IInv, TypeInv
<1>4. PICK w, r \in [Commands -> 0..Len(Whole(o))] : Stretches(o, w, r)
  BY DEF Flows
<1>5. ~Sigpipe(k)
  <2> SUFFICES ASSUME Sigpipe(k) PROVE FALSE
    OBVIOUS
  <2>1. k \in 1..Len(commands) - 1 /\ k + 1 \in o..Len(commands) /\ k + 1 > o /\ (k + 1) - 1 = k
    BY <1>1 DEF Sigpipe, Commands
  <2>2. proc[k + 1] = "exited"
    BY <2>1, OpenEnds DEF Sigpipe
  <2>3. proc[k] = "exited"
    BY <2>1, <2>2 DEF Drained
  <2> QED
    BY <1>3, <2>3
<1>6. k > o => Kind(k) = "filter"
  BY <1>1 DEF IsOrigin, Commands
<1>7. /\ hand[k] = <<>>
      /\ k > o => proc[k - 1] = "exited" /\ pipes[k - 1] = <<>>
  <2>1. CASE EndOfFile(k)
    <3>1. k > o
      BY <1>1, <2>1 DEF EndOfFile, IsOrigin, Commands
    <3>2. k - 1 \in 1..Len(commands) - 1
      BY <1>1, <3>1 DEF Commands
    <3> QED
      BY <2>1, <3>2, OpenEnds DEF EndOfFile
  <2>2. CASE Finish(k) /\ Kind(k) = "source"
    BY <1>6, <2>2 DEF Finish
  <2>3. CASE Finish(k) /\ Kind(k) = "stop"
    <3>1. k = o
      BY <1>1, <1>6, <2>3 DEF Commands
    <3>2. Whole(o) = <<>>
      BY <2>3, <3>1 DEF Whole
    <3>3. /\ hand[o] = SubSeq(Whole(o), w[o] + 1, r[o])
          /\ r[o] = 0 /\ w[o] \in Nat
      BY <1>1, <1>3, <1>4, <3>1, <3>2, EmptyIsSequence DEF Stretches, NotStarted
    <3>4. SubSeq(Whole(o), w[o] + 1, r[o]) = <<>>
      BY <3>3, SubSeqEmpty
    <3> QED
      BY <3>1, <3>3, <3>4
  <2> QED
    BY <1>5, <2>1, <2>2, <2>3 DEF Finish
<1>8. Drained(o)'
  <2>1. ASSUME NEW j \in o..Len(commands), proc'[j] = "exited"
        PROVE  /\ hand[j] = <<>>
               /\ j > o => proc'[j - 1] = "exited" /\ pipes[j - 1] = <<>>
    <3>1. CASE j = k
      <4>1. j > o => proc[j - 1] = "exited" /\ j - 1 \in Commands
        BY <1>1, <1>7, <3>1
      <4> QED
        BY <1>3, <1>7, <3>1, <4>1
    <3>2. CASE j # k
      <4>1. /\ hand[j] = <<>>
            /\ j > o => proc[j - 1] = "exited" /\ pipes[j - 1] = <<>> /\ j - 1 \in Commands
        BY <1>1, <1>3, <2>1, <3>2 DEF Drained
      <4> QED
        BY <1>3, <4>1
    <3> QED
      BY <3>1, <3>2
  <2> QED
    BY <1>3, <2>1 DEF Drained
<1>9. Stretches(o, w, r)'
  <2>1. \A j \in Commands : NotStarted(j)' <=> NotStarted(j)
    BY <1>3 DEF NotStarted
  <2> QED
    BY <1>1, <1>3, <1>4, <2>1 DEF Stretches
<1> QED
  BY <1>3, <1>4, <1>8, <1>9 DEF Flows

\* A filter takes the first element of its pipe, the next one it has to read.
LEMMA ReadFlow ==
  ASSUME IInv, NEW o, IsOrigin(o), Drained(o), Flows(o), NEW k \in o..Len(commands), Read(k)
  PROVE  Drained(o)' /\ Flows(o)'
<1>1. /\ o \in Commands /\ Len(commands) \in Commands /\ o <= Len(commands) /\ k \in Commands
      /\ \A j \in o..Len(commands) :
           j \in Commands /\ (j > o => j - 1 \in Commands /\ j - 1 >= o)
  BY WholeIsSequence DEF IInv
<1>2. k > o /\ k - 1 \in Commands
  BY <1>1 DEF Read, IsOrigin, Commands
<1>3. /\ UNCHANGED <<commands, args, out, proc>> /\ Whole(o)' = Whole(o)
      /\ proc[k] = "running" /\ hand[k] = <<>> /\ pipes[k - 1] # <<>>
      /\ hand'[k] = <<Head(pipes[k - 1])>> /\ pipes'[k - 1] = Tail(pipes[k - 1])
      /\ \A j \in Commands : /\ j # k => hand'[j] = hand[j]
                             /\ j # k - 1 => pipes'[j] = pipes[j]
  BY <1>1, <1>2, LineStays DEF Read, IInv, TypeInv
<1>4. Drained(o)'
  <2>1. \A j \in o..Len(commands) : proc[j] = "exited" => j # k /\ j - 1 # k - 1
    BY <1>3
  <2> QED
    BY <1>1, <1>3, <2>1 DEF Drained
<1>5. PICK w, r \in [Commands -> 0..Len(Whole(o))] : Stretches(o, w, r)
  BY DEF Flows
<1>6. PICK A : Whole(o) \in Seq(A)
  BY WholeIsSequence DEF IInv
<1> DEFINE a == r[k]
           b == w[k - 1]
<1>7. /\ hand[k] = SubSeq(Whole(o), w[k] + 1, a) /\ w[k] <= a
      /\ a <= b /\ pipes[k - 1] = SubSeq(Whole(o), a + 1, b)
      /\ w[k] \in 0..Len(Whole(o)) /\ a \in 0..Len(Whole(o)) /\ b \in 0..Len(Whole(o))
      /\ Len(Whole(o)) \in Nat
  <2>1. Len(Whole(o)) \in Nat
    BY <1>6
  <2> QED
    BY <1>1, <1>2, <1>3, <1>5, <2>1 DEF Stretches, NotStarted
<1> HIDE DEF a, b
<1>8. w[k] = a /\ a < b
  <2>1. a \in w[k]..Len(Whole(o)) /\ b \in a..Len(Whole(o))
    BY <1>7
  <2>2. w[k] = a
    <3>1. PICK c \in 0..Len(Whole(o)) : c = w[k]
      BY <1>7
    <3>2. a \in c..Len(Whole(o)) /\ SubSeq(Whole(o), c + 1, a) = <<>>
      BY <1>3, <1>7, <2>1, <3>1
    <3>3. Len(SubSeq(Whole(o), c + 1, a)) = a - c
      BY <1>6, <3>2, Piece
    <3>4. a - c = 0
      BY <3>2, <3>3, EmptyIsSequence
    <3> QED
      BY <1>7, <3>1, <3>4
  <2>3. a # b
    <3>1. SubSeq(Whole(o), a + 1, b) # <<>>
      BY <1>3, <1>7
    <3> QED
      BY <1>6, <1>7, <2>1, <3>1, Piece
  <2> QED
    BY <1>7, <2>2, <2>3
<1>9. /\ Head(pipes[k - 1]) = Whole(o)[a + 1]
      /\ Tail(pipes[k - 1]) = SubSeq(Whole(o), (a + 1) + 1, b)
  <2>1. b \in a + 1..Len(Whole(o))
    BY <1>7, <1>8
  <2> QED
    BY <1>6, <1>7, <2>1, TakeFromPiece
<1>10. <<Whole(o)[a + 1]>> = SubSeq(Whole(o), w[k] + 1, a + 1)
  <2>1. a \in a..Len(Whole(o)) - 1
    BY <1>7, <1>8
  <2>2. Append(SubSeq(Whole(o), a + 1, a), Whole(o)[a + 1]) = SubSeq(Whole(o), a + 1, a + 1)
    BY <1>6, <1>7, <2>1, AddToPiece
  <2>3. SubSeq(Whole(o), a + 1, a) = <<>>
    BY <1>7, SubSeqEmpty
  <2>4. \A e : Append(<<>>, e) = <<e>>
    OBVIOUS
  <2> QED
    BY <1>8, <2>2, <2>3, <2>4
<1> DEFINE q == [r EXCEPT ![k] = a + 1]
<1>11. /\ q \in [Commands -> 0..Len(Whole(o))] /\ q[k] = a + 1
       /\ \A j \in Commands : j # k => q[j] = r[j]
  <2>1. a + 1 \in 0..Len(Whole(o))
    BY <1>7, <1>8
  <2> QED
    BY <1>1, <2>1
<1> HIDE DEF q
<1>12. Stretches(o, w, q)'
  <2>1. ASSUME NEW j \in o..Len(commands), j # k
        PROVE  /\ w[j] <= q[j]
               /\ ~NotStarted(j) => hand'[j] = SubSeq(Whole(o), w[j] + 1, q[j])
               /\ j > o => /\ NotStarted(j) => w[j] = q[j]
                           /\ q[j] <= w[j - 1]
                           /\ pipes'[j - 1] = SubSeq(Whole(o), q[j] + 1, w[j - 1])
    <3>1. j \in Commands /\ q[j] = r[j] /\ hand'[j] = hand[j]
      BY <1>1, <1>3, <1>11, <2>1
    <3>2. j > o => j - 1 \in Commands /\ j - 1 # k - 1
      BY <1>1, <2>1
    <3>3. j > o => pipes'[j - 1] = pipes[j - 1]
      BY <1>3, <3>2
    <3> QED
      BY <1>5, <3>1, <3>3 DEF Stretches
  <2>2. /\ w[k] <= q[k] /\ hand'[k] = SubSeq(Whole(o), w[k] + 1, q[k])
        /\ q[k] <= w[k - 1] /\ pipes'[k - 1] = SubSeq(Whole(o), q[k] + 1, w[k - 1])
    <3>1. w[k - 1] = b
      BY DEF b
    <3> QED
      BY <1>3, <1>7, <1>8, <1>9, <1>10, <1>11, <3>1
  <2>3. /\ ~NotStarted(k) /\ q[o] = Len(Whole(o)) /\ (NotStarted(o) => w[o] = 0)
        /\ out = SubSeq(Whole(o), 1, w[Len(commands)])
    BY <1>1, <1>2, <1>3, <1>5, <1>11 DEF Stretches, NotStarted
  <2>4. \A j \in Commands : NotStarted(j)' <=> NotStarted(j)
    BY <1>3 DEF NotStarted
  <2> QED
    BY <1>1, <1>2, <1>3, <2>1, <2>2, <2>3, <2>4 DEF Stretches
<1> QED
  BY <1>3, <1>4, <1>5, <1>11, <1>12 DEF Flows

\* A command writes the first element in its hand, the next one that the pipe
\* behind it, or the screen, has to get.
LEMMA WriteFlow ==
  ASSUME IInv, NEW o, IsOrigin(o), Drained(o), Flows(o), NEW k \in o..Len(commands), Write(k)
  PROVE  Drained(o)' /\ Flows(o)'
<1>1. /\ o \in Commands /\ Len(commands) \in Commands /\ o <= Len(commands) /\ k \in Commands
      /\ \A j \in o..Len(commands) :
           j \in Commands /\ (j > o => j - 1 \in Commands /\ j - 1 >= o)
  BY WholeIsSequence DEF IInv
<1>2. /\ UNCHANGED <<commands, args, proc>> /\ Whole(o)' = Whole(o)
      /\ proc[k] = "running" /\ hand[k] # <<>> /\ hand'[k] = Tail(hand[k])
      /\ \A j \in Commands : j # k => hand'[j] = hand[j] /\ pipes'[j] = pipes[j]
      /\ IF k = Len(commands)
         THEN out' = Append(out, Head(hand[k])) /\ UNCHANGED pipes
         ELSE pipes'[k] = Append(pipes[k], Head(hand[k])) /\ UNCHANGED out
  BY <1>1, LineStays DEF Write, IInv, TypeInv
<1>3. Drained(o)'
  <2>1. ASSUME NEW j \in o..Len(commands), proc[j] = "exited"
        PROVE  hand'[j] = <<>> /\ (j > o => proc[j - 1] = "exited" /\ pipes'[j - 1] = <<>>)
    <3>1. /\ hand[j] = <<>> /\ j \in Commands
          /\ j > o => proc[j - 1] = "exited" /\ pipes[j - 1] = <<>> /\ j - 1 \in Commands
      BY <1>1, <2>1 DEF Drained
    <3>2. j # k /\ (j > o => j - 1 # k)
      BY <1>2, <2>1, <3>1
    <3> QED
      BY <1>2, <3>1, <3>2
  <2> QED
    BY <1>2, <2>1 DEF Drained
<1>4. PICK w, r \in [Commands -> 0..Len(Whole(o))] : Stretches(o, w, r)
  BY DEF Flows
<1>5. PICK A : Whole(o) \in Seq(A)
  BY WholeIsSequence DEF IInv
<1>6. PICK a, b \in 0..Len(Whole(o)) : a = w[k] /\ b = r[k]
  BY <1>1
<1>7. hand[k] = SubSeq(Whole(o), a + 1, b) /\ a <= b /\ Len(Whole(o)) \in Nat
  <2>1. ~NotStarted(k)
    BY <1>2 DEF NotStarted
  <2>2. hand[k] = SubSeq(Whole(o), w[k] + 1, r[k]) /\ w[k] <= r[k]
    BY <1>4, <2>1 DEF Stretches
  <2>3. Len(Whole(o)) \in Nat
    BY <1>5
  <2> QED
    BY <1>6, <2>2, <2>3
<1>8. a < b
  <2>1. a = b => SubSeq(Whole(o), a + 1, b) = <<>>
    BY <1>7, SubSeqEmpty
  <2> QED
    BY <1>2, <1>7, <2>1
<1>9. /\ Head(hand[k]) = Whole(o)[a + 1]
      /\ hand'[k] = SubSeq(Whole(o), (a + 1) + 1, b)
  <2>1. b \in a + 1..Len(Whole(o))
    BY <1>7, <1>8
  <2> QED
    BY <1>2, <1>5, <1>7, <2>1, TakeFromPiece
<1> DEFINE q == [w EXCEPT ![k] = a + 1]
<1>10. /\ q \in [Commands -> 0..Len(Whole(o))] /\ q[k] = a + 1
       /\ \A j \in Commands : j # k => q[j] = w[j]
  <2>1. a + 1 \in 0..Len(Whole(o))
    BY <1>7, <1>8
  <2> QED
    BY <1>1, <2>1
<1> HIDE DEF q
<1>11. \A c \in 0..a : Append(SubSeq(Whole(o), c + 1, a), Whole(o)[a + 1])
                         = SubSeq(Whole(o), c + 1, a + 1)
  <2>1. \A c \in 0..a : c \in 0..Len(Whole(o)) /\ a \in c..Len(Whole(o)) - 1
    BY <1>7, <1>8
  <2> QED
    BY <1>5, <2>1, AddToPiece
<1>12. out' = SubSeq(Whole(o), 1, q[Len(commands)])
  <2>1. CASE k = Len(commands)
    <3>1. out = SubSeq(Whole(o), 0 + 1, a)
      BY <1>4, <1>6, <2>1 DEF Stretches
    <3>2. Append(SubSeq(Whole(o), 0 + 1, a), Whole(o)[a + 1]) = SubSeq(Whole(o), 0 + 1, a + 1)
      <4>1. 0 \in 0..a
        BY <1>7
      <4> QED
        BY <1>11, <4>1
    <3>3. out' = Append(out, Whole(o)[a + 1])
      BY <1>2, <1>9, <2>1
    <3>4. out' = SubSeq(Whole(o), 0 + 1, a + 1)
      BY <3>1, <3>2, <3>3, Zenon
    <3> QED
      BY <1>10, <2>1, <3>4
  <2>2. CASE k # Len(commands)
    BY <1>1, <1>2, <1>4, <1>10, <2>2 DEF Stretches
  <2> QED
    BY <2>1, <2>2
<1>13. ASSUME NEW j \in o..Len(commands), j > o
       PROVE  r[j] <= q[j - 1] /\ pipes'[j - 1] = SubSeq(Whole(o), r[j] + 1, q[j - 1])
  <2>1. /\ j \in Commands /\ j - 1 \in Commands /\ j - 1 # Len(commands) /\ r[j] \in Nat
        /\ r[j] <= w[j - 1] /\ pipes[j - 1] = SubSeq(Whole(o), r[j] + 1, w[j - 1])
    BY <1>1, <1>4, <1>7, <1>13 DEF Stretches, Commands
  <2>2. CASE j - 1 = k
    <3>1. r[j] \in 0..a /\ pipes[k] = SubSeq(Whole(o), r[j] + 1, a)
      BY <1>6, <2>1, <2>2
    <3>2. pipes'[k] = SubSeq(Whole(o), r[j] + 1, a + 1)
      BY <1>2, <1>9, <1>11, <2>1, <2>2, <3>1
    <3>3. r[j] <= a + 1
      BY <3>1
    <3> QED
      BY <1>10, <2>2, <3>2, <3>3
  <2>3. CASE j - 1 # k
    BY <1>2, <1>10, <2>1, <2>3
  <2> QED
    BY <2>2, <2>3
<1>14. ASSUME NEW j \in o..Len(commands)
       PROVE  /\ q[j] <= r[j]
              /\ ~NotStarted(j) => hand'[j] = SubSeq(Whole(o), q[j] + 1, r[j])
              /\ j > o => (NotStarted(j) => q[j] = r[j])
  <2>1. CASE j = k
    <3>1. ~NotStarted(k)
      BY <1>2 DEF NotStarted
    <3>2. q[k] <= r[k] /\ hand'[k] = SubSeq(Whole(o), q[k] + 1, r[k])
      BY <1>6, <1>8, <1>9, <1>10
    <3> QED
      BY <2>1, <3>1, <3>2
  <2>2. CASE j # k
    BY <1>1, <1>2, <1>4, <1>10, <2>2 DEF Stretches
  <2> QED
    BY <2>1, <2>2
<1>15. r[o] = Len(Whole(o)) /\ (NotStarted(o) => q[o] = 0)
  BY <1>1, <1>2, <1>4, <1>10 DEF Stretches, NotStarted
<1>16. Stretches(o, q, r)'
  <2>1. \A j \in Commands : NotStarted(j)' <=> NotStarted(j)
    BY <1>2 DEF NotStarted
  <2> QED
    BY <1>1, <1>2, <1>12, <1>13, <1>14, <1>15, <2>1 DEF Stretches
<1> QED
  BY <1>2, <1>3, <1>4, <1>10, <1>16 DEF Flows

\* The ends that are open follow a command through its life.
LEMMA ChildEnds ==
  ASSUME IInv, EndsInv, NEW k \in Commands, Child(k)
  PROVE  EndsInv'
<1>1. /\ UNCHANGED <<shell, commands, args>> /\ k \in Procs /\ Parent \in Procs /\ k # Parent
      /\ \A j \in Commands : j \in Procs /\ j # Parent
  BY DEF Child, Exec, Read, EndOfFile, Write, Sigpipe, Finish, End, commandVars, Procs, Parent,
         Commands
<1>2. EndsOf(commands)' = EndsOf(commands) /\ \A j : Own(j)' = Own(j)
  BY <1>1 DEF EndsOf, Own
<1>3. /\ held'[Parent] = held[Parent]
      /\ \A j \in Commands : j # k => /\ proc'[j] = proc[j] /\ held'[j] = held[j]
                                      /\ hand'[j] = hand[j]
      /\ proc'[k] = "exited" \/ (proc'[k] = "running" /\ held'[k] = Own(k))
  <2>1. CASE Exec(k)
    BY <1>1, <2>1 DEF Exec, IInv, TypeInv
  <2>2. CASE End(k)
    BY <1>1, <2>2 DEF End, commandVars, IInv, TypeInv
  <2>3. CASE Read(k)
    BY <1>1, <2>3 DEF Read, IInv, TypeInv, EndsInv
  <2>4. CASE Write(k)
    BY <1>1, <2>4 DEF Write, IInv, TypeInv, EndsInv
  <2> QED
    BY <2>1, <2>2, <2>3, <2>4 DEF Child, EndOfFile, Sigpipe, Finish
<1> QED
  BY <1>1, <1>2, <1>3 DEF EndsInv, NotStarted

\* So every step of a command keeps the pieces together.
LEMMA ChildFlow == ASSUME NEW k \in Commands, IInv, FlowInv, Child(k) PROVE FlowInv'
<1> SUFFICES ASSUME shell' # "dead" PROVE FlowInv'
  BY DEF FlowInv
<1>1. UNCHANGED <<shell, commands, args>>
  BY DEF Child, Exec, Read, EndOfFile, Write, Sigpipe, Finish, End, commandVars
<1>2. shell # "dead" /\ EndsInv
  BY <1>1 DEF FlowInv
<1>3. ASSUME NEW o, IsOrigin(o)' PROVE Drained(o)' /\ Flows(o)'
  <2>1. IsOrigin(o)
    BY <1>1, <1>3, LineStays
  <2>2. Drained(o) /\ Flows(o)
    BY <1>2, <2>1 DEF FlowInv
  <2>3. o \in Nat /\ k \in Nat /\ k <= Len(commands) /\ Len(commands) \in Nat
    <3>1. o \in Commands /\ Len(commands) \in Commands
      BY <2>1, WholeIsSequence DEF IInv
    <3> QED
      BY <3>1 DEF Child, Commands
  <2>4. CASE k < o
    BY <2>1, <2>2, <2>4, UpstreamFlow
  <2>5. CASE k >= o
    <3>1. k \in o..Len(commands)
      BY <2>3, <2>5
    <3>2. CASE Exec(k)
      BY <1>2, <2>1, <2>2, <3>1, <3>2, ExecFlow
    <3>3. CASE Read(k)
      BY <2>1, <2>2, <3>1, <3>3, ReadFlow
    <3>4. CASE Write(k)
      BY <2>1, <2>2, <3>1, <3>4, WriteFlow
    <3>5. CASE EndOfFile(k) \/ Sigpipe(k) \/ Finish(k)
      BY <1>2, <2>1, <2>2, <3>1, <3>5, EndFlow
    <3> QED
      BY <3>2, <3>3, <3>4, <3>5 DEF Child
  <2> QED
    BY <2>3, <2>4, <2>5
<1> QED
  BY <1>2, <1>3, ChildEnds DEF FlowInv

\* A line has an origin: its first command reads no pipe.
LEMMA OriginIsOrigin == ASSUME TypeInv, commands # <<>> PROVE IsOrigin(Origin)
<1>1. PICK n \in Nat : n = Len(commands)
  BY LenCommands
<1>2. n >= 1
  BY <1>1, EmptySeq DEF TypeInv
<1> DEFINE S == {i \in 0..n - 1 : Kind(n - i) # "filter"}
<1>3. n - 1 \in S
  <2>1. n - (n - 1) = 1 /\ n - 1 \in 0..n - 1
    BY <1>2
  <2>2. Kind(1) # "filter"
    BY DEF Kind
  <2> QED
    BY <2>1, <2>2
<1>4. PICK m \in S : \A i \in S : m <= i
  <2>1. S \subseteq Nat
    OBVIOUS
  <2>2. S # {}
    BY <1>3
  <2> HIDE DEF S
  <2> QED
    BY <2>1, <2>2, LeastNatural
<1>5. n - m \in 1..n /\ Kind(n - m) # "filter" /\ m \in 0..n - 1
  BY <1>4
<1>6. ASSUME NEW j \in n - m + 1..n PROVE Kind(j) = "filter"
  <2>1. n - j \in 0..n - 1 /\ ~ (m <= n - j) /\ n - (n - j) = j
    BY <1>5
  <2> QED
    BY <1>4, <2>1
<1>7. IsOrigin(n - m)
  BY <1>1, <1>5, <1>6 DEF IsOrigin
<1>8. \E k \in 1..Len(commands) : /\ Kind(k) # "filter"
                                  /\ \A j \in k + 1..Len(commands) : Kind(j) = "filter"
  BY <1>7 DEF IsOrigin
<1> QED
  BY <1>8, Zenon DEF Origin, IsOrigin

\* So FlowInv holds in every state of the shell.
LEMMA FlowInvariance == Spec => []FlowInv
<1>1. Init => FlowInv
  <2> SUFFICES ASSUME Init PROVE FlowInv
    OBVIOUS
  <2>1. EndsInv
    BY DEF Init, EndsInv, Unborn, Nothing
  <2>2. \A o : ~IsOrigin(o)
    BY EmptyIsSequence DEF Init, IsOrigin
  <2> QED
    BY <2>1, <2>2 DEF FlowInv
<1>2. FlowInv /\ UNCHANGED vars => FlowInv'
  <2> SUFFICES ASSUME FlowInv, UNCHANGED vars PROVE FlowInv'
    OBVIOUS
  <2>1. EndsInv => EndsInv'
    BY DEF vars, commandVars, EndsInv, EndsOf, Own, NotStarted
  <2>2. ASSUME NEW o, IsOrigin(o)' PROVE /\ IsOrigin(o) /\ (Drained(o) => Drained(o)')
                                         /\ (Flows(o) => Flows(o)')
    <3>1. IsOrigin(o) /\ Whole(o)' = Whole(o)
      BY <2>2, LineStays DEF vars
    <3>2. Drained(o) => Drained(o)'
      BY DEF vars, commandVars, Drained
    <3>3. \A w, r : Stretches(o, w, r)' <=> Stretches(o, w, r)
      BY <3>1 DEF vars, commandVars, Stretches, NotStarted
    <3> QED
      BY <3>1, <3>2, <3>3 DEF Flows
  <2> QED
    BY <2>1, <2>2 DEF FlowInv, vars
<1>3. IInv /\ FlowInv /\ [Next]_vars => FlowInv'
  BY <1>2, ReadLineFlow, ParentFlow, ChildFlow DEF Next
<1> QED
  BY <1>1, <1>3, Invariance, PTL DEF Spec

\* A line that has been run printed exactly what the last command that is no
\* filter wrote, whole and in order, however its commands and the shell took
\* turns and whatever the pipes hold: no write is lost to a pipe that nobody
\* reads any more and no filter stops before it has read everything.
THEOREM OutputIsWholeHolds == Spec => []OutputIsWhole
<1>1. IInv /\ FlowInv => OutputIsWhole
  <2> SUFFICES ASSUME IInv, FlowInv, shell = "prompt", commands # <<>>
               PROVE  out = Whole(Origin)
    BY DEF OutputIsWhole, Whole
  <2>1. PICK o : o = Origin
    OBVIOUS
  <2>2. IsOrigin(o) /\ Drained(o) /\ Flows(o)
    BY <2>1, OriginIsOrigin DEF FlowInv, IInv
  <2>3. /\ o \in Nat /\ o <= Len(commands) /\ Len(commands) \in Nat
        /\ \A k \in o..Len(commands) : k \in Commands /\ (k > o => k - 1 \in o..Len(commands))
    BY <2>2, WholeIsSequence DEF IInv, Commands
  <2>4. PICK w, r \in [Commands -> 0..Len(Whole(o))] : Stretches(o, w, r)
    BY <2>2 DEF Flows
  <2>5. PICK A : Whole(o) \in Seq(A)
    BY <2>2, WholeIsSequence DEF IInv
  <2>6. PICK l \in Nat : l = Len(Whole(o))
    BY <2>5
  <2>7. \A k \in o..Len(commands) : proc[k] = "exited"
    BY <2>2 DEF IInv, ChildrenInv, IsOrigin
  <2>8. ASSUME NEW a \in 0..l, NEW b \in a..l, SubSeq(Whole(o), a + 1, b) = <<>> PROVE a = b
    <3>1. Len(SubSeq(Whole(o), a + 1, b)) = b - a
      BY <2>5, <2>6, Piece
    <3>2. b - a = 0
      BY <2>8, <3>1, EmptyIsSequence
    <3> QED
      BY <3>2
  <2>9. ASSUME NEW k \in o..Len(commands)
        PROVE  w[k] = IF k = o THEN l ELSE w[k - 1]
    <3>1. /\ w[k] \in 0..l /\ r[k] \in w[k]..l
          /\ SubSeq(Whole(o), w[k] + 1, r[k]) = <<>>
      <4>1. ~NotStarted(k) /\ hand[k] = <<>>
        BY <2>2, <2>7 DEF Drained, NotStarted
      <4>2. w[k] <= r[k] /\ hand[k] = SubSeq(Whole(o), w[k] + 1, r[k])
        BY <2>4, <4>1 DEF Stretches
      <4>3. w[k] \in 0..l /\ r[k] \in 0..l
        BY <2>3, <2>6
      <4> QED
        BY <4>1, <4>2, <4>3
    <3>2. w[k] = r[k]
      BY <2>8, <3>1
    <3>3. CASE k = o
      BY <2>4, <2>6, <3>2, <3>3 DEF Stretches
    <3>4. CASE k # o
      <4>1. k > o /\ k - 1 \in Commands
        BY <2>3, <3>4
      <4>2. /\ r[k] \in 0..l /\ w[k - 1] \in r[k]..l
            /\ SubSeq(Whole(o), r[k] + 1, w[k - 1]) = <<>>
        <5>1. pipes[k - 1] = <<>>
          BY <2>2, <2>7, <4>1 DEF Drained
        <5>2. r[k] <= w[k - 1] /\ pipes[k - 1] = SubSeq(Whole(o), r[k] + 1, w[k - 1])
          BY <2>4, <4>1 DEF Stretches
        <5>3. w[k - 1] \in 0..l /\ r[k] \in 0..l
          BY <2>3, <2>6, <4>1
        <5> QED
          BY <5>1, <5>2, <5>3
      <4>3. r[k] = w[k - 1]
        BY <2>8, <4>2
      <4> QED
        BY <3>2, <3>4, <4>3
    <3> QED
      BY <3>3, <3>4
  <2> DEFINE S == {k \in o..Len(commands) : w[k] # l}
  <2>10. S = {}
    <3> SUFFICES ASSUME S # {} PROVE FALSE
      OBVIOUS
    <3>1. S \subseteq Nat
      BY <2>3
    <3>2. PICK m \in S : \A k \in S : m <= k
      <4> HIDE DEF S
      <4> QED
        BY <3>1, LeastNatural
    <3>3. m > o /\ m - 1 \in o..Len(commands)
      BY <2>3, <2>9, <3>2
    <3>4. m - 1 \notin S
      BY <3>1, <3>2
    <3> QED
      BY <2>9, <3>2, <3>3, <3>4
  <2>11. w[Len(commands)] = l
    BY <2>3, <2>10
  <2>12. out = SubSeq(Whole(o), 0 + 1, l)
    BY <2>4, <2>11 DEF Stretches
  <2>13. SubSeq(Whole(o), 0 + 1, l) = Whole(o)
    <3>1. /\ SubSeq(Whole(o), 0 + 1, l) \in Seq(A) /\ Len(SubSeq(Whole(o), 0 + 1, l)) = l - 0
          /\ \A i \in 1..l - 0 : SubSeq(Whole(o), 0 + 1, l)[i] = Whole(o)[0 + i]
      <4>1. 0 \in 0..l /\ l \in 0..l
        OBVIOUS
      <4> QED
        BY <2>5, <2>6, <4>1, Piece
    <3>2. \A i \in 1..l : SubSeq(Whole(o), 0 + 1, l)[i] = Whole(o)[i]
      BY <3>1
    <3> QED
      BY <2>5, <2>6, <3>1, <3>2, SeqEqual
  <2> QED
    BY <2>1, <2>12, <2>13
<1> QED
  BY <1>1, Invariance, FlowInvariance, PTL
-----------------------------------------------------------------------------
(***************************************************************************)
(* Each command is executed with the words that were typed.                *)
(***************************************************************************)
\* What a child gives to execvp() is fixed by the text of the line, unless it overruns
\* args[]: nothing but the next line changes it.
WordsInv ==
  /\ commands # <<>> => commands = Tokens(command)
  /\ \A k \in 1..Len(commands) : \E wild : args[k] = Argv(commands[k], wild)

\* The arguments stay those of the line.
LEMMA WordsInvariance == Spec => []WordsInv
<1>1. Init => WordsInv
  BY EmptyIsSequence DEF Init, WordsInv
<1>2. WordsInv /\ UNCHANGED <<command, commands, args>> => WordsInv'
  BY DEF WordsInv
<1>3. IInv /\ ReadLine => WordsInv'
  <2> SUFFICES ASSUME IInv, ReadLine PROVE WordsInv'
    OBVIOUS
  <2>1. PICK wild :
          args' = [k \in Commands |-> IF k <= Len(commands') THEN Argv(commands'[k], wild[k])
                                      ELSE Killed]
    BY DEF ReadLine
  <2>2. ASSUME NEW k \in 1..Len(commands') PROVE \E x : args'[k] = Argv(commands'[k], x)
    <3>1. k \in Commands /\ k <= Len(commands')
      <4>1. Len(commands') \in 0..MaxCommands
        BY ReadLineInv DEF IInv, TypeInv
      <4> QED
        BY <2>2, <4>1, ShellAssumption DEF Commands
    <3> QED
      BY <2>1, <3>1
  <2> QED
    BY <2>2 DEF WordsInv, ReadLine
<1>4. Next => ReadLine \/ UNCHANGED <<command, commands, args>>
  BY DEF Next, Run, Fork, CloseEnds, Waitpid, BackToPrompt, ForkFails,
         Child, Exec, Read, EndOfFile, Write, Sigpipe, Finish, End, commandVars
<1>5. IInv /\ WordsInv /\ [Next]_vars => WordsInv'
  BY <1>2, <1>3, <1>4 DEF vars
<1> QED
  BY <1>1, <1>5, Invariance, PTL DEF Spec

\* What the child makes of its arguments says what they said.
LEMMA ExecutedSays ==
  ASSUME NEW Chars, NEW a \in Seq(Seq(Chars)), ~NullPointer(a)
  PROVE  Says(Executed(a), a)
<1>1. CASE ~AfterEcho(a)
  BY <1>1 DEF Says, Executed
<1>2. CASE AfterEcho(a)
  <2> DEFINE m == Len(a)
             h == <<Echo, InterpretEscapes(a[3])>>
             r == SubSeq(a, 4, m)
  <2>1. m \in Nat /\ m > 2 /\ a[3] \in Seq(Chars)
    <3>1. m > 2
      BY <1>2, ExecutedIsSequence
    <3> QED
      BY <3>1
  <2>2. Spells(InterpretEscapes(a[3]), a[3])
    BY <2>1, EscapesAreSpelled
  <2> DEFINE A == Seq(Chars) \cup {Echo, InterpretEscapes(a[3])}
  <2>3. r \in Seq(A) /\ Len(r) = m - 3 /\ \A i \in 1..m - 3 : r[i] = a[3 + i]
    <3>1. \A i \in 4..m : a[i] \in A
      BY <2>1
    <3> HIDE DEF A
    <3>2. /\ r \in Seq(A) /\ Len(r) = IF 4 <= m THEN m - 4 + 1 ELSE 0
          /\ \A i \in 1..m - 4 + 1 : r[i] = a[4 + i - 1]
      <4>1. 4 \in Int /\ m \in Int
        BY <2>1
      <4> HIDE DEF m
      <4> QED
        BY <3>1, <4>1, SubSeqProperties
    <3>3. \A i \in 1..m - 3 : i \in 1..m - 4 + 1 /\ 4 + i - 1 = 3 + i
      BY <2>1
    <3> HIDE DEF r, m
    <3>4. (IF 4 <= m THEN m - 4 + 1 ELSE 0) = m - 3
      <4>1. m \in Nat /\ m > 2
        BY <2>1
      <4> QED
        BY <4>1
    <3> QED
      BY <3>2, <3>3, <3>4
  <2>4. Executed(a) = h \o r
    BY <1>2 DEF Executed
  <2>5. h \in Seq(A) /\ Len(h) = 2 /\ h[1] = Echo /\ h[2] = InterpretEscapes(a[3])
    <3>1. Echo \in A /\ InterpretEscapes(a[3]) \in A
      BY Zenon
    <3> HIDE DEF A
    <3> QED
      BY <3>1
  <2> HIDE DEF h, r, A, m
  <2>6. Len(h \o r) = m - 1 /\ \A i \in 1..m - 1 : (h \o r)[i] = IF i <= 2 THEN h[i] ELSE r[i - 2]
    <3>1. /\ Len(h \o r) = Len(h) + Len(r)
          /\ \A i \in 1..Len(h) + Len(r) :
               (h \o r)[i] = IF i <= Len(h) THEN h[i] ELSE r[i - Len(h)]
      BY <2>3, <2>5, ConcatProperties, Zenon
    <3>2. Len(h) + Len(r) = m - 1
      BY <2>1, <2>3, <2>5
    <3> QED
      BY <2>5, <3>1, <3>2
  <2>7. (h \o r)[1] = Echo /\ (h \o r)[2] = InterpretEscapes(a[3])
    BY <2>1, <2>5, <2>6
  <2>8. \A i \in 3..m - 1 : (h \o r)[i] = a[i + 1]
    <3> SUFFICES ASSUME NEW i \in 3..m - 1 PROVE (h \o r)[i] = a[i + 1]
      OBVIOUS
    <3>1. i \in 1..m - 1 /\ ~(i <= 2) /\ i - 2 \in 1..m - 3 /\ 3 + (i - 2) = i + 1
      BY <2>1
    <3> QED
      BY <2>3, <2>6, <3>1
  <2> QED
    BY <1>2, <2>2, <2>4, <2>6, <2>7, <2>8 DEF Says, m
<1> QED
  BY <1>1, <1>2

\* Each command of a plain line is executed with the words that were typed, the
\* escapes after `echo -e` replaced, whatever the line: though strtok() cuts it before
\* anyone looks at quotes and parse_arguments() has one flag for both of them.  Left
\* out are the commands with MAX_ARGS words or more, those without words and
\* `echo -e` alone, whose children do not get as far.
THEOREM ArgumentsAsTypedHolds == Spec => []ArgumentsAsTyped
<1>1. IInv /\ WordsInv => ArgumentsAsTyped
  <2> SUFFICES ASSUME IInv, WordsInv, NEW k \in 1..Len(commands), Plain(command),
                      Len(Words(Unquoted(command, Bar)[k])) < MaxArgs,
                      ~NullPointer(Words(Unquoted(command, Bar)[k]))
               PROVE  Says(args[k], Words(Unquoted(command, Bar)[k]))
    BY DEF ArgumentsAsTyped
  <2>1. command \in Seq(STRING) /\ commands \in Seq(Seq(STRING))
    BY DEF IInv, TypeInv
  <2>2. commands = Tokens(command)
    <3>1. commands # <<>>
      BY EmptyIsSequence
    <3> QED
      BY <3>1 DEF WordsInv
  <2> DEFINE words == Words(Unquoted(command, Bar)[k])
             a == ParseArguments(commands[k])
  <2>3. a = words
    BY <2>1, <2>2, PlainLinesAreReadAsTyped
  <2>4. a \in Seq(Seq(STRING))
    <3>1. commands[k] \in Seq(STRING)
      BY <2>1
    <3> QED
      BY <3>1, ArgumentsAreTexts
  <2> HIDE DEF words
  <2>5. Len(a) < MaxArgs /\ ~NullPointer(a)
    BY <2>3 DEF words
  <2>6. ~Overruns(commands[k])
    <3>1. Len(a) \in Nat /\ MaxArgs \in Nat
      BY <2>4, ShellAssumption
    <3> QED
      BY <2>5, <3>1 DEF Overruns
  <2>7. args[k] = Executed(a)
    BY <2>5, <2>6 DEF WordsInv, Argv
  <2> HIDE DEF a
  <2>8. Says(Executed(a), a)
    BY <2>4, <2>5, ExecutedSays
  <2> QED
    BY <2>3, <2>7, <2>8 DEF words
<1> QED
  BY <1>1, Invariance, WordsInvariance, PTL
=============================================================================
