----------------------------- MODULE CommandLine -----------------------------
(***************************************************************************)
(* The text of TP4-Shell/src/ej2/shell.c: how strtok() cuts a line at '|', *)
(* how parse_arguments() cuts a command into arguments, and what the child *)
(* does with `echo -e`.  A text is a sequence of characters; the names     *)
(* echo, cat and -e are one character each.                                *)
(*                                                                         *)
(* A loop over a text is given by the values its variables have when it    *)
(* reaches each position, so that there is no recursion to prove about.    *)
(*                                                                         *)
(* A definition marked "mutant of" is no part of the model.                *)
(***************************************************************************)
EXTENDS Integers, Sequences, FiniteSets

Blank     == " "
Bar       == "|"
Backslash == "\\"
Quotes    == {"'", "\""}
Escapes   == {"n", "t"}
Control(c) == IF c = "n" THEN "newline" ELSE "tab"    \* what \c stands for

Echo  == <<"e">>
DashE == <<"-">>
Cat   == <<"c">>

\* The k-th smallest element of a set of positions, and the last before i.
Nth(S, k)     == CHOOSE i \in S : Cardinality({j \in S : j <= i}) = k
LastOf(S, i)  == IF \E j \in S : j < i
                 THEN CHOOSE j \in S : j < i /\ \A l \in S : l < i => l <= j
                 ELSE 0
FirstOf(S, i) == CHOOSE j \in S : j >= i /\ \A l \in S : l >= i => j <= l

\* The maximal runs of positions of t that are not separators.
Starts(t, separators) == {i \in DOMAIN t \ separators : i = 1 \/ i - 1 \in separators}
Pieces(t, separators) ==
  LET starts == Starts(t, separators)
      ends   == separators \cup {Len(t) + 1}
  IN  [k \in 1..Cardinality(starts) |->
         LET i == Nth(starts, k) IN SubSeq(t, i, FirstOf(ends, i) - 1)]

\* strtok() looks at the bars only, and never returns an empty token.
Bars(t)   == {i \in DOMAIN t : t[i] = Bar}
Tokens(t) == Pieces(t, Bars(t))
-----------------------------------------------------------------------------
\* parse_arguments() when command points to t[i], i = Len(t) + 1 at the end.
\* in_quotes was turned over by every quote so far:
in_quotes(t, i) == Cardinality({j \in DOMAIN t : j < i /\ t[j] \in Quotes}) % 2 = 1

\* The characters after which it sets arg_start, and arg_start:
Marks(t) == {i \in DOMAIN t : t[i] \in Quotes \/ (t[i] = Blank /\ ~in_quotes(t, i))}
arg_start(t, i) == LastOf(Marks(t), i) + 1

\* The positions at which it adds the argument from arg_start on: a closing
\* quote, even if there is nothing in front of it; a blank or the end of the
\* text, if there is.
EveryMark(t) == Marks(t) \cup {Len(t) + 1}                    \* mutant of ArgumentEnds
NoEnd(t) ==                                                  \* mutant of ArgumentEnds
  {i \in Marks(t) : IF t[i] = Blank THEN arg_start(t, i) # i ELSE in_quotes(t, i)}
ArgumentEnds(t) ==
  {i \in Marks(t) : IF t[i] = Blank THEN arg_start(t, i) # i ELSE in_quotes(t, i)}
  \cup {i \in {Len(t) + 1} : arg_start(t, i) # i}

ParseArguments(t) ==
  LET ends == ArgumentEnds(t)
  IN  [k \in 1..Cardinality(ends) |->
         LET i == Nth(ends, k) IN SubSeq(t, arg_start(t, i), i - 1)]

\* interpret_escape_sequences(): a backslash is dropped and the letter after it
\* replaced when the two are an escape; two escapes cannot overlap.
EscapesOf(w) == {i \in DOMAIN w : /\ w[i] = Backslash
                                  /\ i + 1 \in DOMAIN w /\ w[i + 1] \in Escapes}
InterpretEscapes(w) ==
  LET escapes == EscapesOf(w)
      kept    == DOMAIN w \ escapes
  IN  [k \in 1..Cardinality(kept) |->
         LET i == Nth(kept, k) IN IF i - 1 \in escapes THEN Control(w[i]) ELSE w[i]]

\* The two null pointers of the child: strcmp() is given args[0] when there is no
\* argument at all, interpret_escape_sequences() args[2] when nothing follows
\* `echo -e`.
NullPointer(args) == args = <<>> \/ args = <<Echo, DashE>>

\* What the child makes of any other arguments: the escapes of the one after
\* `echo -e` are replaced, and -e is shifted out.
AfterEcho(args) == Len(args) > 1 /\ args[1] = Echo /\ args[2] = DashE
Executed(args) ==
  IF AfterEcho(args)
  THEN <<Echo, InterpretEscapes(args[3])>> \o SubSeq(args, 4, Len(args))
  ELSE args
-----------------------------------------------------------------------------
\* The usual reading of the same text, where a quote only ends what the same quote
\* began and no other character is special: the quote that is open in front of
\* each position,
Quoting(t) ==
  LET q[i \in 1..Len(t) + 1] ==
        IF i = 1 THEN "none"
        ELSE LET c == t[i - 1]  open == q[i - 1]
             IN  IF c \notin Quotes \/ open \notin {c, "none"} THEN open
                 ELSE IF open = "none" THEN c ELSE "none"
  IN  q

\* the pieces at the unquoted characters c,
Unquoted(t, c) == LET q == Quoting(t)
                  IN  Pieces(t, {i \in DOMAIN t : t[i] = c /\ q[i] = "none"})

\* and the words at unquoted blanks, without their quotes.
Bare(w)  == LET kept == {i \in DOMAIN w : w[i] \notin Quotes}
            IN  [k \in 1..Cardinality(kept) |-> w[Nth(kept, k)]]
Words(t) == LET u == Unquoted(t, Blank) IN [k \in 1..Len(u) |-> Bare(u[k])]

\* s is w with each escape shrunk to one character, those at the positions E.
Spells(s, w) ==
  \E E \in SUBSET DOMAIN s :
    LET from(k) == k + Cardinality({j \in E : j < k})
    IN  /\ Len(w) = Len(s) + Cardinality(E)
        /\ \A k \in DOMAIN s :
             IF k \in E
             THEN from(k) \in EscapesOf(w) /\ s[k] = Control(w[from(k) + 1])
             ELSE from(k) \notin EscapesOf(w) /\ s[k] = w[from(k)]

\* args are these words, or what `echo -e` leaves of them: no -e, and the word
\* after it with its escapes replaced.
Says(args, words) ==
  IF AfterEcho(words)
  THEN /\ Len(args) = Len(words) - 1 /\ args[1] = Echo
       /\ Spells(args[2], words[3])
       /\ \A k \in 3..Len(args) : args[k] = words[k + 1]
  ELSE args = words

\* The texts on which the two must agree: quotes enclose whole words, are closed,
\* and contain neither the other quote nor a bar; there is a command on either
\* side of a bar; and a backslash is quoted and in front of an ordinary character,
\* where no shell drops it.
Plain(t) ==
  LET q == Quoting(t)
      Edge(i) == i \notin DOMAIN t \/ t[i] \in {Blank, Bar}
  IN  /\ q[Len(t) + 1] = "none"
      /\ \A i \in DOMAIN t :
           /\ t[i] \in Quotes /\ q[i] = "none" => Edge(i - 1)
           /\ t[i] \in Quotes /\ q[i] # "none" => q[i] = t[i] /\ Edge(i + 1)
           /\ t[i] = Bar => q[i] = "none" /\ i > 1 /\ i < Len(t) /\ t[i - 1] # Bar
           /\ t[i] = Backslash => q[i] # "none" /\ t[i + 1] \notin Quotes \cup {Backslash}
=============================================================================
