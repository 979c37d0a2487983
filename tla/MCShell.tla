------------------------------ MODULE MCShell ------------------------------
EXTENDS Shell, SequencesExt

Fitting(texts) == {t \in texts : Len(t) < LineSize}
Joined(texts)  == FlattenSeq([k \in 1..2 * Len(texts) - 1 |->
                                IF k % 2 = 0 THEN <<Bar>> ELSE texts[(k + 1) \div 2]])

\* The lines of up to four commands of the three kinds, and one of as many commands
\* as a line can make.
Lines   == {Joined(l) : l \in BoundedSeq({<<"e", Blank, "x", Blank, "y">>, <<"c">>, <<"x">>}, 4) \ {<<>>}}
Longest == Joined([k \in Commands |-> <<"c">>])

\* Every short text, the text of every short echo, and escapes after echo -e,
\* quoted and not.
Symbols == {"e", Blank, "\"", "'"}
Short   == BoundedSeq(Symbols \cup {Bar}, 4)
Echoes  == {<<"e", Blank>> \o w : w \in BoundedSeq(Symbols, 5)}
EchoE   == <<"e", Blank, "-", Blank>>
Escaped == {EchoE \o w : w \in BoundedSeq({Backslash, "n", "x", Blank}, 3)}
Quoted  == {EchoE \o <<"\"">> \o w \o <<"\"">> : w \in BoundedSeq({Backslash, "n", "t", "x"}, 4)}

\* The shortest command that overruns args[].
Crowded == [i \in 1..2 * MaxArgs - 1 |-> IF i % 2 = 0 THEN Blank ELSE "x"]

MCTexts == <<Fitting(Lines) \cup {Longest, Joined(<<Crowded, <<"c">>>>)},
             Fitting(Lines) \cup Short \cup Echoes \cup Escaped \cup Quoted>>
MCWild  == {Killed, <<Cat>>, <<Echo, <<"x">>>>}

OnlyCrowded == <<{Crowded}>>
OnlyKilled  == {Killed}
=============================================================================
