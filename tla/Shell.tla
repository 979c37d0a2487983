-------------------------------- MODULE Shell --------------------------------
(***************************************************************************)
(* TP4-Shell/src/ej2/shell.c: main() reads a line, splits it at '|', makes *)
(* a pipe between neighbours, forks a child for each command, closes its   *)
(* own ends and waits for the children in order.  How text becomes         *)
(* arguments is CommandLine.  The commands that execvp() starts are        *)
(* external, of three kinds:                                               *)
(*   "source"  echo, which writes its arguments and ends;                  *)
(*   "filter"  cat, which copies what it reads and ends at end of file;    *)
(*   "stop"    anything else, which ends without reading: a command that   *)
(*             is not found, or one that a null pointer killed.            *)
(* A line without commands, for which pipes[-1][2] is declared, is not     *)
(* modelled.  A child that writes past the end of its args[] goes on with  *)
(* any of a given set of arguments; the shell's own memory is not its own. *)
(*                                                                         *)
(* A definition marked "mutant of" is no part of the model.                *)
(***************************************************************************)
EXTENDS CommandLine

CONSTANTS
  LineSize,      \* sizeof(command): a line and the null character behind it
  MaxCommands,   \* MAX_COMMANDS: how many commands commands[] and pids[] hold
  MaxArgs,       \* MAX_ARGS: how many pointers args[] holds, the NULL included
  Wild,          \* what a child may give to execvp() after an overrun of args[]
  MaxLines,      \* bound: turns of the loop
  Texts,         \* bound: the lines a user may type at each turn
  Capacity,      \* how many arguments a pipe takes before a write blocks
  MayFail        \* whether pipe() and fork() may fail

\* There are 200 commands to a command[256]; fgets() hands a longer line over in
\* pieces, each a line of its own.
ASSUME ShellAssumption ==
  /\ LineSize \in Nat \ {0} /\ MaxCommands \in Nat \ {0} /\ MaxArgs \in Nat \ {0}
  /\ LineSize <= 2 * MaxCommands
  /\ Wild \subseteq Seq(Seq(STRING)) /\ Wild # {}
  /\ MaxLines \in Nat /\ Capacity \in Nat \ {0} /\ MayFail \in BOOLEAN
  /\ Texts \in [1..MaxLines -> SUBSET Seq(STRING)]
  /\ \A i \in 1..MaxLines : \A t \in Texts[i] : Len(t) < LineSize

Parent   == 0
Commands == 1..MaxCommands
Procs    == {Parent} \cup Commands

\* Pipe j joins command j to command j + 1: pipes[j - 1] in the code.
R(j) == <<"read", j>>
W(j) == <<"write", j>>

VARIABLES
  shell,    \* where the parent is
  command,  \* the text of the line
  commands, \* its tokens
  at,       \* the variable of the loop the parent is in
  turns,    \* history: lines run so far, for the bound
  proc,     \* where each child is
  args,     \* what each child gives to execvp(), Killed if it does not get there
  held,     \* the pipe ends each process has open
  hand,     \* what each command still has to write
  pipes,    \* the arguments in each pipe
  out       \* what the last command of the line has written

commandVars == <<hand, pipes, out>>
vars == <<shell, command, commands, at, turns, proc, args, held, commandVars>>

\* What a command is depends on its name; cat reads its arguments when it has
\* some, and the first command's stdin is the terminal.
Kind(k) == CASE args[k] # <<>> /\ Head(args[k]) = Echo -> "source"
             [] args[k] = <<Cat>> /\ k > 1             -> "filter"
             [] OTHER                                  -> "stop"

Killed  == <<>>
Nothing == [k \in Commands |-> <<>>]
Unborn  == [k \in Commands |-> "none"]

Init ==
  /\ shell = "prompt" /\ command = <<>> /\ commands = <<>> /\ at = 1 /\ turns = 0
  /\ proc = Unborn /\ args = Nothing
  /\ held = [p \in Procs |-> {}]
  /\ hand = Nothing /\ pipes = Nothing /\ out = <<>>

EndsOf(cs) == UNION {{R(j), W(j)} : j \in 1..Len(cs) - 1}

\* What is left to a child after the dup2()s and the close()s, as its stdin and
\* its stdout.
KeepsAll(k) == EndsOf(commands)                                  \* mutant of Own
Own(k) == {R(k - 1), W(k)} \cap EndsOf(commands)

\* What is left to the parent after its close()s.
KeepsEnds == EndsOf(commands)                                    \* mutant of ParentEnds
ParentEnds == {}
-----------------------------------------------------------------------------
\* parse_arguments() stores a pointer for each argument and a NULL behind them.
Overruns(t) == Len(ParseArguments(t)) + 1 > MaxArgs

\* What the child of command t gives to execvp(), wild if it has overrun args[].
Argv(t, wild) == IF Overruns(t) THEN wild
                 ELSE IF NullPointer(ParseArguments(t)) THEN Killed
                 ELSE Executed(ParseArguments(t))

\* fgets(), strtok() and the pipe()s.  At end of input fgets() leaves command
\* as strtok() left it: up to the first bar after a token (those in front of it
\* make no difference).  What each child will make of its command is put down
\* here: it depends on the text, and after an overrun on its own memory.
ReadLine ==
  /\ shell = "prompt" /\ turns < MaxLines
  /\ turns' = turns + 1
  /\ \/ command' \in Texts[turns']
     \/ commands # <<>> /\ command' = Head(commands)
  /\ commands' = Tokens(command') /\ commands' # <<>>
  /\ \/ /\ shell' = "fork"
        /\ held' = [held EXCEPT ![Parent] = @ \cup EndsOf(commands')]
     \/ /\ MayFail /\ Len(commands') > 1
        /\ shell' = "dead"
        /\ UNCHANGED held
  /\ at' = 1
  /\ proc' = Unborn
  /\ \E wild \in [{k \in 1..Len(commands') : Overruns(commands'[k])} -> Wild] :
       args' = [k \in Commands |-> IF k <= Len(commands') THEN Argv(commands'[k], wild[k])
                                   ELSE Killed]
  /\ hand' = Nothing /\ pipes' = Nothing /\ out' = <<>>

\* The child gets a copy of every end its parent has open.
Fork ==
  /\ shell = "fork" /\ at <= Len(commands)
  /\ proc' = [proc EXCEPT ![at] = "forked"]
  /\ held' = [held EXCEPT ![at] = held[Parent]]
  /\ at' = at + 1
  /\ UNCHANGED <<shell, command, commands, turns, args, commandVars>>

\* exit(1), with the children already forked left to themselves.
ForkFails ==
  /\ MayFail /\ shell = "fork" /\ at <= Len(commands)
  /\ shell' = "dead"
  /\ held' = [held EXCEPT ![Parent] = {}]
  /\ UNCHANGED <<command, commands, at, turns, proc, args, commandVars>>

CloseEnds ==
  /\ shell = "fork" /\ at > Len(commands)
  /\ shell' = "wait"
  /\ held' = [held EXCEPT ![Parent] = ParentEnds]
  /\ at' = 1
  /\ UNCHANGED <<command, commands, turns, proc, args, commandVars>>

\* Whether waitpid(pids[k]) returns.
NoHang(k) == TRUE                                            \* mutant of Ended
Ended(k)  == proc[k] = "exited"

Waitpid ==
  /\ shell = "wait" /\ at <= Len(commands) /\ Ended(at)
  /\ at' = at + 1
  /\ UNCHANGED <<shell, command, commands, turns, proc, args, held, commandVars>>

BackToPrompt ==
  /\ shell = "wait" /\ at > Len(commands)
  /\ shell' = "prompt"
  /\ UNCHANGED <<command, commands, at, turns, proc, args, held, commandVars>>
-----------------------------------------------------------------------------
\* The child up to execvp(), and what echo will write.
Exec(k) ==
  /\ proc[k] = "forked"
  /\ proc' = [proc EXCEPT ![k] = "running"]
  /\ held' = [held EXCEPT ![k] = Own(k)]
  /\ hand' = [hand EXCEPT ![k] = IF Kind(k) = "source" THEN Tail(args[k]) ELSE <<>>]
  /\ UNCHANGED <<shell, command, commands, at, turns, args, pipes, out>>

\* The end of a process, for whatever reason, closes its ends.
End(k) ==
  /\ proc[k] = "running"
  /\ proc' = [proc EXCEPT ![k] = "exited"]
  /\ held' = [held EXCEPT ![k] = {}]
  /\ UNCHANGED <<shell, command, commands, at, turns, args, commandVars>>

Open(e) == \E p \in Procs : e \in held[p]

Read(k) ==
  /\ proc[k] = "running" /\ Kind(k) = "filter" /\ hand[k] = <<>>
  /\ pipes[k - 1] # <<>>
  /\ hand' = [hand EXCEPT ![k] = <<Head(pipes[k - 1])>>]
  /\ pipes' = [pipes EXCEPT ![k - 1] = Tail(@)]
  /\ UNCHANGED <<shell, command, commands, at, turns, proc, args, held, out>>

\* read() returns 0 only when no process at all has the write end open.
EndOfFile(k) ==
  /\ Kind(k) = "filter" /\ hand[k] = <<>>
  /\ pipes[k - 1] = <<>> /\ ~Open(W(k - 1))
  /\ End(k)

Write(k) ==
  /\ proc[k] = "running" /\ hand[k] # <<>>
  /\ hand' = [hand EXCEPT ![k] = Tail(@)]
  /\ IF k = Len(commands)
     THEN out' = Append(out, Head(hand[k])) /\ UNCHANGED pipes
     ELSE /\ Open(R(k)) /\ Len(pipes[k]) < Capacity
          /\ pipes' = [pipes EXCEPT ![k] = Append(@, Head(hand[k]))]
          /\ UNCHANGED out
  /\ UNCHANGED <<shell, command, commands, at, turns, proc, args, held>>

\* A write to a pipe that no process can read kills the writer.
Sigpipe(k) == k < Len(commands) /\ hand[k] # <<>> /\ ~Open(R(k)) /\ End(k)

Finish(k) == \/ Kind(k) = "stop" /\ End(k)
             \/ Kind(k) = "source" /\ hand[k] = <<>> /\ End(k)

Child(k) ==
  /\ k <= Len(commands)
  /\ \/ Exec(k) \/ Read(k) \/ EndOfFile(k) \/ Write(k) \/ Sigpipe(k) \/ Finish(k)

Run == Fork \/ CloseEnds \/ Waitpid \/ BackToPrompt
Next == ReadLine \/ Run \/ ForkFails \/ \E k \in Commands : Child(k)

Spec == Init /\ [][Next]_vars

\* The kernel runs every process that is not blocked; nobody has to type.
FairSpec == Spec /\ WF_vars(Run) /\ \A k \in Commands : WF_vars(Child(k))
-----------------------------------------------------------------------------
TypeOK ==
  /\ shell \in {"prompt", "fork", "wait", "dead"}
  /\ Len(commands) \in 0..MaxCommands
  /\ at \in 1..MaxCommands + 1 /\ turns \in 0..MaxLines
  /\ proc \in [Commands -> {"none", "forked", "running", "exited"}]
  /\ \A p \in Procs : held[p] \subseteq EndsOf(commands)
  /\ \A k \in Commands : Len(pipes[k]) <= Capacity

\* Back at the prompt nothing of the line is left: every child has ended, and
\* no process, the shell itself included, has an end of a pipe open.
CleanPrompt ==
  shell = "prompt" =>
    /\ \A k \in 1..Len(commands) : proc[k] = "exited"
    /\ \A p \in Procs : held[p] = {}

\* A line that has been run printed exactly what the last command that is no
\* filter wrote, whole and in order.
Origin == CHOOSE k \in 1..Len(commands) :
            /\ Kind(k) # "filter"
            /\ \A j \in k + 1..Len(commands) : Kind(j) = "filter"

OutputIsWhole ==
  shell = "prompt" /\ commands # <<>> =>
    out = IF Kind(Origin) = "source" THEN Tail(args[Origin]) ELSE <<>>

\* Each command of a plain line is executed with the words that were typed, though
\* strtok() cuts the line before anyone looks at quotes and parse_arguments() has
\* one flag for both of them.  Left out are the commands that do not get as far:
\* those with too many words for args[] and those that meet a null pointer.
ArgumentsAsTyped ==
  \A k \in 1..Len(commands) :
    proc[k] = "running" /\ Plain(command) =>
      LET words == Words(Unquoted(command, Bar)[k])
      IN  Len(words) < MaxArgs /\ ~NullPointer(words) => Says(args[k], words)

\* commands[] has room for the commands of every line, and args[] for the arguments
\* of every command of fewer than 2 * MAX_ARGS - 1 characters, blanks and quotes
\* in whatever number and order.
ShortCommandsFit ==
  /\ Len(commands) <= MaxCommands
  /\ \A k \in 1..Len(commands) :
       Len(commands[k]) < 2 * MaxArgs - 1 => ~Overruns(commands[k])

\* args[] has room for the arguments of every command, as shell.c:26 has it ("divide
\* al input de comandos en los diferentes argumentos, dejando estos en un array").
\* It does not: a line has room for more characters than that.
ArgsFit == \A k \in 1..Len(commands) : ~Overruns(commands[k])

\* Every line comes to an end, however its commands end and whatever the order
\* they run in: each filter sees its end of file.
LineEnds == shell = "fork" ~> shell \in {"prompt", "dead"}

\* A shell that died in the middle of a line leaves no child blocked for ever.
OrphansEnd == shell = "dead" ~> \A k \in Commands : proc[k] \in {"none", "exited"}
=============================================================================
