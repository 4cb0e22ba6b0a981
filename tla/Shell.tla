------------------------------- MODULE Shell -------------------------------
(***************************************************************************)
(* The command interpreter of task1_shell/shell.c: the loop over the words *)
(* and operators of a line, redirections by dup and dup2 on the shell's    *)
(* own descriptors, conditional execution, built-ins and child processes.  *)
(*                                                                         *)
(* The line is read token by token, one turn of the loop of                *)
(* process_command per token; the user types the next token when it is     *)
(* read.  A line cut at a single '&' is run by forked copies of the shell  *)
(* that share nothing with it: the model follows one of the processes, in  *)
(* role "shell" or "background".  run_pipe cannot be reached (see          *)
(* pipe_op), so its half of run_command2 is left out.                      *)
(***************************************************************************)
EXTENDS Integers, Sequences, FiniteSets, Functions

CONSTANTS
    Words,        \* words the user types
    Operators,    \* operators the user types
    FileNames,    \* redirection targets: "good", "bad" (cannot be opened), "none"
    Twice,        \* may a command redirect the same descriptor twice?
    MaxTokens,    \* bound on the length of a line
    MaxFd         \* number of file descriptors a process may have

ASSUME ShellAssumption ==
    /\ Words \subseteq {"true", "false", "missing", "cd", "status", "exit"}
    /\ Operators \subseteq {"&&", "||", "|", ";"}
    /\ FileNames \subseteq {"good", "bad", "none"}
    /\ Twice \in BOOLEAN
    /\ MaxTokens \in Nat
    /\ MaxFd \in Nat /\ MaxFd > 3

STDIN_FILENO  == 0
STDOUT_FILENO == 1
Fds == 0 .. MaxFd - 1

VARIABLES
    phase,            \* "prompt", "line" (in process_command), "exited", "crashed"
    role,             \* "shell", or "background" for a forked copy
    args,             \* the words before narg
    fds,              \* what each descriptor refers to
    inout,            \* where stdin and stdout are backed up
    conditional_run,
    error,            \* 0, or 1 for any other status
    ntok,             \* how many tokens of the current line have been read
    plain,            \* is it a list of commands with a known status so far? (history)
    line,             \* its tokens, if not plain the redirections of this command (history)
    ran               \* the commands run for it, if not plain only the last (history)

history == <<ntok, plain, line>>
shVars == <<phase, role, args, fds, inout, conditional_run, error, history, ran>>

Std == [n \in Fds |-> CASE n = 0 -> "ttyin" [] n = 1 -> "ttyout"
                        [] n = 2 -> "ttyerr" [] OTHER -> "closed"]

ShInit ==
    /\ phase = "prompt" /\ role = "shell"
    /\ args = <<>>
    /\ fds = Std
    /\ inout = <<STDIN_FILENO, STDOUT_FILENO>>
    /\ conditional_run = TRUE
    /\ error = 0
    /\ ntok = 0 /\ plain = TRUE /\ line = <<>> /\ ran = <<>>

-----------------------------------------------------------------------------
\* The system calls, on a descriptor table t.  dup gives the lowest free
\* descriptor, or -1.
Free(t)       == {n \in Fds : t[n] = "closed"}
Lowest(t)     == CHOOSE n \in Free(t) : \A m \in Free(t) : n <= m
IsOpen(t, n)  == n \in Fds /\ t[n] # "closed"
close(t, n)   == IF n \in Fds THEN [t EXCEPT ![n] = "closed"] ELSE t
dup2(t, n, m) == IF IsOpen(t, n) THEN [t EXCEPT ![m] = t[n]] ELSE t
dup(t, n)     == IF IsOpen(t, n) /\ Free(t) # {} THEN Lowest(t) ELSE -1

\* Mutant: stdin is forgotten.
RestoreOut(t, io) ==
    IF io[2] = STDOUT_FILENO THEN t
    ELSE close(dup2(t, io[2], STDOUT_FILENO), io[2])

\* The backups go back where they came from and are closed.
restore_std(t, io) ==
    LET o == IF io[2] = STDOUT_FILENO THEN t
             ELSE close(dup2(t, io[2], STDOUT_FILENO), io[2])
    IN  IF io[1] = STDIN_FILENO THEN o
        ELSE close(dup2(o, io[1], STDIN_FILENO), io[1])

-----------------------------------------------------------------------------
CanRun     == args # <<>> /\ conditional_run
Builtins == {"cd", "status", "exit"}

\* What running the words a leaves in error; cd may fail on its argument.
Outcomes(a) ==
    CASE a[1] \in {"true", "status"}   -> {0}
      [] a[1] \in {"false", "missing"} -> {1}
      [] a[1] = "cd"                   -> IF Len(a) > 1 THEN {0, 1} ELSE {1}

\* The command has run with the descriptors t.
Ran(t) ==
    LET r == [cmd |-> args, in |-> t[0], out |-> t[1], at |-> ntok]
    IN  ran' = IF plain THEN Append(ran, r) ELSE <<r>>

\* Mutant: the descriptors are restored before the command runs.
ExecuteRestored ==
    /\ error' \in Outcomes(args)
    /\ IF args[1] = "missing" THEN UNCHANGED ran ELSE Ran(restore_std(fds, inout))

Execute ==
    /\ error' \in Outcomes(args)
    /\ IF args[1] = "missing" THEN UNCHANGED ran ELSE Ran(fds)

\* run_command2 without a pipe: nothing to do, a built-in in this process, or
\* a child that inherits the redirected descriptors.  restore_std follows.
run_command ==
    /\ args' = <<>>
    /\ fds' = restore_std(fds, inout)
    /\ inout' = <<STDIN_FILENO, STDOUT_FILENO>>
    /\ IF CanRun THEN args[1] # "exit" /\ Execute
               ELSE UNCHANGED <<error, ran>>

\* The process ends: the built-in exit, or err() when fork fails, from any of
\* the places that call run_command; or the end of the input.
quit ==
    /\ \/ phase = "line" /\ CanRun /\ args[1] \notin Builtins \ {"exit"}
       \/ phase = "prompt"
    /\ phase' = "exited"
    /\ UNCHANGED <<role, args, fds, inout, conditional_run, error, history, ran>>

-----------------------------------------------------------------------------
\* The tokens of a line.
Token(t, v) == [t |-> t, v |-> v]
Flushes(tok) == tok.t = "op" /\ tok.v # "|"

\* The positions of the redirections of kind t since the last run_command.
Redirections(l, t) ==
    {i \in DOMAIN l : l[i].t = t /\ \A j \in i .. Len(l) : ~Flushes(l[j])}

Reads(tok) ==
    /\ phase = "line"
    /\ ntok < MaxTokens /\ ntok' = ntok + 1
    /\ plain' = (plain /\ tok.v \in {"true", "false", "missing", "&&", "||"})
    /\ line' = IF plain' THEN Append(line, tok)
               ELSE IF Flushes(tok) THEN <<>>
               ELSE SelectSeq(Append(line, tok), LAMBDA x : x.t \in {"in", "out"})

\* process and the start of process_command, in the shell or in a copy of it
\* that runs a part of the line in the background.
process(r) ==
    /\ phase = "prompt"
    /\ phase' = "line" /\ role' = r
    /\ args' = <<>>
    /\ inout' = <<STDIN_FILENO, STDOUT_FILENO>>
    /\ conditional_run' = TRUE
    /\ ntok' = 0 /\ plain' = TRUE /\ line' = <<>> /\ ran' = <<>>
    /\ UNCHANGED <<fds, error>>

word(w) ==
    /\ Reads(Token("word", w))
    /\ args' = Append(args, w)
    /\ UNCHANGED <<phase, role, fds, inout, conditional_run, error, ran>>

\* '>' and '<': without a file name strlen(NULL) crashes; a file that cannot be
\* opened throws the words away; else the descriptor is backed up and replaced.
redirect(t, std, file) ==
    /\ Reads(Token(t, file))
    /\ Twice \/ Redirections(line, t) = {}
    /\ IF file = "none"
       THEN phase' = "crashed" /\ UNCHANGED <<args, fds, inout>>
       ELSE IF file = "bad" \/ Free(fds) = {}
       THEN args' = <<>> /\ UNCHANGED <<phase, fds, inout>>
       ELSE LET fd     == Lowest(fds)
                opened == [fds EXCEPT ![fd] = t]
                backup == dup(opened, inout[std + 1])
                duped  == IF backup = -1 THEN opened
                          ELSE [opened EXCEPT ![backup] = opened[inout[std + 1]]]
            IN  /\ inout' = [inout EXCEPT ![std + 1] = backup]
                /\ fds' = close(dup2(duped, fd, std), fd)
                /\ UNCHANGED <<phase, args>>
    /\ UNCHANGED <<role, conditional_run, error, ran>>

\* Mutant: once a condition has failed, nothing of the list runs.
AndSticky ==
    /\ Reads(Token("op", "&&"))
    /\ run_command
    /\ conditional_run' = (conditional_run /\ error' = 0)
    /\ UNCHANGED <<phase, role>>

and_op ==
    /\ Reads(Token("op", "&&"))
    /\ run_command
    /\ conditional_run' = (error' = 0)
    /\ UNCHANGED <<phase, role>>

or_op ==
    /\ Reads(Token("op", "||"))
    /\ run_command
    /\ conditional_run' = (error' # 0)
    /\ UNCHANGED <<phase, role>>

\* A ';' or '|' in the first column ends the loop, because p is not advanced
\* past the 0 written over it; the rest of the line is lost.
Returned == IF role = "background" THEN "exited" ELSE "prompt"

semicolon(column0) ==
    /\ Reads(Token("op", ";"))
    /\ column0 => ntok = 0
    /\ run_command
    /\ phase' = IF column0 THEN Returned ELSE phase
    /\ UNCHANGED <<role, conditional_run>>

\* *narg == NULL holds at every '|': narg is behind the last word.
pipe_op(column0) ==
    /\ Reads(Token("op", "|"))
    /\ column0 => ntok = 0
    /\ phase' = IF column0 THEN Returned ELSE phase
    /\ UNCHANGED <<role, args, fds, inout, conditional_run, error, ran>>

\* The end of the line, or a comment.
newline ==
    /\ phase = "line"
    /\ run_command
    /\ phase' = Returned
    /\ UNCHANGED <<role, conditional_run, history>>

ShNext ==
    \/ \E r \in {"shell", "background"} : process(r)
    \/ \E w \in Words : word(w)
    \/ \E f \in FileNames : \/ redirect("out", STDOUT_FILENO, f)
                            \/ redirect("in", STDIN_FILENO, f)
    \/ "&&" \in Operators /\ and_op
    \/ "||" \in Operators /\ or_op
    \/ \E b \in BOOLEAN : \/ ";" \in Operators /\ semicolon(b)
                          \/ "|" \in Operators /\ pipe_op(b)
    \/ newline
    \/ quit

ShSpec == ShInit /\ [][ShNext]_shVars

-----------------------------------------------------------------------------
\* Every variable keeps its type: descriptors refer to terminals or to files
\* that were opened, and the backups are descriptors or -1.
ShTypeOK ==
    /\ phase \in {"prompt", "line", "exited", "crashed"}
    /\ role \in {"shell", "background"}
    /\ args \in Seq(Words)
    /\ fds \in [Fds -> {"ttyin", "ttyout", "ttyerr", "closed", "in", "out"}]
    /\ inout \in (Fds \cup {-1}) \X (Fds \cup {-1})
    /\ conditional_run \in BOOLEAN
    /\ error \in {0, 1}

\* shell.c:18: "As soon as you dup, you close the old one."  Back at the prompt
\* the shell has its terminal on 0, 1 and 2 and no other descriptor, whatever
\* was redirected, skipped, or failed on the line.
DescriptorsRestored == phase = "prompt" => fds = Std

\* A command runs with its own redirections and with no other's: those that
\* stand between it and the neighbouring operators, even when the command they
\* stood with was skipped or thrown away.
RedirectionScope ==
    ran' # ran /\ ran' # <<>> =>
       LET r == ran'[Len(ran')] IN
       /\ r.out = IF \E i \in Redirections(line, "out") : line[i].v = "good"
                  THEN "out" ELSE "ttyout"
       /\ r.in = IF \E i \in Redirections(line, "in") : line[i].v = "good"
                 THEN "in" ELSE "ttyin"

-----------------------------------------------------------------------------
(***************************************************************************)
(* What a list of commands joined by && and || means: a command is run if  *)
(* it is the first, or if the operator before it agrees with the status so *)
(* far, and a skipped command leaves the status as it is.                  *)
(***************************************************************************)
CommandNo(l, i) == 1 + Cardinality({j \in 1 .. i - 1 : Flushes(l[j])})
Count(l) == CommandNo(l, Len(l) + 1)

WordsOf(l, n) == {i \in DOMAIN l : l[i].t = "word" /\ CommandNo(l, i) = n}
Name(l, n) == l[CHOOSE i \in WordsOf(l, n) : \A j \in WordsOf(l, n) : i <= j].v
OpBefore(l, n) ==
    l[CHOOSE i \in DOMAIN l : Flushes(l[i]) /\ CommandNo(l, i) = n - 1].v

\* No command of the list is empty.
IsList(l) ==
    \A n \in 1 .. Count(l) : WordsOf(l, n) # {}

Agrees(op, status) == IF op = "&&" THEN status = 0 ELSE status # 0

Status(l) ==
    LET st[n \in 1 .. Count(l)] ==
          IF n = 1 \/ Agrees(OpBefore(l, n), st[n - 1])
          THEN IF Name(l, n) = "true" THEN 0 ELSE 1
          ELSE st[n - 1]
    IN  st

Expected(l) ==
    LET st == Status(l) IN
    SelectSeq([n \in 1 .. Count(l) |-> n],
              LAMBDA n : /\ n = 1 \/ Agrees(OpBefore(l, n), st[n - 1])
                         /\ Name(l, n) # "missing")

\* shell.c:388 and 360: a line runs the commands that the meaning of its
\* operators says, in order, and leaves the status of the last one in error.
ListsAsExpected ==
    phase = "prompt" /\ line # <<>> /\ plain /\ IsList(line) =>
        /\ [k \in DOMAIN ran |-> ran[k].cmd[1]]
             = [k \in DOMAIN Expected(line) |-> Name(line, Expected(line)[k])]
        /\ error = Status(line)[Count(line)]

\* A line runs the commands its operators say, in order, and hands the terminal back,
\* whatever is skipped or fails on the way (shell.c:127, 253).
LinesRight ==
    /\ ShTypeOK
    /\ ListsAsExpected
    /\ DescriptorsRestored

\* Each command runs with its own redirections and nobody else's (shell.c:253).
RedirectionsApart == [][RedirectionScope]_shVars

=============================================================================
