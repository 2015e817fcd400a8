-------------------------------- MODULE Shell -------------------------------
(***************************************************************************)
(* sh.c: one command line is parsed and run by a tree of processes that    *)
(* fork, redirect their descriptors, wait for each other and exit.  The    *)
(* kernel's fork(), pipe(), dup(), close(), exit() and wait() are what     *)
(* Proc and Files model in detail; here they are single steps, and any of  *)
(* fork(), pipe(), open() and exec() may fail.  The programs are filters:  *)
(* they end when their input does.                                         *)
(***************************************************************************)
EXTENDS Integers, Sequences, FiniteSetsExt, SequencesExt

CONSTANTS Lines,      \* the command lines, sequences of characters
          MAXARGS,    \* words of a command, the terminating 0 included
          NOFILE,     \* descriptors of a process
          Outcomes    \* whether calls that can fail succeed

VARIABLES
  line,     \* buf, the characters of the command line
  cmd,      \* what parsecmd() has made of it
  sh,       \* the shell: "read", "wait", "prompt" or "gone"
  proc,     \* the processes of the command: from the place in the command tree where
            \* each was forked to its state
  failed    \* a call has failed

vars == <<line, cmd, sh, proc, failed>>

Symbols == {"<", "|", ">", "&", ";", "(", ")"}

-----------------------------------------------------------------------------
(* Words of the line *)

Positions == 1 .. Len(line) + 1
Char(s) == IF s > Len(line) THEN "0" ELSE line[s]

\* The first position from s on that is no whitespace.
Skip[s \in Positions] == Min({i \in s .. Len(line) + 1 : Char(i) # " "})

Peek(s, toks) == Char(Skip[s]) \in toks

\* The token at s, its text from q to before eq, and where to go on.
Gettoken[s \in Positions] ==
  LET q == Skip[s]
      c == Char(q)
      eq == CASE c = "0" -> q
              [] c = ">" /\ Char(q + 1) = ">" -> q + 2
              [] c \in Symbols -> q + 1
              [] OTHER -> Min({i \in q .. Len(line) + 1 : Char(i) \in Symbols \cup {" ", "0"}})
  IN [tok |-> CASE c = ">" /\ eq = q + 2 -> "+"
                [] c \in Symbols \cup {"0"} -> c
                [] OTHER -> "a",
      q |-> q, eq |-> eq, s |-> Skip[eq]]

-----------------------------------------------------------------------------
(* Constructors; a word is the positions q and eq of its ends *)

Execcmd(argv) == [type |-> "EXEC", argv |-> argv]
Redircmd(c, word, fd) == [type |-> "REDIR", cmd |-> c, file |-> word, fd |-> fd]
Pipecmd(l, r) == [type |-> "PIPE", left |-> l, right |-> r]
Listcmd(l, r) == [type |-> "LIST", left |-> l, right |-> r]
Backcmd(c) == [type |-> "BACK", cmd |-> c]
Panic == [type |-> "panic"]

Word(t) == <<t.q, t.eq>>

-----------------------------------------------------------------------------
(* The parser: each function returns the set of [the command, where it     *)
(* stopped], which is empty after a panic(): that ends the process.        *)

\* Redirections as parseredirs() puts them around a command, the first innermost.
Around(c, redirs) == FoldLeft(LAMBDA d, r : Redircmd(d, r.file, r.fd), c, redirs)

\* The loop of parseredirs(): the redirections from s on.
RedirsFrom[s \in Positions] ==
  LET op == Gettoken[s].tok
      file == Gettoken[Gettoken[s].s]
      redir == [file |-> Word(file), fd |-> IF op = "<" THEN 0 ELSE 1]
  IN IF ~Peek(s, {"<", ">"}) THEN {[redirs |-> <<>>, s |-> s]}
     ELSE IF file.tok # "a" THEN {}
     ELSE {[rest EXCEPT !.redirs = <<redir>> \o @] : rest \in RedirsFrom[file.s]}

Parseredirs(c, s) == {[cmd |-> Around(c, r.redirs), s |-> r.s] : r \in RedirsFrom[s]}

\* The loop of parseexec() after argc words, the redirections after each word included.
WordsFrom[s \in Positions, argc \in 0..MAXARGS] ==
  LET t == Gettoken[s]
  IN CASE Peek(s, {"|", ")", "&", ";"}) \/ t.tok = "0" ->
            {[argv |-> <<>>, redirs |-> <<>>, s |-> s]}
       [] t.tok # "a" \/ argc + 1 >= MAXARGS -> {}
       [] OTHER ->
            UNION {{[rest EXCEPT !.argv = <<Word(t)>> \o @, !.redirs = r.redirs \o @] :
                      rest \in WordsFrom[r.s, argc + 1]} : r \in RedirsFrom[t.s]}

\* The functions below call each other through parse, which is Parse.
Parseblock(s, parse) ==
  UNION {Parseredirs(inside.cmd, Gettoken[inside.s].s) :
           inside \in {p \in parse["line", Gettoken[s].s] : Peek(p.s, {")"})}}

\* Words go to the EXEC inside the redirections.
Parseexec(s, parse) ==
  IF Peek(s, {"("}) THEN Parseblock(s, parse)
  ELSE UNION {{[cmd |-> Around(Execcmd(w.argv), r.redirs \o w.redirs), s |-> w.s] :
                 w \in WordsFrom[r.s, 0]} : r \in RedirsFrom[s]}

Parsepipe(s, parse) ==
  UNION {IF ~Peek(left.s, {"|"}) THEN {left}
         ELSE {[right EXCEPT !.cmd = Pipecmd(left.cmd, @)] :
                 right \in parse["pipe", Gettoken[left.s].s]} :
           left \in Parseexec(s, parse)}

\* Where the &s from s on stand.
AmpersandsFrom[s \in Positions] ==
  IF Peek(s, {"&"}) THEN <<s>> \o AmpersandsFrom[Gettoken[s].s] ELSE <<>>

\* Mutant: one & is taken where several may stand.
AmpersandOnce(p) ==
  IF ~Peek(p.s, {"&"}) THEN p
  ELSE [cmd |-> Backcmd(p.cmd), s |-> Gettoken[p.s].s]

\* The loop of parseline() over &.
Ampersands(p) ==
  LET at == AmpersandsFrom[p.s]
  IN IF at = <<>> THEN p
     ELSE [cmd |-> FoldLeft(LAMBDA c, s : Backcmd(c), p.cmd, at), s |-> Gettoken[Last(at)].s]

Parseline(s, parse) ==
  UNION {IF ~Peek(left.s, {";"}) THEN {left}
         ELSE {[right EXCEPT !.cmd = Listcmd(left.cmd, @)] :
                 right \in parse["line", Gettoken[left.s].s]} :
           left \in {Ampersands(p) : p \in parse["pipe", s]}}

Parse[f \in {"line", "pipe"}, s \in Positions] ==
  IF f = "line" THEN Parseline(s, Parse) ELSE Parsepipe(s, Parse)

\* The command, unless characters are left over.
Parsecmd ==
  LET whole == {p.cmd : p \in {q \in Parse["line", 1] : Skip[q.s] = Len(line) + 1}}
  IN IF whole = {} THEN Panic ELSE CHOOSE c \in whole : TRUE

Children(c) ==
  CASE c.type \in {"REDIR", "BACK"} -> {c.cmd}
    [] c.type \in {"PIPE", "LIST"} -> {c.left, c.right}
    [] OTHER -> {}

\* The words of a command and of all those below it: the recursion takes a character
\* of the line for each level.
Words(c) ==
  LET level[d \in 0 .. Len(line)] ==
        IF d = 0 THEN {c} ELSE UNION {Children(x) : x \in level[d - 1]}
      tree == UNION {level[d] : d \in 0 .. Len(line)}
  IN UNION {CASE x.type = "EXEC" -> ToSet(x.argv)
              [] x.type = "REDIR" -> {x.file}
              [] OTHER -> {} : x \in tree}

\* A 0 after each word; the one after the last character is there.
Nulterminate(c) ==
  [i \in DOMAIN line |-> IF \E w \in Words(c) : w[2] = i THEN "0" ELSE line[i]]

-----------------------------------------------------------------------------
(* The tree of commands and the descriptors *)

Sub(c, k) == IF c.type \in {"REDIR", "BACK"} THEN c.cmd ELSE IF k = 1 THEN c.left ELSE c.right

\* The command at a place in the tree, given by the choices that lead there.
Node(path) == FoldLeft(Sub, cmd, path)

TheShell == <<0>>
TheInit == <<0, 0>>

Tty == <<"tty">>
Closed == <<"closed">>
Descriptors == 0 .. NOFILE - 1

FreeFds(fd) == {d \in Descriptors : fd[d] = Closed}

\* dup() and open() take the lowest free descriptor; without one dup() changes nothing.
Take(fd, object) ==
  IF FreeFds(fd) = {} THEN fd ELSE [fd EXCEPT ![Min(FreeFds(fd))] = object]

\* close(which); dup(p[...]); close(p[0]); close(p[1])
Redirect(fd, which, end, p) ==
  LET dup == Take([fd EXCEPT ![which] = Closed], fd[end])
  IN [dup EXCEPT ![p[1]] = Closed, ![p[2]] = Closed]

Process(path, parent, fd) == [at |-> path, pc |-> "run", fd |-> fd, parent |-> parent, p |-> <<>>]

Alive == {x \in DOMAIN proc : proc[x].pc # "zombie"}
Zombies(parent) == {x \in DOMAIN proc : proc[x].pc = "zombie" /\ proc[x].parent = parent}

Init ==
  /\ line \in Lines
  /\ cmd = Panic
  /\ sh = "read"
  /\ proc = <<>>
  /\ failed = FALSE

Runs(x, pc, type) ==
  /\ x \in DOMAIN proc
  /\ proc[x].pc = pc
  /\ pc = "program" \/ Node(proc[x].at).type = type

Forked(pr, child, state) == [y \in DOMAIN pr \cup {child} |-> IF y = child THEN state ELSE pr[y]]
Without(pr, gone) == [y \in DOMAIN pr \ gone |-> pr[y]]

\* exit(): the descriptors are closed, children go to init, which waits for them all.
Exited(pr, x) ==
  LET left == [y \in DOMAIN pr |->
                 IF y = x THEN [pr[y] EXCEPT !.pc = "zombie", !.fd = [d \in Descriptors |-> Closed]]
                 ELSE IF pr[y].parent = x THEN [pr[y] EXCEPT !.parent = TheInit]
                 ELSE pr[y]]
  IN Without(left, {y \in DOMAIN left : left[y].pc = "zombie" /\ left[y].parent = TheInit})

-----------------------------------------------------------------------------
(* The shell *)

\* The shell forks, and the child parses the line; panic() ends it.
ReadCommand ==
  /\ sh = "read"
  /\ \E ok \in Outcomes, c \in {Parsecmd} :
       IF ok
       THEN /\ cmd' = c
            /\ line' = IF c = Panic THEN line ELSE Nulterminate(c)
            /\ proc' = LET pr == [y \in {<<>>} |->
                                    Process(<<>>, TheShell, [d \in Descriptors |->
                                                               IF d < 3 THEN Tty ELSE Closed])]
                       IN IF c = Panic THEN Exited(pr, <<>>) ELSE pr
            /\ sh' = "wait"
            /\ UNCHANGED failed
       ELSE /\ sh' = "gone"
            /\ failed' = TRUE
            /\ UNCHANGED <<line, cmd, proc>>

\* wait() returns in the shell, which asks for the next command.
Prompt ==
  /\ sh = "wait"
  /\ Zombies(TheShell) # {}
  /\ sh' = "prompt"
  /\ proc' = Without(proc, Zombies(TheShell))
  /\ UNCHANGED <<line, cmd, failed>>

-----------------------------------------------------------------------------
(* runcmd() *)

Exits(x) == proc' = Exited(proc, x)
Fails(x) == Exits(x) /\ failed' = TRUE
Moves(x, at, pc) == proc' = [proc EXCEPT ![x].at = at, ![x].pc = pc]

\* EXEC: nothing to run, or exec(), which comes back only when it fails.
RunExec(x) ==
  /\ Runs(x, "run", "EXEC")
  /\ IF Node(proc[x].at).argv = <<>> THEN Exits(x) /\ UNCHANGED failed
     ELSE \E ok \in Outcomes :
            IF ok THEN Moves(x, proc[x].at, "program") /\ UNCHANGED failed ELSE Fails(x)
  /\ UNCHANGED <<line, cmd, sh>>

\* The program ends when its input does: a pipe ends when nobody has it open for writing.
InputEnds(x) ==
  proc[x].fd[0][1] = "r" =>
    \A y \in Alive, d \in Descriptors : proc[y].fd[d] # <<"w", proc[x].fd[0][2]>>

ProgramEnds(x) ==
  /\ Runs(x, "program", "EXEC")
  /\ InputEnds(x)
  /\ Exits(x)
  /\ UNCHANGED <<line, cmd, sh, failed>>

RunRedir(x) ==
  /\ Runs(x, "run", "REDIR")
  /\ LET c == Node(proc[x].at)
         closed == [proc[x].fd EXCEPT ![c.fd] = Closed]
     IN \E ok \in Outcomes :
          IF ok THEN /\ proc' = [proc EXCEPT ![x].fd = Take(closed, <<"file", c.file>>),
                                             ![x].at = Append(@, 1)]
                     /\ UNCHANGED failed
          ELSE Fails(x)
  /\ UNCHANGED <<line, cmd, sh>>

\* fork1() and runcmd() of the child: it goes to the place k below, with descriptors fd.
Fork1(x, k, fd, pc) ==
  \E ok \in Outcomes :
    IF ok
    THEN LET child == Append(proc[x].at, k)
         IN /\ proc' = Forked([proc EXCEPT ![x].pc = pc], child, Process(child, x, fd))
            /\ UNCHANGED failed
    ELSE Fails(x)

\* LIST
RunList(x) ==
  /\ Runs(x, "run", "LIST")
  /\ Fork1(x, 1, proc[x].fd, "wait")
  /\ UNCHANGED <<line, cmd, sh>>

\* wait() returns when a child has exited; the callers have children.
Waits(x, at, pc) ==
  \E z \in Zombies(x) :
    proc' = [Without(proc, {z}) EXCEPT ![x].at = at, ![x].pc = pc]

ListWait(x) ==
  /\ Runs(x, "wait", "LIST")
  /\ Waits(x, Append(proc[x].at, 2), "run")
  /\ UNCHANGED <<line, cmd, sh, failed>>

\* PIPE
RunPipe(x) ==
  /\ Runs(x, "run", "PIPE")
  /\ \E ok \in Outcomes :
       IF ok
       THEN LET fd == proc[x].fd
                r == Min(FreeFds(fd))
                w == Min(FreeFds(fd) \ {r})
            IN /\ proc' = [proc EXCEPT ![x].pc = "left",
                                       ![x].p = <<r, w>>,
                                       ![x].fd = [fd EXCEPT ![r] = <<"r", proc[x].at>>,
                                                            ![w] = <<"w", proc[x].at>>]]
               /\ UNCHANGED failed
       ELSE Fails(x)
  /\ UNCHANGED <<line, cmd, sh>>

PipeLeft(x) ==
  /\ Runs(x, "left", "PIPE")
  /\ LET p == proc[x].p IN Fork1(x, 1, Redirect(proc[x].fd, 1, p[2], p), "right")
  /\ UNCHANGED <<line, cmd, sh>>

PipeRight(x) ==
  /\ Runs(x, "right", "PIPE")
  /\ LET p == proc[x].p IN Fork1(x, 2, Redirect(proc[x].fd, 0, p[1], p), "close")
  /\ UNCHANGED <<line, cmd, sh>>

\* Mutant: the parent keeps the write end.
PipeCloseRead(x) ==
  /\ Runs(x, "close", "PIPE")
  /\ proc' = [proc EXCEPT ![x].pc = "wait", ![x].fd[proc[x].p[1]] = Closed]
  /\ UNCHANGED <<line, cmd, sh, failed>>

PipeClose(x) ==
  /\ Runs(x, "close", "PIPE")
  /\ proc' = [proc EXCEPT ![x].pc = "wait", ![x].fd[proc[x].p[1]] = Closed,
                          ![x].fd[proc[x].p[2]] = Closed]
  /\ UNCHANGED <<line, cmd, sh, failed>>

PipeWait(x) ==
  /\ Runs(x, "wait", "PIPE")
  /\ Waits(x, proc[x].at, "wait again")
  /\ UNCHANGED <<line, cmd, sh, failed>>

PipeEnds(x) ==
  /\ Runs(x, "wait again", "PIPE")
  /\ Zombies(x) # {}
  /\ Exits(x)
  /\ UNCHANGED <<line, cmd, sh, failed>>

\* BACK: the process forks; it exits without waiting.
RunBack(x) ==
  /\ Runs(x, "run", "BACK")
  /\ Fork1(x, 1, proc[x].fd, "exit")
  /\ UNCHANGED <<line, cmd, sh>>

BackEnds(x) ==
  /\ Runs(x, "exit", "BACK")
  /\ Exits(x)
  /\ UNCHANGED <<line, cmd, sh, failed>>

\* The shell waits for the user, or init has started another one; nothing runs.
AllDone ==
  /\ sh \in {"prompt", "gone"}
  /\ DOMAIN proc = {}
  /\ UNCHANGED vars

Next ==
  \/ ReadCommand
  \/ Prompt
  \/ \E x \in DOMAIN proc :
       \/ RunExec(x)
       \/ ProgramEnds(x)
       \/ RunRedir(x)
       \/ RunList(x)
       \/ ListWait(x)
       \/ RunPipe(x)
       \/ PipeLeft(x)
       \/ PipeRight(x)
       \/ PipeClose(x)
       \/ PipeWait(x)
       \/ PipeEnds(x)
       \/ RunBack(x)
       \/ BackEnds(x)
  \/ AllDone

Spec == Init /\ [][Next]_vars

-----------------------------------------------------------------------------
(* What a line means: it is cut at every ; outside parentheses, each piece  *)
(* at the & it ends with, and what remains at every | outside parentheses.  *)

TokensFrom[s \in Positions] ==
  LET t == Gettoken[s] IN IF t.tok = "0" THEN <<>> ELSE <<t>> \o TokensFrom[t.s]

Token == [tok : Symbols \cup {"a", "+"}, q : Positions, eq : Positions, s : Positions]

Count(ts, n, tok) == Cardinality({i \in 1..n : ts[i].tok = tok})
Depth(ts, n) == Count(ts, n, "(") - Count(ts, n, ")")
After(ts, i) == SubSeq(ts, i + 1, Len(ts))
Indices(ts) == [i \in 1..Len(ts) |-> i]

\* The pieces of ts between the tokens tok outside parentheses.
Cut(ts, tok) ==
  LET at == SelectSeq(Indices(ts), LAMBDA i : ts[i].tok = tok /\ Depth(ts, i) = 0)
      ends == <<0>> \o at \o <<Len(ts) + 1>>
  IN [k \in 1 .. Len(at) + 1 |-> SubSeq(ts, ends[k] + 1, ends[k + 1] - 1)]

Joined(Op(_, _), cs) ==
  IF Panic \in ToSet(cs) THEN Panic ELSE FoldRight(Op, Front(cs), Last(cs))

RedirOps == {"<", ">", "+"}

RedirsOf(ts) ==
  FoldLeft(LAMBDA rs, i : IF ts[i].tok \in RedirOps
                          THEN Append(rs, [file |-> Word(ts[i + 1]),
                                           fd |-> IF ts[i].tok = "<" THEN 0 ELSE 1])
                          ELSE rs,
           <<>>, Indices(ts))

PlainWords(ts) ==
  FoldLeft(LAMBDA ws, i : IF ts[i].tok = "a" /\ (i = 1 \/ ts[i - 1].tok \notin RedirOps)
                          THEN Append(ws, Word(ts[i])) ELSE ws,
           <<>>, Indices(ts))

IsSimple(ts) ==
  \A i \in DOMAIN ts :
    \/ ts[i].tok = "a"
    \/ ts[i].tok \in RedirOps /\ i < Len(ts) /\ ts[i + 1].tok = "a"

MeansExec(ts, means) ==
  IF ts # <<>> /\ ts[1].tok = "("
  THEN LET close == {i \in DOMAIN ts : Depth(ts, i) = 0}
           k == Min(close)
           inside == means[SubSeq(ts, 2, k - 1)]
       IN IF close = {} THEN Panic
          ELSE IF ~IsSimple(After(ts, k)) \/ PlainWords(After(ts, k)) # <<>> THEN Panic
          ELSE IF inside = Panic THEN Panic
          ELSE Around(inside, RedirsOf(After(ts, k)))
  ELSE IF ~IsSimple(ts) \/ Len(PlainWords(ts)) >= MAXARGS THEN Panic
  ELSE Around(Execcmd(PlainWords(ts)), RedirsOf(ts))

MeansPipe(ts, means) ==
  LET stages == Cut(ts, "|")
  IN Joined(Pipecmd, [k \in DOMAIN stages |-> MeansExec(stages[k], means)])

MeansBack(ts, means) ==
  LET n == CHOOSE k \in 0..Len(ts) :
             /\ \A i \in Len(ts) - k + 1 .. Len(ts) : ts[i].tok = "&"
             /\ k < Len(ts) => ts[Len(ts) - k].tok # "&"
      c == MeansPipe(SubSeq(ts, 1, Len(ts) - n), means)
  IN IF c = Panic THEN Panic ELSE FoldLeft(LAMBDA d, i : Backcmd(d), c, [i \in 1..n |-> i])

Means[ts \in Seq(Token)] ==
  LET commands == Cut(ts, ";")
  IN Joined(Listcmd, [k \in DOMAIN commands |-> MeansBack(commands[k], Means)])

-----------------------------------------------------------------------------
(* Properties *)

\* parsecmd() makes of every line the command that it means, or none when it is not well
\* formed, and nulterminate() leaves each word whole and with a 0 behind it.
ParseRight ==
  /\ sh = "read" => Parsecmd = Means[TokensFrom[1]]
  /\ cmd # Panic =>
       \A w \in Words(cmd) :
         /\ Char(w[2]) = "0"
         /\ \A i \in w[1] .. w[2] - 1 : Char(i) \notin Symbols \cup {" ", "0"}

\* The descriptors 0 and 1 that the command at a place should have.
Expected(path) ==
  FoldLeft(LAMBDA e, i :
             LET here == SubSeq(path, 1, i - 1)
                 c == Node(here)
             IN CASE c.type = "PIPE" /\ path[i] = 1 -> <<e[1], <<"w", here>>>>
                  [] c.type = "PIPE" /\ path[i] = 2 -> <<<<"r", here>>, e[2]>>
                  [] c.type = "REDIR" /\ c.fd = 0 -> <<<<"file", c.file>>, e[2]>>
                  [] c.type = "REDIR" /\ c.fd = 1 -> <<e[1], <<"file", c.file>>>>
                  [] OTHER -> e,
           <<Tty, Tty>>, [i \in 1..Len(path) |-> i])

\* The variables keep to their domains.
TypeOK ==
  /\ sh \in {"read", "wait", "prompt", "gone"}
  /\ failed \in BOOLEAN
  /\ \A x \in DOMAIN proc :
       /\ proc[x].pc \in {"run", "program", "left", "right", "close", "wait", "wait again",
                         "exit", "zombie"}
       /\ proc[x].parent \in DOMAIN proc \cup {TheShell, TheInit}
       /\ DOMAIN proc[x].fd = Descriptors

\* A program is started with the input and output that its place in the line gives it and
\* with no other descriptor, whatever pipes and redirections are around it; and the end of
\* its input depends on the programs before it alone: no process that comes later or waits
\* keeps the pipe open for writing.
DescriptorsRight ==
  \A x \in Alive :
    proc[x].pc = "program" =>
      /\ \A d \in Descriptors :
           proc[x].fd[d] = CASE d = 0 -> Expected(proc[x].at)[1]
                             [] d = 1 -> Expected(proc[x].at)[2]
                             [] d = 2 -> Tty
                             [] OTHER -> Closed
      /\ proc[x].fd[0][1] = "r" =>
           LET pipe == proc[x].fd[0][2] IN
           \A y \in Alive :
             (\E d \in Descriptors : proc[y].fd[d] = <<"w", pipe>>) =>
               \/ IsPrefix(Append(pipe, 1), proc[y].at)
               \/ proc[y].at = pipe /\ proc[y].pc = "close"

\* The command at a place runs in the background of the command above it.
InBackground(above, path) ==
  \E i \in Len(above) .. Len(path) - 1 : Node(SubSeq(path, 1, i)).type = "BACK"

\* Unless a call has failed, what stands after a ; runs when everything before it has
\* ended that is not in the background, and so does the prompt.
ForegroundWaited ==
  ~failed =>
    \A x \in Alive :
      /\ sh = "prompt" => InBackground(<<>>, proc[x].at)
      /\ \A y \in Alive, i \in 0 .. Len(proc[x].at) :
           LET here == SubSeq(proc[x].at, 1, i) IN
           /\ Node(here).type = "LIST"
           /\ IsPrefix(Append(here, 1), proc[x].at)
           /\ IsPrefix(Append(here, 2), proc[y].at)
           => InBackground(Append(here, 1), proc[x].at)

\* The commands of a line have their descriptors, get the end of their input, and are
\* waited for.
CommandsRight == TypeOK /\ DescriptorsRight /\ ForegroundWaited
=============================================================================
