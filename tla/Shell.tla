-------------------------------- MODULE Shell --------------------------------
(***************************************************************************)
(* The shell (src/sh.c): the parser, from a line to a tree, and runcmd(),  *)
(* from the tree to processes that fork, wait and pass descriptors around. *)
(*                                                                         *)
(* A line is a sequence of characters; "a" stands for any character that   *)
(* is neither white space nor a symbol.  Positions stand for pointers into *)
(* the line, which ends at es = Len(line) + 1 with a NUL.                  *)
(***************************************************************************)
EXTENDS Integers, Sequences, FiniteSets, SequencesExt

CONSTANTS ParseLine,   \* lines that are only parsed
          RunLine,     \* lines that are parsed and run
          ShPid,       \* process slots, 1 is the shell
          MAXARGS

VARIABLES line,    \* buf
          cmd,     \* what parsecmd() made of it
          sproc    \* the shell and its descendants

shellVars == <<line, cmd, sproc>>

whitespace == {" "}
symbols == {"<", "|", ">", "&", ";", "(", ")"}
Nul == "nul"
Panic == [type |-> "PANIC"]
NoCmd == [type |-> "NONE"]

At(l, s) == IF s <= Len(l) THEN l[s] ELSE Nul

\* The first position from s on whose character is not in C.
Span(l, s, C) ==
  CHOOSE t \in s .. Len(l) + 1 :
    /\ t = Len(l) + 1 \/ l[t] \notin C
    /\ \A u \in s .. t - 1 : l[u] \in C

\* gettoken(): its return value, the token's bounds q and eq, and where to go on;
\* c is the character at q, Nul at the end of the line.
TokenEnd(l, q) ==
  CASE At(l, q) = Nul -> q
    [] At(l, q) = "a" -> Span(l, q, {"a"})
    [] OTHER -> IF At(l, q) = ">" /\ At(l, q + 1) = ">" THEN q + 2 ELSE q + 1
Token(l, q, eq) ==
  [tok |-> IF eq = q + 2 /\ At(l, q) = ">" THEN "+" ELSE At(l, q), c |-> At(l, q),
   q |-> q, eq |-> eq, s |-> Span(l, eq, whitespace)]
TokenFrom(l, q) == Token(l, q, TokenEnd(l, q))
gettoken(l, s) == TokenFrom(l, Span(l, s, whitespace))

\* The token found from each position of the line; all the parser looks at.
Scan(l) == [s \in 1 .. Len(l) + 1 |-> gettoken(l, s)]
peek(tk, s, toks) == tk[s].c \in toks

execcmd(argv) == [type |-> "EXEC", argv |-> argv]
redircmd(sub, r) == [type |-> "REDIR", cmd |-> sub, file |-> r.file, fd |-> r.fd]
pipecmd(left, right) == [type |-> "PIPE", left |-> left, right |-> right]
listcmd(left, right) == [type |-> "LIST", left |-> left, right |-> right]
backcmd(sub) == [type |-> "BACK", cmd |-> sub]

\* A command inside its redirections, the first one innermost.
Redirected(sub, redirs) == FoldLeft(redircmd, sub, redirs)

-----------------------------------------------------------------------------
(* The parser, as functions of the position where each routine starts, for a *)
(* line scanned into tk.  A result says what was read, Panic or ok = FALSE   *)
(* after a panic, and where it ended.                                        *)

NoRedirs(ok, s) == [ok |-> ok, redirs |-> << >>, s |-> s]
Redir(t, file) == [file |-> <<file.q, file.eq>>, fd |-> IF t.tok = "<" THEN 0 ELSE 1]

parseredirs(tk) ==
  LET f[s \in DOMAIN tk] ==
        CASE ~peek(tk, s, {"<", ">"}) -> NoRedirs(TRUE, s)
          [] peek(tk, s, {"<", ">"}) /\ tk[tk[s].s].tok # "a" -> NoRedirs(FALSE, s)
          [] OTHER -> [f[tk[tk[s].s].s] EXCEPT !.redirs = <<Redir(tk[s], tk[tk[s].s])>> \o @]
  IN f

\* The loop of parseexec(): arguments, each with the redirections after it; rd is
\* parseredirs(tk).
NoArgs(ok, s) == [ok |-> ok, argv |-> << >>, redirs |-> << >>, s |-> s]
parseargs(tk, rd) ==
  LET f[s \in DOMAIN tk] ==
        CASE peek(tk, s, {"|", ")", "&", ";", Nul}) -> NoArgs(TRUE, s)
          [] peek(tk, s, {"(", "<", ">"}) -> NoArgs(FALSE, s)
          [] OTHER -> IF ~rd[tk[s].s].ok THEN NoArgs(FALSE, s)
                      ELSE [f[rd[tk[s].s].s] EXCEPT !.argv = <<<<tk[s].q, tk[s].eq>>>> \o @,
                                                    !.redirs = rd[tk[s].s].redirs \o @]
  IN f

execOf(first, args) ==
  [cmd |-> IF first.ok /\ args.ok /\ Len(args.argv) < MAXARGS
           THEN Redirected(execcmd(args.argv), first.redirs \o args.redirs) ELSE Panic,
   s |-> args.s]
parseexec(tk, rd, args) == [s \in DOMAIN tk |-> execOf(rd[s], args[rd[s].s])]

\* The & after a pipeline: how many, and where they end.
Backs(tk) ==
  LET f[s \in DOMAIN tk] ==
        IF peek(tk, s, {"&"}) THEN [f[tk[s].s] EXCEPT !.n = @ + 1] ELSE [n |-> 0, s |-> s]
  IN f
Background(c, n) == FoldLeft(LAMBDA x, i : backcmd(x), c, [i \in 1 .. n |-> i])

\* What the routines make of the parts they have read.
BlockOf(tk, rd, in) ==
  IF in.cmd = Panic \/ ~peek(tk, in.s, {")"}) \/ ~rd[tk[in.s].s].ok THEN [in EXCEPT !.cmd = Panic]
  ELSE [cmd |-> Redirected(in.cmd, rd[tk[in.s].s].redirs), s |-> rd[tk[in.s].s].s]
Join(Node(_, _), left, rest) ==
  [rest EXCEPT !.cmd = IF @ = Panic THEN Panic ELSE Node(left, @)]
PipeOf(tk, left, f) ==
  IF left.cmd = Panic \/ ~peek(tk, left.s, {"|"}) THEN left
  ELSE Join(pipecmd, left.cmd, f[<<"pipe", tk[left.s].s>>])
LineOfStops(tk, first, backs, f) ==
  IF first.cmd = Panic THEN first
  ELSE IF ~peek(tk, backs.s, {";"}) \/ backs.n > 0
  THEN [cmd |-> Background(first.cmd, backs.n), s |-> backs.s]
  ELSE Join(listcmd, Background(first.cmd, backs.n), f[<<"line", tk[backs.s].s>>])
LineOf(tk, first, backs, f) ==
  IF first.cmd = Panic THEN first
  ELSE IF ~peek(tk, backs.s, {";"}) THEN [cmd |-> Background(first.cmd, backs.n), s |-> backs.s]
  ELSE Join(listcmd, Background(first.cmd, backs.n), f[<<"line", tk[backs.s].s>>])

\* The routines call each other, so one function stands for all: it reads a
\* command (parseexec or parseblock), a pipeline (parsepipe) or a line (parseline).
parse(tk, rd, exec, backs) ==
  LET f[x \in {"cmd", "pipe", "line"} \X DOMAIN tk] ==
        CASE x[1] = "cmd" -> IF peek(tk, x[2], {"("}) THEN BlockOf(tk, rd, f[<<"line", tk[x[2]].s>>])
                             ELSE exec[x[2]]
          [] x[1] = "pipe" -> PipeOf(tk, f[<<"cmd", x[2]>>], f)
          [] x[1] = "line" -> LineOf(tk, f[<<"pipe", x[2]>>], backs[f[<<"pipe", x[2]>>].s], f)
  IN f

Whole(tk, c) == IF peek(tk, c.s, {Nul}) THEN c.cmd ELSE Panic
ParseWith(tk, rd) ==
  Whole(tk, parse(tk, rd, parseexec(tk, rd, parseargs(tk, rd)), Backs(tk))[<<"line", 1>>])
ParseScanned(tk) == ParseWith(tk, parseredirs(tk))
parsecmd(l) == ParseScanned(Scan(l))

\* Where nulterminate() puts a NUL.
RECURSIVE nulterminateArgs(_), nulterminate(_)
nulterminateArgs(c) ==
  CASE c.type = "EXEC" -> {a[2] : a \in ToSet(c.argv)}
    [] c.type \in {"REDIR", "BACK"} -> nulterminateArgs(c.cmd)
    [] OTHER -> nulterminateArgs(c.left) \cup nulterminateArgs(c.right)

nulterminate(c) ==
  CASE c.type = "EXEC" -> {a[2] : a \in ToSet(c.argv)}
    [] c.type = "REDIR" -> nulterminate(c.cmd) \cup {c.file[2]}
    [] c.type = "BACK" -> nulterminate(c.cmd)
    [] OTHER -> nulterminate(c.left) \cup nulterminate(c.right)
-----------------------------------------------------------------------------
(* Running.  A process has a list of steps to do: system calls, and what of *)
(* runcmd() is still ahead.  An exec()ed program is the filter that reads   *)
(* its input to the end, which is what a pipeline has to cope with.         *)

Fd == 0 .. 4
None == <<"none">>
Console == <<"console">>
Op(name) == [op |-> name]
CloseFd(fd) == [op |-> "close", fd |-> fd]
ClosePipe(end) == [op |-> "closepipe", end |-> end]
Dup(end) == [op |-> "dup", end |-> end]
Fork(body) == [op |-> "fork", body |-> body]
Run(c) == [op |-> "run", cmd |-> c]

\* A redirection: open() is to get the descriptor just closed.
redir(c) == <<CloseFd(c.fd), [op |-> "open", file |-> c.file], Run(c.cmd)>>

list(c) == <<Fork(<<Run(c.left)>>), Op("wait"), Run(c.right)>>

\* A child of a pipeline puts its end of the pipe on descriptor fd.
PipeChild(fd, end, c) == <<CloseFd(fd), Dup(end), ClosePipe(1), ClosePipe(2), Run(c)>>

\* The parent of a pipeline, once both children run.
pipeParent == <<ClosePipe(1), ClosePipe(2), Op("wait"), Op("wait"), Op("exit")>>

\* What runcmd() does for a command.
runcmd(c) ==
  CASE c.type = "EXEC" -> IF c.argv = << >> THEN <<Op("exit")>>
                          ELSE <<[op |-> "exec", argv |-> c.argv]>>
    [] c.type = "REDIR" -> redir(c)
    [] c.type = "LIST" -> list(c)
    [] c.type = "PIPE" -> <<Op("pipe"), Fork(PipeChild(1, 2, c.left)), Fork(PipeChild(0, 1, c.right))>>
                          \o pipeParent
    [] c.type = "BACK" -> <<Fork(<<Run(c.cmd)>>), Op("exit")>>

NoProc == [state |-> "unused", todo |-> << >>, fd |-> [n \in Fd |-> None],
           p |-> <<0, 0>>, parent |-> 0, argv |-> << >>]

\* The shell's main loop, once it has its three descriptors and a line.
MainNoWait == [NoProc EXCEPT !.state = "live",
                 !.fd = [n \in Fd |-> IF n < 3 THEN Console ELSE None],
                 !.todo = <<Fork(<<Op("parse")>>), Op("prompt")>>]
Main == [NoProc EXCEPT !.state = "live",
           !.fd = [n \in Fd |-> IF n < 3 THEN Console ELSE None],
           !.todo = <<Fork(<<Op("parse")>>), Op("wait"), Op("prompt")>>]

ShellInit ==
  /\ line \in ParseLine \cup RunLine
  /\ cmd = NoCmd
  /\ sproc = [p \in ShPid |-> IF p = 1 /\ line \in RunLine THEN Main ELSE NoProc]

ShellIdle == line = << >> /\ cmd = NoCmd /\ sproc = << >>

Doing(p, name) == sproc[p].state = "live" /\ sproc[p].todo # << >> /\ Head(sproc[p].todo).op = name
Arg(p) == Head(sproc[p].todo)
Done(p) == [sproc[p] EXCEPT !.todo = Tail(@)]
Set(p, s) == sproc' = [sproc EXCEPT ![p] = s]
Lowest(S) == CHOOSE x \in S : \A y \in S : x <= y
FreeFd(p) == {n \in Fd : sproc[p].fd[n] = None}

ParseOnly ==
  /\ cmd = NoCmd /\ line \in ParseLine \ RunLine
  /\ cmd' = parsecmd(line)
  /\ UNCHANGED <<line, sproc>>

\* parsecmd() runs in the child, which exits where the parser panics.
Parse(p) ==
  /\ Doing(p, "parse")
  /\ cmd' = parsecmd(line)
  /\ Set(p, [sproc[p] EXCEPT !.todo = IF cmd' = Panic THEN <<Op("exit")>> ELSE <<Run(cmd')>>])
  /\ UNCHANGED line

\* runcmd() never returns.
RunCmd(p) ==
  /\ Doing(p, "run")
  /\ Set(p, [sproc[p] EXCEPT !.todo = runcmd(Arg(p).cmd)])
  /\ UNCHANGED <<line, cmd>>

ShClose(p) ==
  /\ \/ Doing(p, "close") /\ Set(p, [Done(p) EXCEPT !.fd[Arg(p).fd] = None])
     \/ Doing(p, "closepipe") /\ Set(p, [Done(p) EXCEPT !.fd[sproc[p].p[Arg(p).end]] = None])
  /\ UNCHANGED <<line, cmd>>

\* open() and dup() give the lowest free descriptor.
ShOpen(p) ==
  /\ \/ Doing(p, "open") /\ Set(p, [Done(p) EXCEPT !.fd[Lowest(FreeFd(p))] = <<"file", Arg(p).file>>])
     \/ Doing(p, "dup") /\ Set(p, [Done(p) EXCEPT !.fd[Lowest(FreeFd(p))] = sproc[p].fd[sproc[p].p[Arg(p).end]]])
  /\ UNCHANGED <<line, cmd>>

\* pipe(): a pipe nobody has, on the two lowest free descriptors.
Ends(k) == {<<"read", k>>, <<"write", k>>}
ShPipe(p) ==
  LET k == Lowest({j \in ShPid : \A q \in ShPid, n \in Fd : sproc[q].fd[n] \notin Ends(j)})
      r == Lowest(FreeFd(p))
      w == Lowest(FreeFd(p) \ {r})
  IN /\ Doing(p, "pipe")
     /\ Set(p, [Done(p) EXCEPT !.fd[r] = <<"read", k>>, !.fd[w] = <<"write", k>>, !.p = <<r, w>>])
     /\ UNCHANGED <<line, cmd>>

ShFork(p) ==
  LET free == {q \in ShPid : sproc[q].state = "unused"}
  IN /\ Doing(p, "fork")
     /\ free # {}
     /\ sproc' = [sproc EXCEPT ![p] = Done(p),
                    ![Lowest(free)] = [sproc[p] EXCEPT !.todo = Arg(p).body, !.parent = p]]
     /\ UNCHANGED <<line, cmd>>

\* wait(): one child that has exited.  Every wait() follows a fork() that worked,
\* so there is a child.
ShWait(p) ==
  /\ Doing(p, "wait")
  /\ \E q \in ShPid : /\ sproc[q].state = "zombie" /\ sproc[q].parent = p
                      /\ sproc' = [sproc EXCEPT ![p] = Done(p), ![q] = NoProc]
  /\ UNCHANGED <<line, cmd>>

ShExec(p) ==
  /\ Doing(p, "exec")
  /\ Set(p, [sproc[p] EXCEPT !.todo = <<Op("filter")>>, !.argv = Arg(p).argv])
  /\ UNCHANGED <<line, cmd>>

\* Whatever the kernel cannot do for it makes the process exit.
ShFails(p) ==
  /\ \E name \in {"open", "pipe", "fork", "exec"} : Doing(p, name)
  /\ Set(p, [sproc[p] EXCEPT !.todo = <<Op("exit")>>])
  /\ UNCHANGED <<line, cmd>>

\* The program sees the end of its input when no process can write to it.
AtEnd(p) ==
  sproc[p].fd[0][1] = "read" =>
    \A q \in ShPid, n \in Fd : sproc[q].fd[n] # <<"write", sproc[p].fd[0][2]>>

Filter(p) ==
  /\ Doing(p, "filter")
  /\ AtEnd(p)
  /\ Set(p, [sproc[p] EXCEPT !.todo = <<Op("exit")>>])
  /\ UNCHANGED <<line, cmd>>

\* exit(): the descriptors are closed and the children go to init, which reaps.
ShExit(p) ==
  LET orphan(q) == sproc[q].parent = p /\ sproc[q].state # "unused"
      Reaped(s) == IF s.state = "zombie" THEN NoProc ELSE [s EXCEPT !.parent = 0]
  IN /\ Doing(p, "exit")
     /\ sproc' = [q \in ShPid |->
          CASE q = p -> IF sproc[p].parent = 0 THEN NoProc
                        ELSE [NoProc EXCEPT !.state = "zombie", !.parent = sproc[p].parent]
            [] q # p /\ orphan(q) -> Reaped(sproc[q])
            [] OTHER -> sproc[q]]
     /\ UNCHANGED <<line, cmd>>

ShellStep(p) ==
  \/ Parse(p) \/ RunCmd(p) \/ ShClose(p) \/ ShOpen(p) \/ ShPipe(p) \/ ShFork(p)
  \/ ShWait(p) \/ ShExec(p) \/ ShFails(p) \/ Filter(p) \/ ShExit(p)

ShellNext == ParseOnly \/ \E p \in ShPid : ShellStep(p)

-----------------------------------------------------------------------------
(* Properties.                                                              *)

\* The tokens of a line, found without scanning it: a word starts after a
\* character that is not of a word, and > ends a pair when an odd number of >
\* stand right before it.
Tokens(l) ==
  LET Gts(i) == i - 1 - Max({0} \cup {k \in 1 .. i - 1 : l[k] # ">"})
      first == {i \in 1 .. Len(l) :
                  CASE l[i] = "a" -> i = 1 \/ l[i - 1] # "a"
                    [] l[i] = ">" -> Gts(i) % 2 = 0
                    [] OTHER -> l[i] # " "}
  IN [k \in 1 .. Cardinality(first) |->
        l[CHOOSE i \in first : Cardinality({j \in first : j < i}) = k - 1]]

\* The language of the shell: a line is pipelines, each followed by any number
\* of &, with ; in between; a pipeline is commands with | in between; a command
\* is words and redirections, or a line in parentheses and redirections.
IsRedirs(t) ==
  /\ Len(t) % 2 = 0
  /\ \A k \in 1 .. Len(t) : IF k % 2 = 1 THEN t[k] \in {"<", ">"} ELSE t[k] = "a"
IsExec(t) ==
  \A k \in 1 .. Len(t) :
    /\ t[k] \in {"<", ">", "a"}
    /\ t[k] # "a" => k < Len(t) /\ t[k + 1] = "a"
IsLine(t) ==
  LET Is[x \in {"line", "pipe"} \X (1 .. Len(t) + 1) \X (0 .. Len(t))] ==
        LET i == x[2]
            j == x[3]
            Cmd(m, n) == \/ IsExec(SubSeq(t, m, n))
                         \/ \E k \in m + 1 .. n : /\ t[m] = "(" /\ t[k] = ")"
                                                  /\ Is[<<"line", m + 1, k - 1>>]
                                                  /\ IsRedirs(SubSeq(t, k + 1, n))
        IN IF x[1] = "pipe"
           THEN Cmd(i, j) \/ \E k \in i .. j : t[k] = "|" /\ Cmd(i, k - 1) /\ Is[<<"pipe", k + 1, j>>]
           ELSE \E k \in i - 1 .. j, m \in i - 1 .. j :
                  /\ k <= m /\ Is[<<"pipe", i, k>>]
                  /\ \A n \in k + 1 .. m : t[n] = "&"
                  /\ m # j => t[m + 1] = ";" /\ Is[<<"line", m + 2, j>>]
  IN Is[<<"line", 1, Len(t)>>]

\* parsecmd() accepts exactly the lines of the language (none of them with more
\* than MAXARGS - 1 words), however tokens run together (parseline to parseexec).
ParsesLanguage == cmd # NoCmd => (cmd # Panic <=> IsLine(Tokens(line)))

\* The strings in a command: arguments and files.
RECURSIVE Strings(_)
Strings(c) ==
  CASE c.type = "EXEC" -> ToSet(c.argv)
    [] c.type = "REDIR" -> Strings(c.cmd) \cup {c.file}
    [] c.type = "BACK" -> Strings(c.cmd)
    [] OTHER -> Strings(c.left) \cup Strings(c.right)

\* Every word of the line is in the command, whole; nulterminate() ends each one
\* and writes into none, although the symbols it overwrites were not skipped.
StringsTerminated ==
  cmd \notin {NoCmd, Panic} =>
    LET words == {<<q, e>> \in (1 .. Len(line)) \X (2 .. Len(line) + 1) :
                    /\ q < e /\ \A i \in q .. e - 1 : line[i] = "a"
                    /\ q = 1 \/ line[q - 1] # "a"
                    /\ At(line, e) # "a"}
    IN /\ Strings(cmd) = words
       /\ \A w \in words : w[2] \in nulterminate(cmd) /\ nulterminate(cmd) \cap (w[1] .. w[2] - 1) = {}

\* What a program is to find on its descriptors 0 and 1; a pipe is named by its
\* command.
RECURSIVE Wiring(_, _, _)
Wiring(c, in, out) ==
  CASE c.type = "EXEC" -> {<<c.argv, in, out>>}
    [] c.type = "REDIR" -> IF c.fd = 0 THEN Wiring(c.cmd, <<"file", c.file>>, out)
                                       ELSE Wiring(c.cmd, in, <<"file", c.file>>)
    [] c.type = "PIPE" -> Wiring(c.left, in, <<"write", c>>) \cup Wiring(c.right, <<"read", c>>, out)
    [] c.type = "LIST" -> Wiring(c.left, in, out) \cup Wiring(c.right, in, out)
    [] c.type = "BACK" -> Wiring(c.cmd, in, out)

Programs == {p \in ShPid : Doing(p, "filter")}

\* An exec()ed program has its three descriptors and no other: files where the
\* line redirects it, and the two ends of one pipe on the two sides of each |
\* (close, dup and open in runcmd rely on the lowest free descriptor).
Wired ==
  LET want == [p \in Programs |-> CHOOSE w \in Wiring(cmd, Console, Console) : w[1] = sproc[p].argv]
      Fits(got, w) == IF w[1] \in {"read", "write"} THEN got[1] = w[1] ELSE got = w
      Pipe(p, n) == want[p][n + 2][1] \in {"read", "write"}
  IN \A p \in Programs :
       /\ \A n \in {0, 1} : Fits(sproc[p].fd[n], want[p][n + 2])
       /\ sproc[p].fd[2] = Console /\ \A n \in Fd : n > 2 => sproc[p].fd[n] = None
       /\ \A q \in Programs, m \in {0, 1}, n \in {0, 1} :
            Pipe(p, m) /\ Pipe(q, n) =>
              (sproc[p].fd[m][2] = sproc[q].fd[n][2] <=> want[p][m + 2][2] = want[q][n + 2][2])

\* The programs that must have ended before others start.
RECURSIVE Foreground(_), Sequence(_)
Foreground(c) ==
  CASE c.type = "EXEC" -> {c.argv}
    [] c.type = "REDIR" -> Foreground(c.cmd)
    [] c.type = "BACK" -> {}
    [] OTHER -> Foreground(c.left) \cup Foreground(c.right)
Sequence(c) ==
  CASE c.type = "EXEC" -> {}
    [] c.type \in {"REDIR", "BACK"} -> Sequence(c.cmd)
    [] OTHER -> Sequence(c.left) \cup Sequence(c.right) \cup
                {x \in Foreground(c.left) \X {w[1] : w \in Wiring(c.right, Console, Console)} :
                   c.type = "LIST"}

RECURSIVE Attached(_)
Attached(p) == p = 1 \/ (sproc[p].parent # 0 /\ Attached(sproc[p].parent))

\* What stands after ; runs when what stands before it, less the background, has
\* ended, unless a process between them and the shell gave up for want of a fork
\* (the wait() calls of runcmd get the child that was meant).
Sequenced ==
  \A p, q \in Programs :
    <<sproc[p].argv, sproc[q].argv>> \in Sequence(cmd) => ~Attached(p)

\* At the prompt the shell has its descriptors as they were and no children left.
AtPrompt == Doing(1, "prompt")
PromptClean ==
  AtPrompt => /\ sproc[1].fd = Main.fd
              /\ \A q \in ShPid \ {1} : sproc[q].state # "unused" => sproc[q].parent # 1

\* When no process can go on, the shell is at its prompt, or gave up because
\* fork() failed: no program waits for the end of a pipe whose other end one of
\* its own relatives holds, and nobody waits for a child that cannot exit.
Blocked(p) ==
  \/ sproc[p].state # "live" \/ Doing(p, "prompt")
  \/ Doing(p, "wait") /\ \A q \in ShPid : sproc[q].state = "zombie" => sproc[q].parent # p
  \/ Doing(p, "filter") /\ ~AtEnd(p)
NeverStuck ==
  (\A p \in ShPid : Blocked(p)) => AtPrompt \/ sproc[1].state = "unused"

\* parsecmd() accepts the language of the shell and nothing else, and leaves every
\* word of the line as one terminated string, for each of the lines it only parses.
ParsedRight == line \notin RunLine => ParsesLanguage /\ StringsTerminated

\* runcmd() runs a line as it is written: each program with the descriptors the
\* line says, in the order it says, and in the end the shell is at its prompt.
RunsAsWritten == line \in RunLine => Wired /\ Sequenced /\ PromptClean /\ NeverStuck
=============================================================================
