----------------------------- MODULE MCPrograms -----------------------------
(***************************************************************************)
(* The programs and routines that share no state, and the console, checked *)
(* side by side: in a behaviour one of them runs, and the others are idle. *)
(***************************************************************************)
EXTENDS Shell, Malloc, Mkfs, Grep, Directory, Devices, MCRoutines

CONSTANTS Reader, Killable, INPUT_BUF, Laps, MaxRead

VARIABLES program,
          ring, rd, wr, ed, conslock, at, still, target, got, killed   \* of Console

Con == INSTANCE Console WITH Letter <- {"x"}, None <- "nobody", buf <- ring, r <- rd, w <- wr, e <- ed,
                             lock <- conslock, pc <- at, n <- still

ASSUME ConsoleAssumption == Con!ConsoleConstants

consoleVars == <<ring, rd, wr, ed, conslock, at, still, target, got, killed>>
vars == <<program, shellVars, mallocVars, mkfsVars, grepVars, directoryVars, deviceVars, routineVars, consoleVars>>

Chars == whitespace \cup symbols \cup {"a"}
MCParseLine ==
  (UpTo(4, Chars) \ {<< >>}) \cup [1 .. 5 -> {"a", "(", ")", "|"}] \cup [1 .. 5 -> {"a", ";", "&", ">"}]
MCRunLine ==
  {<<"a", "|", "(", "a", "|">>,
   <<"a", "|", "a", "|", "a">>,
   <<"a", ";", "a", ";", "a">>,
   <<"a", "&", ";", "a", "|", "a">>,
   <<"a", "<", "a", "|", "a", ">", "a">>,
   <<"(", "a", ";", "a", "|", "a", ")", ">", "a">>,
   <<"a", ">", "a", ">", "a", "<", "a">>,
   <<"(", "a", "&", ";", "a", ")", "|", "a", ";", "a">>}

\* Files of no, one, one full and more blocks, the last two at the limit of a file.
MCHostFiles ==
  UNION {[1 .. n -> {<< >>, <<7>>, <<5, 6>>, <<1, 2, 3>>, <<1, 2, 3, 4, 5, 6, 7>>, <<1, 2, 3, 4, 5, 6, 7, 8>>}] :
           n \in 0 .. 3}

MCRe == UpTo(3, {"a", ".", "*", "^", "$"})
          \cup {<<"^", "a", "*", "b", "$">>, <<".", "*", "b", "*">>, <<"a", "*", "b", "*">>}
MCLine == UpTo(3, {"a", "b"}) \cup {<<"$">>, <<"*">>, <<"^", "a">>, <<"$", "a">>}
MCGrepJob ==
  {[re |-> r, text |-> Append(t, NL), pipe |-> FALSE] : r \in MCRe, t \in MCLine}
    \cup {[re |-> <<"a">>, text |-> t, pipe |-> p] : t \in UpTo(6, {"a", "b", NL}), p \in BOOLEAN}

MCPath ==
  {<<"/">>, <<"a">>, <<"a", "b">>, <<"a", "b", "c">>, <<"a", "b", "b">>, <<"/", "/", "a", "b", "/", "a">>,
   <<"a", "/", "a", "b", "b", "/">>, <<"a", "/", ".", ".">>, <<"a", "/", "a">>, <<".", ".", "/", "a">>,
   <<"a", "b", "/", ".">>, <<"a", "/", ".", ".", "/", "a", "b">>}

MCSleepArg == {0, 1, 5, -4}

Init ==
  /\ MallocInit /\ RoutinesInit /\ Con!Init
  /\ program \in {"sh", "malloc", "mkfs", "grep", "fs", "devices", "routine", "console"}
  /\ IF program = "sh" THEN ShellInit ELSE ShellIdle
  /\ IF program = "mkfs" THEN MkfsInit ELSE MkfsIdle
  /\ IF program = "grep" THEN GrepInit ELSE GrepIdle
  /\ IF program = "fs" THEN DirectoryInit ELSE DirectoryIdle
  /\ IF program = "devices" THEN DevicesInit ELSE DevicesIdle

Next ==
  \/ program = "sh" /\ ShellNext
     /\ UNCHANGED <<program, mallocVars, mkfsVars, grepVars, directoryVars, deviceVars, routineVars, consoleVars>>
  \/ program = "malloc" /\ MallocNext
     /\ UNCHANGED <<program, shellVars, mkfsVars, grepVars, directoryVars, deviceVars, routineVars, consoleVars>>
  \/ program = "mkfs" /\ MkfsNext
     /\ UNCHANGED <<program, shellVars, mallocVars, grepVars, directoryVars, deviceVars, routineVars, consoleVars>>
  \/ program = "grep" /\ GrepNext
     /\ UNCHANGED <<program, shellVars, mallocVars, mkfsVars, directoryVars, deviceVars, routineVars, consoleVars>>
  \/ program = "fs" /\ DirectoryNext
     /\ UNCHANGED <<program, shellVars, mallocVars, mkfsVars, grepVars, deviceVars, routineVars, consoleVars>>
  \/ program = "devices" /\ DevicesNext
     /\ UNCHANGED <<program, shellVars, mallocVars, mkfsVars, grepVars, directoryVars, routineVars, consoleVars>>
  \/ program = "routine" /\ RoutinesNext
     /\ UNCHANGED <<program, shellVars, mallocVars, mkfsVars, grepVars, directoryVars, deviceVars, consoleVars>>
  \/ program = "console" /\ Con!Next
     /\ UNCHANGED <<program, shellVars, mallocVars, mkfsVars, grepVars, directoryVars, deviceVars, routineVars>>

\* Only the readers of the console have promises to keep; see Console for the fairness.
Spec == Init /\ [][Next]_vars /\ Con!Fairness

\* What Console says of its readers and of the ring they share with the keyboard.
InputSound == Con!InputSound

\* The console's ring with its three indices behaves as an edited line and a queue.
ImplementsTerminal == Con!ImplementsTerminal

\* If text is ready and a reader of the console wants some, all of it is taken or a
\* read() ends.
InputIsRead == Con!InputIsRead
=============================================================================
