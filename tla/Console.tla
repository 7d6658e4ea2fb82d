------------------------------ MODULE Console -------------------------------
(***************************************************************************)
(* Console input (src/console.c): the ring of typed characters with its    *)
(* read, write and edit indices, the interrupt that fills it and edits the *)
(* line, and the processes that read from it under cons.lock.              *)
(*                                                                         *)
(* The indices are unsigned and wrap at IndexMod, a multiple of INPUT_BUF  *)
(* as 2^32 is one of 128.  One step of consoleintr handles one character:  *)
(* the loop that takes several under one hold of the lock is the same      *)
(* without a reader in between.                                            *)
(***************************************************************************)
EXTENDS Naturals, Sequences

CONSTANTS Reader,     \* processes that read the console
          Killable,   \* those of them that may be killed
          Letter,     \* ordinary characters
          INPUT_BUF,  \* size of the ring
          Laps,       \* IndexMod is Laps times INPUT_BUF
          MaxRead,    \* the longest read()
          None        \* nobody

ConsoleConstants ==
  /\ INPUT_BUF \in Nat \ {0} /\ Laps \in Nat \ {0, 1} /\ MaxRead \in Nat
  /\ None \notin Reader /\ Killable \subseteq Reader
  /\ Letter \cap {"\n", "\r", "C(D)", "C(U)", "C(H)", "C(P)", "NUL"} = {}

NL == "\n"
EOF == "C(D)"
IndexMod == Laps * INPUT_BUF
Text == Letter \cup {NL, EOF}

VARIABLES buf, r, w, e,  \* input.buf, input.r, input.w, input.e
          lock,          \* the reader that holds cons.lock, or None
          pc,            \* where each reader is in consoleread()
          n,             \* how much it still wants
          target,        \* how much it wanted
          got,           \* what it has put at dst in this call
          killed         \* p->killed

input == <<buf, r, w, e>>
vars == <<buf, r, w, e, lock, pc, n, target, got, killed>>

Init ==
  /\ buf = [i \in 0 .. INPUT_BUF - 1 |-> "NUL"]
  /\ r = 0 /\ w = 0 /\ e = 0
  /\ lock = None
  /\ pc = [p \in Reader |-> "idle"]
  /\ n = [p \in Reader |-> 0] /\ target = [p \in Reader |-> 0]
  /\ got = [p \in Reader |-> << >>]
  /\ killed = [p \in Reader |-> FALSE]

Minus(i, j) == (i + IndexMod - j) % IndexMod

Plus(i, j) == (i + j) % IndexMod

wakeupNone == UNCHANGED pc

wakeup == pc' = [p \in Reader |-> IF pc[p] = "asleep" THEN "lock" ELSE pc[p]]

-----------------------------------------------------------------------------
(* consoleintr(), one character c from the keyboard or the serial line.     *)

Fits == Minus(e, r) < INPUT_BUF

StoreLate(c) ==
  /\ Fits
  /\ buf' = [buf EXCEPT ![e % INPUT_BUF] = c]
  /\ e' = Plus(e, 1)
  /\ IF c \in {NL, EOF}
     THEN w' = e' /\ wakeup
     ELSE UNCHANGED <<w, pc>>
  /\ UNCHANGED r

Store(c) ==
  /\ Fits
  /\ buf' = [buf EXCEPT ![e % INPUT_BUF] = c]
  /\ e' = Plus(e, 1)
  /\ IF c \in {NL, EOF} \/ e' = Plus(r, INPUT_BUF)
     THEN w' = e' /\ wakeup
     ELSE UNCHANGED <<w, pc>>
  /\ UNCHANGED r

\* Control-H: one character less, if the line has one.
Backspace ==
  /\ e # w
  /\ e' = Minus(e, 1)
  /\ UNCHANGED <<buf, r, w, pc>>

\* Control-U: back over k characters, to w or to behind a newline.
KillLine ==
  \E k \in 1 .. Minus(e, w) :
    /\ \A i \in 1 .. k : buf[Minus(e, i) % INPUT_BUF] # NL
    /\ k = Minus(e, w) \/ buf[Minus(e, k + 1) % INPUT_BUF] = NL
    /\ e' = Minus(e, k)
    /\ UNCHANGED <<buf, r, w, pc>>

\* Control-P only asks for a listing, and a 0 is no character.
Ignored == UNCHANGED <<input, pc>>

consoleintr(c) ==
  /\ lock = None
  /\ CASE c = "C(U)" -> KillLine \/ (e = w /\ Ignored)
       [] c = "C(H)" -> Backspace \/ (e = w /\ Ignored)
       [] c \in {"C(P)", "NUL"} -> Ignored
       [] c = "\r" -> Store(NL) \/ (~Fits /\ Ignored)
       [] OTHER -> Store(c) \/ (~Fits /\ Ignored)
  /\ UNCHANGED <<lock, n, target, got, killed>>

-----------------------------------------------------------------------------
(* consoleread() by process p.                                              *)

consoleread(p, k) ==
  /\ pc[p] = "idle" /\ ~killed[p]
  /\ n' = [n EXCEPT ![p] = k] /\ target' = [target EXCEPT ![p] = k]
  /\ pc' = [pc EXCEPT ![p] = "lock"]
  /\ UNCHANGED <<input, lock, got, killed>>

acquire(p) ==
  /\ pc[p] = "lock" /\ lock = None
  /\ lock' = p
  /\ pc' = [pc EXCEPT ![p] = "loop"]
  /\ UNCHANGED <<input, n, target, got, killed>>

readKilled(p) ==
  /\ pc[p] = "loop" /\ n[p] > 0 /\ r = w /\ killed[p]
  /\ lock' = None
  /\ pc' = [pc EXCEPT ![p] = "idle"]
  /\ n' = [n EXCEPT ![p] = 0] /\ target' = [target EXCEPT ![p] = 0]
  /\ got' = [got EXCEPT ![p] = << >>]
  /\ UNCHANGED <<input, killed>>

\* The test of killed and the sleep are two steps; the sleep releases the lock.
readEmpty(p) ==
  /\ pc[p] = "loop" /\ n[p] > 0 /\ r = w /\ ~killed[p]
  /\ pc' = [pc EXCEPT ![p] = "sleep"]
  /\ UNCHANGED <<input, lock, n, target, got, killed>>

readSleep(p) ==
  /\ pc[p] = "sleep"
  /\ lock' = None
  /\ pc' = [pc EXCEPT ![p] = "asleep"]
  /\ UNCHANGED <<input, n, target, got, killed>>

readCharEofAlways(p) ==
  /\ pc[p] = "loop" /\ n[p] > 0 /\ r # w
  /\ r' = Plus(r, 1)
  /\ LET c == buf[r % INPUT_BUF] IN
     IF c = EOF
     THEN pc' = [pc EXCEPT ![p] = "done"] /\ UNCHANGED <<n, got>>
     ELSE /\ got' = [got EXCEPT ![p] = Append(@, c)]
          /\ n' = [n EXCEPT ![p] = @ - 1]
          /\ pc' = [pc EXCEPT ![p] = IF c = NL THEN "done" ELSE "loop"]
  /\ UNCHANGED <<buf, w, e, lock, target, killed>>

readChar(p) ==
  /\ pc[p] = "loop" /\ n[p] > 0 /\ r # w
  /\ LET c == buf[r % INPUT_BUF] IN
     IF c = EOF
     THEN /\ r' = IF n[p] < target[p] THEN r ELSE Plus(r, 1)
          /\ pc' = [pc EXCEPT ![p] = "done"]
          /\ UNCHANGED <<n, got>>
     ELSE /\ r' = Plus(r, 1)
          /\ got' = [got EXCEPT ![p] = Append(@, c)]
          /\ n' = [n EXCEPT ![p] = @ - 1]
          /\ pc' = [pc EXCEPT ![p] = IF c = NL THEN "done" ELSE "loop"]
  /\ UNCHANGED <<buf, w, e, lock, target, killed>>

Returns(p) == pc[p] = "done" \/ (pc[p] = "loop" /\ n[p] = 0)

\* The return value is target - n; what the call knew is gone.
readDone(p) ==
  /\ Returns(p)
  /\ lock' = None
  /\ pc' = [pc EXCEPT ![p] = "idle"]
  /\ n' = [n EXCEPT ![p] = 0] /\ target' = [target EXCEPT ![p] = 0]
  /\ got' = [got EXCEPT ![p] = << >>]
  /\ UNCHANGED <<input, killed>>

Kill(p) ==
  /\ ~killed[p]
  /\ killed' = [killed EXCEPT ![p] = TRUE]
  /\ pc' = [pc EXCEPT ![p] = IF @ = "asleep" THEN "lock" ELSE @]
  /\ UNCHANGED <<input, lock, n, target, got>>

readStep(p) ==
  acquire(p) \/ readKilled(p) \/ readEmpty(p) \/ readSleep(p) \/ readChar(p) \/ readDone(p)

Next ==
  \/ \E c \in Text \cup {"\r", "C(U)", "C(H)", "C(P)", "NUL"} : consoleintr(c)
  \/ \E p \in Reader : (\E k \in 0 .. MaxRead : consoleread(p, k)) \/ readStep(p)
  \/ \E p \in Killable : Kill(p)

Spec == Init /\ [][Next]_vars

\* A process in the kernel keeps running; nobody is obliged to type or to read,
\* and of two processes that want cons.lock any may get it.
Fairness == \A p \in Reader : WF_vars(readStep(p))
FairSpec == Spec /\ Fairness

-----------------------------------------------------------------------------
(* Properties.                                                              *)

Between(i, j) == [k \in 1 .. Minus(j, i) |-> buf[Plus(i, k - 1) % INPUT_BUF]]

TypeOK ==
  /\ buf \in [0 .. INPUT_BUF - 1 -> Text \cup {"NUL"}]
  /\ {r, w, e} \subseteq 0 .. IndexMod - 1
  /\ lock \in Reader \cup {None}
  /\ pc \in [Reader -> {"idle", "lock", "loop", "sleep", "asleep", "done"}]
  /\ \A p \in Reader : n[p] + Len(got[p]) = target[p] /\ target[p] \in 0 .. MaxRead
  /\ killed \in [Reader -> BOOLEAN]

\* The indices stay in order around the ring, r before w before e and at most
\* INPUT_BUF apart, also when they wrap and after a ^D is put back (input.r--):
\* no character that is not read yet is overwritten.
IndicesOrdered == Minus(w, r) <= Minus(e, r) /\ Minus(e, r) <= INPUT_BUF

\* A ring that is full can be read: what fills it up is never left in the line
\* being edited, where neither the reader nor the typist could go on.
FullIsReadable == Minus(e, r) = INPUT_BUF => r # w

\* No wakeup is lost: a reader sleeps only while there is nothing to read, or
\* after a reader that was woken with it.
SleepersWait ==
  (\E p \in Reader : pc[p] = "asleep") /\ r # w => \E q \in Reader : pc[q] \in {"lock", "loop", "done"}

\* read() returns at most one line: a newline is the last character it gives.
OneLine == \A p \in Reader : \A i \in DOMAIN got[p] : got[p][i] = NL => i = Len(got[p])

\* The ring with its three indices behaves as an edited line and a queue.
Tty == INSTANCE Terminal WITH line <- Between(w, e), ready <- Between(r, w),
                              Room <- INPUT_BUF
ImplementsTerminal == Tty!TSpec

\* If text is ready and a reader wants some, all of it is taken or a read() ends.
InputIsRead ==
  (r # w /\ \E p \in Reader : pc[p] \in {"lock", "loop", "sleep", "asleep"} /\ n[p] > 0)
    ~> (r = w \/ \E p \in Reader : Returns(p))

\* The indices stay in order across their wrap, a full ring can be read, no reader
\* sleeps on input that is there, and read() gives at most one line (consoleintr,
\* consoleread).
InputSound == TypeOK /\ IndicesOrdered /\ FullIsReadable /\ SleepersWait /\ OneLine
=============================================================================
