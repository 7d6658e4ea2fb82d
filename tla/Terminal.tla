------------------------------ MODULE Terminal ------------------------------
(***************************************************************************)
(* What the console promises its readers: the line being typed can be      *)
(* edited until it ends, with a newline, an end-of-file mark or because    *)
(* there is no more room; then it is appended to the text that is ready,   *)
(* which the readers take from the front, each character once and in order.*)
(***************************************************************************)
EXTENDS Naturals, Sequences

CONSTANTS Reader, Text, NL, EOF, Room

VARIABLES line,   \* the line being typed
          ready,  \* complete lines not read yet
          got     \* what each reader has in its current call

tvars == <<line, ready, got>>

TInit == line = << >> /\ ready = << >> /\ got = [p \in Reader |-> << >>]

Used == Len(line) + Len(ready)

Type(c) ==
  /\ Used < Room
  /\ IF c \in {NL, EOF} \/ Used + 1 = Room
     THEN line' = << >> /\ ready' = ready \o Append(line, c)
     ELSE line' = Append(line, c) /\ UNCHANGED ready
  /\ UNCHANGED got

Erase(k) ==
  /\ k \in 1 .. Len(line)
  /\ line' = SubSeq(line, 1, Len(line) - k)
  /\ UNCHANGED <<ready, got>>

Start(p) == got' = [got EXCEPT ![p] = << >>] /\ UNCHANGED <<line, ready>>

Take(p) ==
  /\ ready # << >> /\ Head(ready) # EOF
  /\ got' = [got EXCEPT ![p] = Append(@, Head(ready))]
  /\ ready' = Tail(ready)
  /\ UNCHANGED line

\* An end-of-file mark is used up by the call that got nothing before it.
TakeEof(p) ==
  /\ ready # << >> /\ Head(ready) = EOF
  /\ got[p] = << >>
  /\ ready' = Tail(ready)
  /\ UNCHANGED <<line, got>>

TNext ==
  \/ \E c \in Text : Type(c)
  \/ \E k \in 1 .. Room : Erase(k)
  \/ \E p \in Reader : Start(p) \/ Take(p) \/ TakeEof(p)

TSpec == TInit /\ [][TNext]_tvars
=============================================================================
