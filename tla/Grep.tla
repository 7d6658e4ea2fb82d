-------------------------------- MODULE Grep --------------------------------
(***************************************************************************)
(* grep (src/grep.c): the matcher for ^ . * $, and the loop that finds the *)
(* lines in what read() returns, a buffer at a time.  Reading a file fills *)
(* the buffer; reading a pipe returns what is there.                       *)
(***************************************************************************)
EXTENDS Integers, Sequences, FiniteSets, SequencesExt

CONSTANTS GrepJob,   \* [re, text, pipe]: a pattern, an input, what it comes from
          BUFSIZE    \* sizeof(buf)

VARIABLES gjob,
          input,     \* what has not been read
          buf,       \* buf[0 .. m - 1]
          out,       \* what was written
          lost,      \* m was set to 0 with text in the buffer
          gdone

grepVars == <<gjob, input, buf, out, lost, gdone>>

NL == "\n"
From(s, i) == SubSeq(s, i, Len(s))

\* matchhere() and matchstar(): does re from i on match text from j on, at j?
matchstar(re, i, text, j, here) ==
  \E k \in j .. Len(text) + 1 :
    /\ here[<<i + 2, k>>]
    /\ \A n \in j .. k - 1 : text[n] = re[i] \/ re[i] = "."
matchhere(re, text) ==
  LET f[x \in (1 .. Len(re) + 2) \X (1 .. Len(text) + 1)] ==
        LET i == x[1]
            j == x[2]
        IN CASE i > Len(re) -> TRUE
             [] i < Len(re) /\ re[i + 1] = "*" -> matchstar(re, i, text, j, f)
             [] i = Len(re) /\ re[i] = "$" -> j > Len(text)
             [] OTHER -> /\ j <= Len(text) /\ (re[i] = "." \/ re[i] = text[j])
                         /\ f[<<i + 1, j + 1>>]
  IN f
matchAt(re, text, here) ==
  IF re # << >> /\ re[1] = "^" THEN here[<<2, 1>>]
  ELSE \E j \in 1 .. Len(text) + 1 : here[<<1, j>>]
match(re, text) == matchAt(re, text, matchhere(re, text))

\* The whole lines of a string, each without its newline, and what is after them.
Newlines(s) == {i \in 1 .. Len(s) : s[i] = NL}
NewlinesBefore(s, i) == {j \in Newlines(s) : j < i}
LineAt(s, i) == SubSeq(s, Max(NewlinesBefore(s, i) \cup {0}) + 1, i - 1)
Lines(s) == [k \in 1 .. Cardinality(Newlines(s)) |->
               LineAt(s, CHOOSE i \in Newlines(s) : Cardinality(NewlinesBefore(s, i)) = k - 1)]
Rest(s) == From(s, Max(Newlines(s) \cup {0}) + 1)

\* What the inner loop writes for a buffer.
Selected(re, lines) ==
  FoldLeft(LAMBDA o, l : IF match(re, l) THEN o \o l \o <<NL>> ELSE o, << >>, lines)

-----------------------------------------------------------------------------
GrepInit ==
  /\ gjob \in GrepJob /\ input = gjob.text
  /\ buf = << >> /\ out = << >> /\ lost = FALSE /\ gdone = FALSE

GrepIdle ==
  /\ gjob = << >> /\ input = << >>
  /\ buf = << >> /\ out = << >> /\ lost = FALSE /\ gdone = TRUE

\* read() into what is free of the buffer, less a place for the NUL.
ReadLengths ==
  LET room == BUFSIZE - Len(buf) - 1
      most == IF Len(input) < room THEN Len(input) ELSE room
  IN IF gjob.pipe THEN 1 .. most ELSE {most} \ {0}

\* One turn of the loop: the whole lines are matched and the rest moves to the
\* front, unless there was no line.
KeepAll(s) == s
Keep(s) == IF Newlines(s) = {} THEN << >> ELSE Rest(s)
Turn(s, n) ==
  /\ out' = out \o Selected(gjob.re, Lines(s))
  /\ buf' = Keep(s)
  /\ lost' = (lost \/ Newlines(s) = {})
  /\ input' = From(input, n + 1)
GrepRead ==
  /\ ~gdone
  /\ \E n \in ReadLengths : Turn(buf \o SubSeq(input, 1, n), n)
  /\ UNCHANGED <<gjob, gdone>>

\* read() returns 0: what is left in the buffer is not looked at.
GrepEnd ==
  /\ ~gdone
  /\ ReadLengths = {}
  /\ gdone' = TRUE
  /\ UNCHANGED <<gjob, input, buf, out, lost>>

GrepNext == GrepRead \/ GrepEnd

-----------------------------------------------------------------------------
\* A pattern as a list of characters, each once or any number of times.
Items(re) ==
  LET f[i \in 1 .. Len(re) + 2] ==
        CASE i > Len(re) -> << >>
          [] i < Len(re) /\ re[i + 1] = "*" -> <<[c |-> re[i], star |-> TRUE]>> \o f[i + 2]
          [] OTHER -> <<[c |-> re[i], star |-> FALSE]>> \o f[i + 1]
  IN f[1]

\* A text is in the language of a pattern if a part of it, the part at the end it
\* is anchored to, can be cut into pieces, one for each item.
InLanguage(re, text) ==
  LET head == re # << >> /\ re[1] = "^"
      all == Items(IF head THEN Tail(re) ELSE re)
      tail == all # << >> /\ all[Len(all)] = [c |-> "$", star |-> FALSE]
      items == IF tail THEN SubSeq(all, 1, Len(all) - 1) ELSE all
      n == Len(items)
  IN \E cut \in [0 .. n -> 1 .. Len(text) + 1] :
       /\ head => cut[0] = 1
       /\ tail => cut[n] = Len(text) + 1
       /\ \A k \in 1 .. n :
            /\ cut[k - 1] <= cut[k]
            /\ ~items[k].star => cut[k] = cut[k - 1] + 1
            /\ \A j \in cut[k - 1] .. cut[k] - 1 : items[k].c \in {".", text[j]}

\* grep writes exactly the whole lines that are in the language of the pattern, in
\* order, however read() cuts the input, unless it threw away a part of a line.
WritesMatches ==
  gdone /\ gjob # << >> /\ ~lost =>
    out = FoldLeft(LAMBDA o, l : IF InLanguage(gjob.re, l) THEN o \o l \o <<NL>> ELSE o,
                   << >>, Lines(gjob.text))

\* It throws away nothing of a file of whole lines that are shorter than the
\* buffer and their newline, although the buffer ends in the middle of lines.
FilesWhole ==
  gjob # << >> /\ ~gjob.pipe /\ Rest(gjob.text) = << >>
    /\ (\A k \in 1 .. Len(Lines(gjob.text)) : Len(Lines(gjob.text)[k]) + 1 < BUFSIZE)
  => ~lost

\* There is always room to read, so an end of input is never made up.
RoomToRead == Len(buf) + 1 < BUFSIZE

\* grep() writes the whole lines that match and no others, however read() cuts the
\* input, unless it threw away a part of a line; it does not do that to a file of
\* whole lines that fit, and it always has room to read on.
LinesRight == WritesMatches /\ FilesWhole /\ RoomToRead
=============================================================================
