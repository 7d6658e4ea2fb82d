------------------------------ MODULE Devices -------------------------------
(***************************************************************************)
(* Three small machines at the edge of the kernel, each on its own: the    *)
(* keyboard decoder (src/kbd.c), the screen (cgaputc in src/console.c) and *)
(* counting ticks in sys_sleep (src/sysproc.c).  device says which one a   *)
(* behaviour is about.                                                     *)
(***************************************************************************)
EXTENDS Integers, Sequences, FiniteSets, SequencesExt

CONSTANTS Device,       \* of "kbd", "cga", "nap"
          Key,          \* keys of the keyboard, one for each modifier
          MaxWire,      \* bytes the keyboard controller keeps
          ROWS, COLS,   \* 25 and 80
          TickMod,      \* 2^32
          SleepArg,     \* arguments of sleep()
          MaxLag        \* ticks until a process that was woken runs

VARIABLES device, kbd, cga, nap

deviceVars == <<device, kbd, cga, nap>>

-----------------------------------------------------------------------------
(* The keyboard.  A key sends a byte when it goes down and one when it goes *)
(* up, some after the escape E0; home sends a shift that is not one around  *)
(* its own code.  held, caps and wants are about the user: the keys that    *)
(* are down, presses of caps lock, and what an a on the wire should give.   *)

Code(key, esc, up) == [key |-> key, esc |-> esc, up |-> up]
E0 == [key |-> "E0", esc |-> FALSE, up |-> FALSE]
Sends(key, up) ==
  CASE key = "rctl" -> <<E0, Code("ctl", TRUE, up)>>
    [] key = "home" -> IF up THEN <<E0, Code("home", TRUE, up), E0, Code("lshift", TRUE, up)>>
                       ELSE <<E0, Code("lshift", TRUE, up), E0, Code("home", TRUE, up)>>
    [] OTHER -> <<Code(key, FALSE, up)>>
Of == [SHIFT |-> "lshift", CTL |-> "rctl"]

\* shiftcode[] and togglecode[]; high says that bit 7 of the index is set.
shiftcode(key, high) ==
  CASE key = "lshift" -> IF high THEN {} ELSE {"SHIFT"}
    [] key = "ctl" -> {"CTL"}
    [] OTHER -> {}
togglecode(key) == IF key = "caps" THEN {"CAPSLOCK"} ELSE {}

\* charcode[] and the change of case, for the key a.
charcode(shift) ==
  CASE "CTL" \in shift -> "^A"
    [] "CTL" \notin shift /\ ("SHIFT" \in shift) = ("CAPSLOCK" \in shift) -> "a"
    [] OTHER -> "A"

\* What the user means by an a.
Down(bit) == Of[bit] \in kbd.held
Wanted == IF Down("CTL") THEN "^A" ELSE IF Down("SHIFT") # kbd.caps THEN "A" ELSE "a"

KbdInit == [wire |-> << >>, shift |-> {}, held |-> {}, caps |-> FALSE, typed |-> "none",
            want |-> << >>, due |-> "none"]

\* A key goes down, again when it repeats, or up.
KeyMoves(key, up, held) ==
  kbd' = [kbd EXCEPT
    !.wire = @ \o Sends(key, up), !.held = held,
    !.caps = @ # (key = "caps" /\ ~up),
    !.want = IF key = "a" /\ ~up THEN Append(@, Wanted) ELSE @]
KeyDown(key) ==
  /\ device = "kbd" /\ Len(kbd.wire) + Len(Sends(key, FALSE)) <= MaxWire
  /\ KeyMoves(key, FALSE, kbd.held \cup {key})
  /\ UNCHANGED <<device, cga, nap>>
KeyUp(key) ==
  /\ device = "kbd" /\ Len(kbd.wire) + Len(Sends(key, TRUE)) <= MaxWire
  /\ key \in kbd.held
  /\ KeyMoves(key, TRUE, kbd.held \ {key})
  /\ UNCHANGED <<device, cga, nap>>

\* kbdgetc(): the byte at the port.
Release(b, shift) == shift \ (shiftcode(b.key, "E0ESC" \in shift) \cup {"E0ESC"})
Toggle(shift, bits) == (shift \ bits) \cup (bits \ shift)
Press(b, shift) ==
  Toggle((shift \ {"E0ESC"}) \cup shiftcode(b.key, "E0ESC" \in shift), togglecode(b.key))
Shifted(b, shift) ==
  CASE b = E0 -> shift \cup {"E0ESC"}
    [] b # E0 /\ b.up -> Release(b, shift)
    [] OTHER -> Press(b, shift)
PressesA(b) == b.key = "a" /\ ~b.up
kbdgetc ==
  /\ device = "kbd" /\ kbd.wire # << >>
  /\ LET b == Head(kbd.wire)
     IN kbd' = [kbd EXCEPT !.wire = Tail(@), !.shift = Shifted(b, @),
                           !.typed = IF PressesA(b) THEN charcode(Shifted(b, kbd.shift)) ELSE "none",
                           !.due = IF PressesA(b) THEN Head(kbd.want) ELSE "none",
                           !.want = IF PressesA(b) THEN Tail(@) ELSE @]
  /\ UNCHANGED <<device, cga, nap>>

-----------------------------------------------------------------------------
(* The screen: crt has ROWS rows, of which the last is never shown.  ideal  *)
(* is what a terminal of ROWS - 1 lines would show.                         *)

Visible == ROWS - 1
BlankRow == [c \in 0 .. COLS - 1 |-> " "]
CgaInit == [pos |-> 0, crt |-> [i \in 0 .. ROWS * COLS - 1 |-> " "],
            ideal |-> [r \in 0 .. Visible - 1 |-> BlankRow], r |-> 0, c |-> 0]

Move(pos, ch) ==
  CASE ch = "newline" -> pos + COLS - (pos % COLS)
    [] ch = "backspace" -> IF pos > 0 THEN pos - 1 ELSE pos
    [] OTHER -> pos + 1
scroll(crt, pos) ==
  [i \in DOMAIN crt |-> CASE i < (Visible - 1) * COLS -> crt[i + COLS]
                          [] i >= pos /\ i < Visible * COLS -> " "
                          [] OTHER -> crt[i]]
Cursor(crt, pos) == [pos |-> pos, crt |-> [crt EXCEPT ![pos] = " "]]
AfterMove(crt, pos) ==
  IF pos \div COLS >= Visible THEN Cursor(scroll(crt, pos - COLS), pos - COLS) ELSE Cursor(crt, pos)
cgaputc(crt, pos, ch) ==
  AfterMove(IF ch = "x" THEN [crt EXCEPT ![pos] = ch] ELSE crt, Move(pos, ch))

\* The terminal: lines that move up when the last one is full.
LineFeed(rows, r) == IF r + 1 < Visible THEN [rows |-> rows, r |-> r + 1, c |-> 0]
                 ELSE [rows |-> [k \in 0 .. Visible - 1 |-> IF k = r THEN BlankRow ELSE rows[k + 1]],
                       r |-> r, c |-> 0]
Terminal(rows, r, c, ch) ==
  CASE ch = "newline" -> LineFeed(rows, r)
    [] ch = "x" -> IF c + 1 < COLS THEN [rows |-> [rows EXCEPT ![r][c] = ch], r |-> r, c |-> c + 1]
                   ELSE LineFeed([rows EXCEPT ![r][c] = ch], r)
    [] OTHER -> IF r = 0 /\ c = 0 THEN [rows |-> rows, r |-> r, c |-> c]
                ELSE IF c > 0 THEN [rows |-> [rows EXCEPT ![r][c - 1] = " "], r |-> r, c |-> c - 1]
                ELSE [rows |-> [rows EXCEPT ![r - 1][COLS - 1] = " "], r |-> r - 1, c |-> COLS - 1]

Show(s, t) == cga' = [pos |-> s.pos, crt |-> s.crt, ideal |-> t.rows, r |-> t.r, c |-> t.c]
CgaPut(ch) ==
  /\ device = "cga"
  /\ Show(cgaputc(cga.crt, cga.pos, ch), Terminal(cga.ideal, cga.r, cga.c, ch))
  /\ UNCHANGED <<device, kbd, nap>>

-----------------------------------------------------------------------------
(* sleep(n): ticks wraps.  due is the number of ticks since the last look   *)
(* at the counter, elapsed since the first.  At the first look and from *)
(* each look to the sleep the process holds tickslock: no tick comes, but a  *)
(* kill may, unnoticed until the next tick wakes the process.                *)

NapInits == {[ticks |-> t, t0 |-> t, n |-> n, pc |-> "call", elapsed |-> 0, due |-> 0, killed |-> FALSE] :
               t \in 0 .. TickMod - 1, n \in SleepArg}
Tick ==
  /\ device = "nap" /\ nap.pc \in {"test", "asleep"} /\ nap.due < MaxLag
  /\ nap' = [nap EXCEPT !.ticks = (@ + 1) % TickMod, !.elapsed = @ + 1, !.due = @ + 1,
                        !.pc = IF @ = "asleep" THEN "test" ELSE @]
  /\ UNCHANGED <<device, kbd, cga>>
BeforeWrapped(ticks, t0, n) == ticks < t0 + n
Before(ticks, t0, n) == (ticks - t0) % TickMod < n % TickMod
NapKill ==
  /\ device = "nap" /\ nap.pc \in {"call", "test", "sleep", "asleep"} /\ ~nap.killed
  /\ nap' = [nap EXCEPT !.killed = TRUE, !.pc = IF @ = "asleep" THEN "test" ELSE @]
  /\ UNCHANGED <<device, kbd, cga>>
Loop(s, before) ==
  CASE ~before -> [s EXCEPT !.pc = "done"]
    [] before /\ s.killed -> [s EXCEPT !.pc = "killed"]
    [] OTHER -> [s EXCEPT !.pc = "sleep", !.due = 0]
sys_sleep ==
  /\ device = "nap" /\ nap.pc \in {"call", "test"}
  /\ nap' = Loop(nap, Before(nap.ticks, nap.t0, nap.n))
  /\ UNCHANGED <<device, kbd, cga>>
NapSleep ==
  /\ device = "nap" /\ nap.pc = "sleep"
  /\ nap' = [nap EXCEPT !.pc = "asleep"]
  /\ UNCHANGED <<device, kbd, cga>>

-----------------------------------------------------------------------------
DevicesInit ==
  /\ device \in Device
  /\ kbd = IF device = "kbd" THEN KbdInit ELSE << >>
  /\ cga = IF device = "cga" THEN CgaInit ELSE << >>
  /\ IF device = "nap" THEN nap \in NapInits ELSE nap = << >>

DevicesIdle == device = "none" /\ kbd = << >> /\ cga = << >> /\ nap = << >>

DevicesNext ==
  \/ \E key \in Key : KeyDown(key) \/ KeyUp(key)
  \/ kbdgetc
  \/ \E ch \in {"x", "newline", "backspace"} : CgaPut(ch)
  \/ Tick \/ NapKill \/ sys_sleep \/ NapSleep

-----------------------------------------------------------------------------
\* No modifier stays on when its key is up, and none is off while it is down: escapes,
\* repeats, and the shift that other keys send leave shift as it should be once every
\* byte is read.
ModifiersMatch ==
  device = "kbd" /\ kbd.wire = << >> =>
    /\ "E0ESC" \notin kbd.shift
    /\ ("CAPSLOCK" \in kbd.shift) = kbd.caps
    /\ \A bit \in DOMAIN Of : (bit \in kbd.shift) = Down(bit)

\* A letter comes out as the user meant it when they pressed it, however late the
\* byte is read.
LettersMeant == device = "kbd" => kbd.due = kbd.typed

\* The screen shows what a terminal of ROWS - 1 lines shows, with the cursor where
\* it should be, so the position never makes cgaputc() panic.
ScreenShows ==
  device = "cga" =>
    /\ cga.pos = cga.r * COLS + cga.c /\ cga.r < Visible
    /\ \A r \in 0 .. Visible - 1, c \in 0 .. COLS - 1 : cga.crt[r * COLS + c] = cga.ideal[r][c]

\* sleep(n) returns 0 when n ticks have passed and not before, also when the counter
\* wraps (a negative n counts as unsigned), and sleeps on for no more than the time
\* until the process runs.
Want == nap.n % TickMod
SleepExact ==
  device = "nap" => /\ nap.pc = "done" => nap.elapsed >= Want
                    /\ nap.elapsed <= Want + MaxLag

\* kbdgetc() follows the keys, cgaputc() shows the text, and sys_sleep() waits for as
\* many ticks as asked, wrap or not.
DevicesRight == ModifiersMatch /\ LettersMeant /\ ScreenShows /\ SleepExact
=============================================================================
