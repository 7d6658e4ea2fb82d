------------------------------ MODULE Routines ------------------------------
(***************************************************************************)
(* Routines that compute: the commands of this system (src/factor.c,       *)
(* src/base64.c, src/split.c, src/chmod.c with src/ls.c, src/wc.c), the    *)
(* libraries (src/ulib.c, src/printf.c, src/string.c) and the boot loader  *)
(* (src/bootmain.c).  A behaviour is one call: call is what was called     *)
(* with which arguments, ret what it returned or wrote.                    *)
(***************************************************************************)
EXTENDS Integers, Sequences, FiniteSets, SequencesExt

CONSTANTS INTBITS,      \* bits of an int
          ReadSeq,      \* inputs of base64, as the reads that bring them
          Suffix,       \* suffixes of split, as digits 0 .. Letters - 1
          Letters,      \* letters of default_suffix
          ChmodArg,     \* arguments of chmod
          WcText, WcBuf,
          MemSize,      \* cells for memmove
          CopyText,     \* strings for safestrcpy
          Elf, Sector   \* kernel images, and the size of a sector

VARIABLES call, ret

routineVars == <<call, ret>>

MaxInt == 2^(INTBITS - 1) - 1
int(x) == ((x + MaxInt + 1) % 2^INTBITS) - MaxInt - 1    \* wraps to an int
uint(x) == x % 2^INTBITS

\* Indices a, a + 1, .., b, and back.
Up(a, b) == IF b < a THEN << >> ELSE [k \in 1 .. b - a + 1 |-> a + k - 1]
DownTo(b, a) == Reverse(Up(a, b))

-----------------------------------------------------------------------------
(* factor.  NoEnd: it prints without end.  Undefined: i*i overflows an int. *)

NoEnd == <<-1>>
Undefined == <<-2>>
Over(n) == {i \in 1 .. MaxInt : i * i > n}
integerSqrt(n) == Min(Over(n)) - 1
Overflows(n) == Min(Over(n))^2 > MaxInt

\* while(n % i == 0) { print i; n /= i; }
Times(n, i) == Max({e \in 0 .. INTBITS : n % (i^e) = 0})
DivideTimes(s, i, e) == [n |-> s.n \div (i^e), out |-> s.out \o [k \in 1 .. e |-> i]]
Divide(s, i) == DivideTimes(s, i, Times(s.n, i))
Odds(end) == SelectSeq(Up(3, end), LAMBDA i : i % 2 = 1)
LastFactor(s) == IF s.n > 2 THEN Append(s.out, s.n) ELSE s.out
OddPart(s, end) == LastFactor(FoldLeft(Divide, s, Odds(end)))
FactorsOf(s) == IF Overflows(s.n) THEN Undefined ELSE OddPart(s, integerSqrt(s.n))
printFactor(n) == IF n = 0 THEN NoEnd ELSE FactorsOf(Divide([n |-> n, out |-> << >>], 2))

-----------------------------------------------------------------------------
(* base64.  Each read() that brings something is encoded for itself, with    *)
(* padding if it brought less than three bytes; a byte is a signed char.     *)

Pad == 64
char(b) == IF b < 128 THEN b ELSE b - 256
bits(buf) == FoldLeft(LAMBDA acc, b : acc * 256 + char(b), 0, buf)
Digit(b, shift) == (b \div 2^shift) % 64
group(n, b) ==
  CASE n = 1 -> <<Digit(b * 16, 6), Digit(b * 16, 0), Pad, Pad>>
    [] n = 2 -> <<Digit(b * 4, 12), Digit(b * 4, 6), Digit(b * 4, 0), Pad>>
    [] n = 3 -> <<Digit(b, 18), Digit(b, 12), Digit(b, 6), Digit(b, 0)>>
encode(reads) == FoldLeft(LAMBDA o, buf : o \o group(Len(buf), bits(buf)), << >>, reads)

\* A file gives three bytes to every read but the last; a pipe or the console gives
\* what is there, at least one.
FullReads(reads) == \A i \in 1 .. Len(reads) - 1 : Len(reads[i]) = 3
Readable(fd, reads) == fd = "file" => FullReads(reads)

-----------------------------------------------------------------------------
(* split: the next suffix, from the last letter on while there is a carry.  *)

CarryAlways(s, i) ==
  [suffix |-> [s.suffix EXCEPT ![i] = (@ + 1) % Letters], carrier |-> IF s.suffix[i] + 1 = Letters THEN 1 ELSE 0]
Carry(s, i) ==
  IF s.carrier # 1 THEN s
  ELSE [suffix |-> [s.suffix EXCEPT ![i] = (@ + 1) % Letters], carrier |-> IF s.suffix[i] + 1 = Letters THEN 1 ELSE 0]
nextSuffix(suffix) == FoldLeft(Carry, [suffix |-> suffix, carrier |-> 1], DownTo(Len(suffix), 1))

-----------------------------------------------------------------------------
(* printf's numbers and atoi.                                               *)

Digits(base) == LET f[x \in 0 .. 2^INTBITS - 1] ==
                      IF x < base THEN <<x>> ELSE Append(f[x \div base], x % base)
                IN f
printint(xx, base, sgn) ==
  [neg |-> sgn /\ xx < 0, digits |-> Digits(base)[IF sgn /\ xx < 0 THEN uint(-xx) ELSE uint(xx)]]
decimal(digits) == FoldLeft(LAMBDA n, d : n * 10 + d, 0, digits)
atoi(digits) == int(decimal(digits))

-----------------------------------------------------------------------------
(* chmod and ls.  An argument of chmod is a sequence of digits and Letter0; *)
(* a number of three digits fits in an int.                                 *)

Letter0 == 10
Wrong == -1
checkInt(arg) == \A i \in 1 .. Len(arg) : arg[i] # Letter0
modeOf(user, grp, other) == IF user > 7 \/ grp > 7 \/ other > 7 THEN Wrong ELSE (user * 64) + (grp * 8) + other
modeInt(n) == modeOf((n \div 100) % 10, (n \div 10) % 10, n % 10)
chmodMain(arg) == IF Len(arg) # 3 \/ ~checkInt(arg) THEN Wrong ELSE modeInt(decimal(arg))

\* The bits of mode_t: o_x is bit 0, u_r bit 8.
flag(mode, bit) == (mode \div 2^bit) % 2 = 1
typeShown == [t \in {"T_DIR", "T_FILE", "T_DEV", "other"} |->
                CASE t = "T_DIR" -> "d" [] t = "T_FILE" -> "-" [] t = "T_DEV" -> "c" [] OTHER -> "?"]
shownFrom(mode, order) == [k \in 1 .. 9 |-> IF flag(mode, order[k]) THEN <<"r", "w", "x">>[((k - 1) % 3) + 1] ELSE "-"]
print_mode(st) == <<typeShown[st.type]>> \o shownFrom(st.mode, DownTo(8, 0))

-----------------------------------------------------------------------------
(* wc, memmove and safestrcpy.                                              *)

Space == {" ", "\n"}
Part(s, k, size) == SubSeq(s, size * (k - 1) + 1, IF size * k < Len(s) THEN size * k ELSE Len(s))
Parts(s, size) == [k \in 1 .. (Len(s) + size - 1) \div size |-> Part(s, k, size)]
Count(s, ch) ==
  [l |-> IF ch = "\n" THEN s.l + 1 ELSE s.l,
   w |-> IF ch \notin Space /\ ~s.inword THEN s.w + 1 ELSE s.w,
   c |-> s.c + 1,
   inword |-> ch \notin Space]
CountBuffer(s, b) == FoldLeft(Count, s, b)
wc(text) == FoldLeft(CountBuffer, [l |-> 0, w |-> 0, c |-> 0, inword |-> FALSE], Parts(text, WcBuf))

Cells == [i \in 0 .. MemSize - 1 |-> i]
CopyCell(m, d, s) == [m EXCEPT ![d] = m[s]]
Forward(m, dst, src, n) == FoldLeft(LAMBDA a, k : CopyCell(a, dst + k, src + k), m, Up(0, n - 1))
Backward(m, dst, src, n) == FoldLeft(LAMBDA a, k : CopyCell(a, dst + k, src + k), m, DownTo(n - 1, 0))
memmoveUser(m, dst, src, n) == Forward(m, dst, src, n)
memmove(m, dst, src, n) ==
  IF src < dst /\ src + n > dst THEN Backward(m, dst, src, n) ELSE Forward(m, dst, src, n)

\* The loop leaves s at the first place not written, or at the NUL and one more.
Before0(t, n) == Cardinality({k \in 1 .. n - 1 : k <= Len(t)})
safestrcpy(s, t, n) ==
  IF n <= 0 THEN s
  ELSE [i \in DOMAIN s |->
          CASE i <= Before0(t, n) -> t[i]
            [] i = Before0(t, n) + 1 -> "nul"
            [] i = Before0(t, n) + 2 /\ Len(t) + 1 < n -> "nul"
            [] OTHER -> s[i]]

-----------------------------------------------------------------------------
(* The boot loader.  An image is the bytes of the kernel file, from sector  *)
(* 1 of the disk on, with its program headers.                              *)

readsect(m, img, pa, sector) ==
  [a \in DOMAIN m |-> IF a >= pa /\ a < pa + Sector THEN img[(sector - 1) * Sector + a - pa] ELSE m[a]]
readsegFrom(m, img, pa, epa, sector) ==
  FoldLeft(LAMBDA a, k : readsect(a, img, pa + k * Sector, sector + k), m,
           Up(0, ((epa - pa + Sector - 1) \div Sector) - 1))
readseg(m, img, pa, count, off) ==
  readsegFrom(m, img, pa - (off % Sector), pa + count, (off \div Sector) + 1)
stosb(m, a, n) == [x \in DOMAIN m |-> IF x >= a /\ x < a + n THEN 0 ELSE m[x]]
load(m, img, ph) ==
  stosb(readseg(m, img, ph.paddr, ph.filesz, ph.off), ph.paddr + ph.filesz, ph.memsz - ph.filesz)
bootmain(elf) == FoldLeft(LAMBDA m, ph : load(m, elf.img, ph), elf.mem, elf.ph)

-----------------------------------------------------------------------------
RoutinesInit == call = <<"none", << >> >> /\ ret = << >>
Calls(name, args, result) ==
  /\ call' = <<name, args>>
  /\ ret' = <<result>>

CallFactor == \E n \in 0 .. MaxInt : Calls("factor", <<n>>, printFactor(n))
CallEncode ==
  \E fd \in {"file", "stdin"}, reads \in ReadSeq :
    Readable(fd, reads) /\ Calls("base64", <<fd, reads>>, encode(reads))
CallSuffix == \E s \in Suffix : Calls("suffix", <<s>>, nextSuffix(s))
CallPrint ==
  \E x \in -MaxInt - 1 .. MaxInt, base \in {10, 16}, sgn \in BOOLEAN :
    Calls("print", <<x, base, sgn>>, printint(x, base, sgn))
CallChmod == \E arg \in ChmodArg : Calls("chmod", <<arg>>, chmodMain(arg))
CallWc == \E t \in WcText : Calls("wc", <<t>>, wc(t))
MoveArgs == {a \in (0 .. MemSize) \X (0 .. MemSize) \X (0 .. MemSize) :
               a[1] + a[3] <= MemSize /\ a[2] + a[3] <= MemSize}
CallMove == \E a \in MoveArgs : Calls("memmove", a, memmove(Cells, a[1], a[2], a[3]))
CallMoveUser == \E a \in MoveArgs : Calls("memmoveUser", a, memmoveUser(Cells, a[1], a[2], a[3]))
Dirty == [i \in 1 .. 4 |-> "?"]
CallCopy == \E t \in CopyText, n \in 0 .. 4 : Calls("copy", <<t, n>>, safestrcpy(Dirty, t, n))
CallBoot == \E elf \in Elf : Calls("boot", <<elf>>, bootmain(elf))

RoutinesNext ==
  /\ call[1] = "none"
  /\ \/ CallFactor \/ CallEncode \/ CallSuffix \/ CallPrint \/ CallChmod \/ CallWc
     \/ CallMove \/ CallMoveUser \/ CallCopy \/ CallBoot

RoutinesSpec == RoutinesInit /\ [][RoutinesNext]_routineVars

-----------------------------------------------------------------------------
(* What the calls are to return, each for itself.                           *)

Returned(name) == call[1] = name
In(k) == call[2][k]
Out == ret[1]

Prime(p) == p > 1 /\ \A d \in 2 .. p - 1 : p % d # 0
Product(s) == FoldLeft(LAMBDA a, b : a * b, 1, s)

Factorization(s, n) ==
  /\ Product(s) = n
  /\ \A i \in 1 .. Len(s) : Prime(s[i]) /\ (i > 1 => s[i - 1] <= s[i])

\* factor prints the prime factors in ascending order, although the bound of its loop
\* is computed once, for every number but 0 whose odd part is below the largest square
\* an int holds, where the i*i of integerSqrt() does not overflow.
LargestSquare == Max({r * r : r \in {r \in 1 .. MaxInt : r * r <= MaxInt}})
Odd(n) == n \div 2^Times(n, 2)
FactorsRight ==
  Returned("factor") /\ In(1) > 0 /\ Odd(In(1)) < LargestSquare => Factorization(Out, In(1))

\* What src/README.md says of factor: it shows the prime factorization of the number
\* it is given.  printFactor() prints 2 without end for 0, and integerSqrt() overflows
\* for the largest numbers.
FactorsDocumented == Returned("factor") => Factorization(Out, In(1))

\* The 6-bit groups of a byte string, filled up with zero bits.
BitAt(s, k) == IF k \div 8 < Len(s) THEN (s[(k \div 8) + 1] \div 2^(7 - (k % 8))) % 2 ELSE 0
SixBits(s, g) == FoldLeft(LAMBDA a, k : 2 * a + BitAt(s, 6 * g + k), 0, Up(0, 5))
Base64(s) ==
  [i \in 1 .. 4 * ((Len(s) + 2) \div 3) |->
     IF 6 * (i - 1) < 8 * Len(s) THEN SixBits(s, i - 1) ELSE Pad]

\* base64 encodes an input that comes in full reads and whose second and third bytes
\* of each group are ASCII, whatever its length modulo three.
EncodesAscii ==
  LET bytes == FlattenSeq(In(2))
  IN Returned("base64") /\ FullReads(In(2)) /\ (\A i \in 1 .. Len(bytes) : bytes[i] < 128 \/ i % 3 = 1)
       => Out = Base64(bytes)

\* What src/README.md says of base64: it shows the base64 form of a file or of stdin,
\* padded if the number of characters is no multiple of 3.  encode() pads after every
\* read() that brings one or two bytes, and adds a byte above 127 as a negative number.
EncodesInput == Returned("base64") => Out = Base64(FlattenSeq(In(2)))

\* nextSuffix() counts through all suffixes of the length in order and reports the
\* overflow exactly after the last one.
Value(s) == FoldLeft(LAMBDA a, d : a * Letters + d, 0, s)
SuffixCounts ==
  Returned("suffix") =>
    /\ Value(Out.suffix) = (Value(In(1)) + 1) % (Letters^Len(In(1)))
    /\ Out.carrier = 1 <=> Value(In(1)) + 1 = Letters^Len(In(1))

\* A number that printf writes is the number it was given, the least int and hex
\* included, without leading zeros, and atoi() reads it back.
Printed(p, base) == FoldLeft(LAMBDA a, d : a * base + d, 0, p.digits)
PrintsNumbers ==
  Returned("print") =>
    LET v == Printed(Out, In(2))
    IN /\ In(3) => (IF Out.neg THEN -v ELSE v) = In(1)
       /\ ~In(3) => v = uint(In(1)) /\ ~Out.neg
       /\ Len(Out.digits) > 1 => Out.digits[1] # 0
       /\ In(2) = 10 /\ ~Out.neg /\ In(1) >= 0 => atoi(Out.digits) = In(1)

\* ls shows for each octal digit given to chmod its three permissions, so the bits
\* pass through chmod, the inode's mode and mode_t in one order.
Rwx == << <<"-", "-", "-">>, <<"-", "-", "x">>, <<"-", "w", "-">>, <<"-", "w", "x">>,
          <<"r", "-", "-">>, <<"r", "-", "x">>, <<"r", "w", "-">>, <<"r", "w", "x">> >>
ModesShown ==
  Returned("chmod") =>
    IF Len(In(1)) = 3 /\ \A i \in 1 .. 3 : In(1)[i] \in 0 .. 7
    THEN /\ Out \in 0 .. 511    \* what chmod() in the kernel accepts
         /\ Tail(print_mode([type |-> "T_FILE", mode |-> Out])) =
              Rwx[In(1)[1] + 1] \o Rwx[In(1)[2] + 1] \o Rwx[In(1)[3] + 1]
    ELSE Out = Wrong

\* wc counts newlines, and words as they start, also across two reads.
Starts(t) == {i \in 1 .. Len(t) : t[i] \notin Space /\ (i = 1 \/ t[i - 1] \in Space)}
WordsCounted ==
  Returned("wc") =>
    /\ Out.l = Cardinality({i \in 1 .. Len(In(1)) : In(1)[i] = "\n"})
    /\ Out.w = Cardinality(Starts(In(1))) /\ Out.c = Len(In(1))

\* The kernel's memmove() copies overlapping ranges; the user library's copies them
\* unless the target starts inside the source.
Moved(dst, src, n) == [i \in DOMAIN Cells |-> IF i >= dst /\ i < dst + n THEN i - dst + src ELSE i]
MovesRight ==
  /\ Returned("memmove") => Out = Moved(In(1), In(2), In(3))
  /\ Returned("memmoveUser") /\ ~(In(2) < In(1) /\ In(1) < In(2) + In(3))
       => Out = Moved(In(1), In(2), In(3))

\* safestrcpy() leaves a string that ends in its n places, with as much of the source
\* as fits, and writes no other place.
CopyEnds ==
  Returned("copy") =>
    LET keep == IF Len(In(1)) < In(2) THEN Len(In(1)) ELSE In(2) - 1
    IN /\ \A i \in In(2) + 1 .. 4 : Out[i] = "?"
       /\ In(2) > 0 => /\ Out[keep + 1] = "nul"
                       /\ \A i \in 1 .. keep : Out[i] = In(1)[i]

\* The loader reads whole sectors, so more than a segment on both sides; still every
\* segment is in place, zeros behind it included, as long as none starts in a sector
\* that holds memory of an earlier one.
Apart(ph) == \A i, j \in 1 .. Len(ph) :
               i < j => ph[i].paddr + ph[i].memsz <= ph[j].paddr - (ph[j].off % Sector)
KernelLoaded ==
  Returned("boot") /\ Apart(In(1).ph) =>
    \A i \in 1 .. Len(In(1).ph) :
      LET ph == In(1).ph[i]
      IN \A k \in 0 .. ph.memsz - 1 :
           Out[ph.paddr + k] = IF k < ph.filesz THEN In(1).img[ph.off + k] ELSE 0

\* Every routine returns what its reference definition says, up to the edge of the
\* range each of the parts names: factor, base64 (ASCII in full reads), split's
\* suffixes, printint and atoi, chmod with ls, wc, memmove, safestrcpy and the boot
\* loader.
RoutinesRight ==
  /\ FactorsRight /\ EncodesAscii /\ SuffixCounts /\ PrintsNumbers /\ ModesShown
  /\ WordsCounted /\ MovesRight /\ CopyEnds /\ KernelLoaded
=============================================================================
