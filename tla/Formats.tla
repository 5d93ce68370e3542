------------------------------ MODULE Formats -------------------------------
(***************************************************************************)
(* Numbers, texts, sums and dates: simple_strtoul, number and vsprintf     *)
(* (lib_generic/vsprintf.c), print_size (display_options.c), crc32         *)
(* (crc32.c, the same file in lib_bootstrap) and rtc/date.c.  A long has   *)
(* WordMax + 1 values; a text is a sequence of characters.  One of them is *)
(* picked and goes through its inputs.                                     *)
(***************************************************************************)
EXTENDS Integers, SequencesExt

CONSTANTS
    WordMax,            \* largest unsigned long, for numbers and texts
    Formattings,        \* sets of flags and widths a number is printed with
    CrcChunks,          \* pieces of data crc32 is given, sequences of bytes
    MaxData,            \* bound on the length of the data
    CrcBits,            \* exponents below CrcWidth of the polynomial
    CrcWidth,           \* its degree
    DateStep, MaxDate   \* seconds from one date to the next, and the last one

ASSUME FormatsAssumption ==
    /\ WordMax \in Nat /\ (WordMax + 1) % 2 = 0
    /\ CrcWidth \in Nat /\ CrcWidth >= 8 /\ CrcBits \subseteq 0 .. CrcWidth - 1
    /\ MaxData \in Nat /\ DateStep \in Nat \ {0} /\ MaxDate \in Nat

VARIABLES
    subject,            \* what is looked at
    num,                \* a number
    data, crc,          \* data and the sum of it so far
    tim                 \* a date

formatsVars == <<subject, num, data, crc, tim>>

Bigger(a, b) == IF a > b THEN a ELSE b

-----------------------------------------------------------------------------
(* simple_strtoul: the value, and how many characters it took.             *)

DigitOf == [c \in {"0", "1", "2", "3", "4", "5", "6", "7", "8", "9"} |->
              CHOOSE n \in 0 .. 9 : ToString(n) = c]
Letter == [a |-> 10, b |-> 11, c |-> 12, d |-> 13, e |-> 14, f |-> 15,
           A |-> 10, B |-> 11, C |-> 12, D |-> 13, E |-> 14, F |-> 15]
isdigit(c) == c \in DOMAIN DigitOf
isxdigit(c) == isdigit(c) \/ c \in DOMAIN Letter
DigitValue(c) == IF isdigit(c) THEN DigitOf[c] ELSE Letter[c]

(* Mutant: a leading 0 makes the number octal whatever base was asked for. *)
BaseAlwaysOctal(s, base) ==
    IF Len(s) >= 3 /\ s[1] = "0" /\ s[2] = "x" /\ isxdigit(s[3]) THEN 16
    ELSE IF s # <<>> /\ s[1] = "0" THEN 8 ELSE IF base # 0 THEN base ELSE 10

Base(s, base) ==
    IF Len(s) >= 3 /\ s[1] = "0" /\ s[2] = "x" /\ isxdigit(s[3]) THEN 16
    ELSE IF base # 0 THEN base ELSE IF s # <<>> /\ s[1] = "0" THEN 8 ELSE 10

Strtoul(s, base) ==
    LET b == Base(s, base)
        from == IF Len(s) >= 3 /\ s[1] = "0" /\ s[2] = "x" /\ isxdigit(s[3]) THEN 2
                ELSE IF s # <<>> /\ s[1] = "0" THEN 1 ELSE 0
        upto[i \in 0 .. Len(s)] ==
            IF i < Len(s) /\ isxdigit(s[i + 1]) /\ DigitValue(s[i + 1]) < b THEN upto[i + 1] ELSE i
        value[i \in 0 .. Len(s)] ==
            IF i <= from THEN 0 ELSE (value[i - 1] * b + DigitValue(s[i])) % (WordMax + 1)
    IN  [value |-> value[upto[from]], used |-> upto[from]]

Strtol(s, base) ==
    IF s # <<>> /\ s[1] = "-"
    THEN LET r == Strtoul(Tail(s), base) IN [value |-> (WordMax + 1 - r.value) % (WordMax + 1), used |-> r.used + 1]
    ELSE Strtoul(s, base)

-----------------------------------------------------------------------------
(* number and vsprintf.                                                    *)

SmallDigits == <<"0", "1", "2", "3", "4", "5", "6", "7", "8", "9", "a", "b", "c", "d", "e", "f">>
LargeDigits == <<"0", "1", "2", "3", "4", "5", "6", "7", "8", "9", "A", "B", "C", "D", "E", "F">>

DigitsOf(n, base, digits) ==
    LET text[k \in 0 .. n] == IF k < base THEN <<digits[k + 1]>> ELSE Append(text[k \div base], digits[(k % base) + 1])
    IN  text[n]

Fill(c, n) == [i \in 1 .. n |-> c]
Negative(n) == n > WordMax \div 2

Sign(n, flags) ==
    IF "SIGN" \notin flags THEN <<>>
    ELSE IF Negative(n) THEN <<"-">>
    ELSE IF "PLUS" \in flags THEN <<"+">> ELSE IF "SPACE" \in flags THEN <<" ">> ELSE <<>>
Prefix(base, flags) ==
    IF "SPECIAL" \notin flags THEN <<>>
    ELSE CASE base = 8 -> <<"0">> [] base = 16 -> <<"0", IF "LARGE" \in flags THEN "X" ELSE "x">> [] OTHER -> <<>>

Number(n, base, size, precision, flags) ==
    LET magnitude == IF "SIGN" \in flags /\ Negative(n) THEN WordMax + 1 - n ELSE n
        digits == DigitsOf(magnitude, base, IF "LARGE" \in flags THEN LargeDigits ELSE SmallDigits)
        zeros == Fill("0", Bigger(0, precision - Len(digits)))
        sign == Sign(n, flags)
        prefix == Prefix(base, flags)
        room == Bigger(0, size - Len(sign \o prefix \o zeros \o digits))
        left == "LEFT" \in flags
        pad == "ZEROPAD" \in flags /\ ~left
    IN  (IF left \/ pad THEN <<>> ELSE Fill(" ", room)) \o sign \o prefix
        \o (IF pad THEN Fill("0", room) ELSE <<>>) \o zeros \o digits
        \o (IF left THEN Fill(" ", room) ELSE <<>>)

(* A conversion of a format: flags, width (-1 is none, "*" an argument),   *)
(* precision, qualifier and character.                                     *)
NumberBase(conversion) == CASE conversion = "o" -> 8 [] conversion \in {"x", "X", "p"} -> 16 [] OTHER -> 10
NumberFlags(conversion) ==
    CASE conversion = "X" -> {"LARGE"} [] conversion \in {"d", "i"} -> {"SIGN"} [] OTHER -> {}

(* A negative width that is an argument stands for LEFT and its size.      *)
Widened(f, width) ==
    IF width < 0 THEN [f EXCEPT !.width = -width, !.flags = @ \cup {"LEFT"}] ELSE [f EXCEPT !.width = width]

FormatNumber(f, n) == Number(n, NumberBase(f.conversion), f.width, f.precision, f.flags \cup NumberFlags(f.conversion))

FormatPointer(f, n) ==
    IF f.width = -1 THEN Number(n, 16, 8, f.precision, f.flags \cup {"ZEROPAD"})
    ELSE Number(n, 16, f.width, f.precision, f.flags)

FormatString(f, text) ==
    LET shown == IF f.precision >= 0 /\ f.precision < Len(text) THEN SubSeq(text, 1, f.precision) ELSE text
        room == Fill(" ", Bigger(0, f.width - Len(shown)))
    IN  IF "LEFT" \in f.flags THEN shown \o room ELSE room \o shown

(* The pieces of a format: plain text, or a conversion with its argument;  *)
(* %% is a percent sign, and an unknown conversion is shown as it is.      *)
Converted(f, arg) ==
    CASE f.conversion = "s" -> FormatString(f, arg)
      [] f.conversion = "c" -> FormatString([f EXCEPT !.precision = -1], <<arg>>)
      [] f.conversion = "p" -> FormatPointer(f, arg)
      [] f.conversion \in {"o", "x", "X", "d", "i", "u"} -> FormatNumber(f, arg)
      [] f.conversion = "%" -> <<"%">>
      [] OTHER -> <<"%", f.conversion>>

Vsprintf(pieces) == FlattenSeq([i \in DOMAIN pieces |-> IF pieces[i].plain THEN pieces[i].text
                                                       ELSE Converted(pieces[i].format, pieces[i].arg)])

(* print_size: whole units and tenths, kB below a MB.                      *)
PrintSize(size) ==
    LET d == IF size < 1048576 THEN 1024 ELSE 1048576
        n == size \div d
        m == (10 * (size - n * d) + d \div 2) \div d
    IN  IF m >= 10 THEN [n |-> n + 1, m |-> m - 10, d |-> d] ELSE [n |-> n, m |-> m, d |-> d]

-----------------------------------------------------------------------------
(* crc32: a sum is the set of its one bits, a byte is a number.            *)

Xor(a, b) == (a \ b) \cup (b \ a)
ShiftRight(c, k) == {i - k : i \in {j \in c : j >= k}}
BitsOf(byte) == {i \in 0 .. 7 : (byte \div 2 ^ i) % 2 = 1}

(* make_crc_table: the lowest power of the polynomial is the highest bit.  *)
Poly == {CrcWidth - 1 - i : i \in CrcBits}
crc_table ==
    [bits \in SUBSET (0 .. 7) |->
        LET c[k \in 0 .. 8] ==
                IF k = 0 THEN bits
                ELSE IF 0 \in c[k - 1] THEN Xor(Poly, ShiftRight(c[k - 1], 1)) ELSE ShiftRight(c[k - 1], 1)
        IN  c[8]]

AllOnes == 0 .. CrcWidth - 1
DO1(c, byte) == Xor(crc_table[Xor(c \cap (0 .. 7), BitsOf(byte))], ShiftRight(c, 8))
Crc32NoComp(c, buf) == FoldLeft(DO1, c, buf)

(* Mutant: the sum is complemented before the data only.                   *)
Crc32OneComplement(c, buf) == Crc32NoComp(Xor(c, AllOnes), buf)

Crc32(c, buf) == Xor(Crc32NoComp(Xor(c, AllOnes), buf), AllOnes)

(* The copy in the first-stage loader, which checks the image header.      *)
BootstrapCrc32(c, buf) == Crc32(c, buf)

-----------------------------------------------------------------------------
(* rtc/date.c.  date.c's leap years are every fourth one.                  *)

SECDAY == 86400
leapyear(year) == year % 4 = 0
days_in_year(year) == IF leapyear(year) THEN 366 ELSE 365
days_in_month(year, mon) ==
    CASE mon = 2 -> IF leapyear(year) THEN 29 ELSE 28
      [] mon \in {4, 6, 9, 11} -> 30
      [] OTHER -> 31

MonthOffset == <<0, 31, 59, 90, 120, 151, 181, 212, 243, 273, 304, 334>>
GregorianDay(year, mon, mday) ==
    LET lastYear == year - 1
        leapsToDate == (lastYear \div 4 - lastYear \div 100) + lastYear \div 400
        past == IF year % 4 = 0 /\ (year % 100 # 0 \/ year % 400 = 0) /\ mon > 2 THEN 1 ELSE 0
    IN  (past + lastYear * 365 + leapsToDate + MonthOffset[mon] + mday) % 7

(* The year and the days left of it, the month and the days left of it.    *)
to_tm(t) ==
    LET hms == t % SECDAY
        left[y \in 1970 .. 2106] == IF y = 1970 THEN t \div SECDAY ELSE left[y - 1] - days_in_year(y - 1)
        year == CHOOSE y \in 1970 .. 2106 : left[y] \in 0 .. days_in_year(y) - 1
        rest[m \in 1 .. 12] == IF m = 1 THEN left[year] ELSE rest[m - 1] - days_in_month(year, m - 1)
        mon == CHOOSE m \in 1 .. 12 : rest[m] \in 0 .. days_in_month(year, m) - 1
    IN  [year |-> year, mon |-> mon, mday |-> rest[mon] + 1, hour |-> hms \div 3600,
         min |-> (hms % 3600) \div 60, sec |-> (hms % 3600) % 60, wday |-> GregorianDay(year, mon, rest[mon] + 1)]

(* February comes last in the year because it has the leap day.            *)
mktime(tm) ==
    LET m == IF tm.mon > 2 THEN tm.mon - 2 ELSE tm.mon + 10
        y == IF tm.mon > 2 THEN tm.year ELSE tm.year - 1
        days == (y \div 4 - y \div 100) + y \div 400 + (367 * m) \div 12 + tm.mday + (y * 365 - 719499)
    IN  ((days * 24 + tm.hour) * 60 + tm.min) * 60 + tm.sec

-----------------------------------------------------------------------------
CountUp == subject = "numbers" /\ num < WordMax /\ num' = num + 1 /\ UNCHANGED <<subject, data, crc, tim>>

(* crc32 is given the data piece by piece, each time the sum so far.       *)
CrcChunk ==
    /\ subject = "sums"
    /\ \E chunk \in CrcChunks :
           /\ Len(data) + Len(chunk) <= MaxData
           /\ data' = data \o chunk /\ crc' = Crc32(crc, chunk)
    /\ UNCHANGED <<subject, num, tim>>

Tick == subject = "dates" /\ tim <= MaxDate - DateStep /\ tim' = tim + DateStep /\ UNCHANGED <<subject, num, data, crc>>

FormatsInit ==
    /\ subject \in {"numbers", "sums", "dates"}
    /\ num = 0 /\ data = <<>> /\ crc = {} /\ tim = 0

FormatsNext == CountUp \/ CrcChunk \/ Tick

-----------------------------------------------------------------------------
(* A number that was printed is read back as itself and to its end, with   *)
(* the base it was printed in, whatever it was padded with on the left by  *)
(* zeros; the width is a minimum, never a limit; sizes are rounded to the  *)
(* nearest tenth (vsprintf.c, display_options.c).                          *)
TextsAreExact ==
    /\ \A f \in Formattings, conversion \in {"x", "X", "u", "o", "d", "i"} :
           LET g == [f EXCEPT !.conversion = conversion]
               text == Vsprintf(<<[plain |-> FALSE, format |-> g, arg |-> num]>>)
               read == Strtol(text, NumberBase(conversion))
               bare == "LEFT" \notin f.flags /\ text[1] # " " /\ text[1] # "+" /\ ~(text[1] = "0" /\ Len(text) > 1 /\ text[2] = "X")
           IN  /\ Len(text) >= f.width
               /\ (bare => read = [value |-> num, used |-> Len(text)])
               /\ (Len(text) > f.width => text[1] # " " \/ "SPACE" \in f.flags)
    /\ LET r == PrintSize(num * 4099)
           error == 10 * (num * 4099 - r.n * r.d) - r.m * r.d
       IN  r.m \in 0 .. 9 /\ 2 * error <= r.d /\ 2 * error >= -r.d

(* The sum does not depend on the pieces the data came in, it is the one   *)
(* the polynomial defines bit by bit, and it changes with every one or two *)
(* bits of the data that do (crc32.c).                                     *)
SumByBits ==
    LET n == 8 * Len(data)
        Bit(i) == BitsOf(data[(i \div 8) + 1]) \cap {i % 8} # {}
        sum[i \in 0 .. n] ==
            IF i = 0 THEN AllOnes
            ELSE LET c == sum[i - 1]
                     out == (0 \in c) # Bit(i - 1)
                 IN  IF out THEN Xor(ShiftRight(c, 1), Poly) ELSE ShiftRight(c, 1)
    IN  Xor(sum[n], AllOnes)

BytesOfBits(S, n) == [b \in 1 .. n |-> MapThenSumSet(LAMBDA i : 2 ^ (i % 8), {i \in S : i \div 8 = b - 1})]
SumsAreExact ==
    /\ crc = SumByBits
    /\ BootstrapCrc32({}, data) = crc
    /\ (Len(data) = 1 =>
            \A i, j \in 0 .. 8 * MaxData - 1 :
                i <= j => Crc32NoComp({}, BytesOfBits({i, j}, MaxData)) # {})

(* A date is turned into its parts and back without a change, on the right *)
(* day of the week (1 January 1970 was a Thursday), up to the last second  *)
(* an int can hold (rtc/date.c).                                           *)
DatesAreExact ==
    LET tm == to_tm(tim)
    IN  /\ mktime(tm) = tim
        /\ tm.wday = ((tim \div SECDAY) + 4) % 7
        /\ tm.mday <= days_in_month(tm.year, tm.mon)
=============================================================================
