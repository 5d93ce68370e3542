------------------------------ MODULE Strings -------------------------------
(***************************************************************************)
(* The string functions: lib_generic/string.c with the MIPS versions of    *)
(* include/asm-mips/string.h that replace some of them, the copy of the    *)
(* same functions in the first-stage loader, and those of tools/updater.   *)
(* They run on a small memory whose last byte stays 0.                     *)
(***************************************************************************)
EXTENDS Integers, Sequences, FiniteSetsExt

CONSTANTS
    Characters,         \* values of a byte, 0 among them
    Cells,              \* addresses 0 .. Cells - 1
    NullPointer

ASSUME StringsAssumption ==
    /\ Characters \subseteq 0 .. 255 /\ 0 \in Characters
    /\ Cells \in Nat \ {0, 1} /\ NullPointer \notin 0 .. Cells

VARIABLES
    cells,              \* the memory
    was,                \* the memory before the call that ran
    call,               \* the call that ran
    strtokAt            \* ___strtok

stringsVars == <<cells, was, call, strtokAt>>

Places == 0 .. Cells - 1
SignedChar(x) == ((x + 128) % 256) - 128
Least(S) == IF S = {} THEN NullPointer ELSE Min(S)
Smaller(a, b) == IF a < b THEN a ELSE b

-----------------------------------------------------------------------------
(* Copying and filling.                                                    *)

(* n bytes one after the other from the lowest on: memcpy, bcopy.          *)
Memcpy(m, d, s, n) ==
    LET up[k \in 0 .. n] == IF k = 0 THEN m ELSE [up[k - 1] EXCEPT ![d + k - 1] = up[k - 1][s + k - 1]]
    IN  up[n]
Bcopy(m, s, d, n) == Memcpy(m, d, s, n)

(* ... and from the highest on.                                            *)
CopyDown(m, d, s, n) ==
    LET down[k \in 0 .. n] == IF k = 0 THEN m ELSE [down[k - 1] EXCEPT ![d + n - k] = down[k - 1][s + n - k]]
    IN  down[n]

(* Mutant: memmove decides for the other direction.                        *)
MemmoveSwapped(m, d, s, n) == IF d <= s THEN CopyDown(m, d, s, n) ELSE Memcpy(m, d, s, n)

Memmove(m, d, s, n) == IF d <= s THEN Memcpy(m, d, s, n) ELSE CopyDown(m, d, s, n)

Memset(m, s, c, n) == [a \in Places |-> IF a \in s .. s + n - 1 THEN c ELSE m[a]]

Strlen(m, s) == Min({n \in 0 .. Cells - 1 - s : m[s + n] = 0})

Strcpy(m, d, s) == Memcpy(m, d, s, Strlen(m, s) + 1)
Strncpy(m, d, s, count) == Memcpy(m, d, s, Smaller(Strlen(m, s) + 1, count))
Strcat(m, d, s) == Strcpy(m, d + Strlen(m, d), s)

(* At most count characters, and then always a 0.                          *)
Strncat(m, d, s, count) ==
    LET n == Smaller(Strlen(m, s), count)
    IN  IF count = 0 THEN m ELSE [Memcpy(m, d + Strlen(m, d), s, n) EXCEPT ![d + Strlen(m, d) + n] = 0]

-----------------------------------------------------------------------------
(* Comparing.  The result of string.c is a signed char.                    *)

FirstUnequal(m, a, b, n) == Least({k \in 0 .. n - 1 : m[a + k] # m[b + k]})
UnsignedDifference(m, a, b, n) ==
    LET k == FirstUnequal(m, a, b, n) IN IF k = NullPointer THEN 0 ELSE m[a + k] - m[b + k]

(* Up to the end of the shorter string and its 0.                          *)
StringSpan(m, a, b) == Smaller(Strlen(m, a), Strlen(m, b)) + 1

Strcmp(m, a, b) == SignedChar(UnsignedDifference(m, a, b, StringSpan(m, a, b)))
Strncmp(m, a, b, count) == SignedChar(UnsignedDifference(m, a, b, Smaller(StringSpan(m, a, b), count)))
Memcmp(m, a, b, n) == UnsignedDifference(m, a, b, n)

-----------------------------------------------------------------------------
(* Searching; NullPointer is nothing found.                                *)

String(m, s) == s .. s + Strlen(m, s) - 1
Strchr(m, s, c) == Least({a \in s .. s + Strlen(m, s) : m[a] = c})
Strrchr(m, s, c) == LET found == {a \in s .. s + Strlen(m, s) : m[a] = c} IN IF found = {} THEN NullPointer ELSE Max(found)
Letters(m, s) == {m[a] : a \in String(m, s)}
Strspn(m, s, accept) == Min({a - s : a \in {b \in String(m, s) : m[b] \notin Letters(m, accept)} \cup {s + Strlen(m, s)}})
Strpbrk(m, s, accept) == Least({a \in String(m, s) : m[a] \in Letters(m, accept)})
Strstr(m, s, t) ==
    Least({a \in s .. s + Strlen(m, s) - Strlen(m, t) : Memcmp(m, a, t, Strlen(m, t)) = 0})

-----------------------------------------------------------------------------
(* include/asm-mips/string.h.  Its loops move a byte before they look at   *)
(* it; strncpy returns the place behind what it wrote, not its start.      *)

AsmStrcpy(m, d, s) ==
    LET at[k \in 0 .. Cells] == IF m[s + k] = 0 THEN k + 1 ELSE at[k + 1]
    IN  Memcpy(m, d, s, at[0])
AsmStrncpy(m, d, s, n) ==
    LET moved[k \in 0 .. n] == IF k = n \/ (k > 0 /\ m[s + k - 1] = 0) THEN k ELSE moved[k + 1]
    IN  Memcpy(m, d, s, moved[0])
AsmStrcmp(m, a, b) ==
    LET differ[k \in 0 .. Cells] ==
            IF m[a + k] # m[b + k] THEN m[a + k] - m[b + k] ELSE IF m[a + k] = 0 THEN 0 ELSE differ[k + 1]
    IN  differ[0]
AsmStrncmp(m, a, b, count) ==
    LET differ[k \in 0 .. count] ==
            IF k = count THEN 0
            ELSE IF m[a + k] # m[b + k] THEN m[a + k] - m[b + k] ELSE IF m[a + k] = 0 THEN 0 ELSE differ[k + 1]
    IN  differ[0]

-----------------------------------------------------------------------------
(* The first-stage loader compiles a copy of string.c, the updater one     *)
(* whose memcmp has a signed char as its result.                           *)

BootstrapMove(fn, m, d, s, n) == IF fn = "memcpy" THEN Memcpy(m, d, s, n) ELSE Memmove(m, d, s, n)
BootstrapStrcat(m, d, s) == Strcat(m, d, s)
BootstrapFill(m, s, c, n) == Memset(m, s, c, n)
BootstrapFind(fn, m, s, t) ==
    CASE fn = "strchr" -> Strchr(m, s, m[t]) [] fn = "strpbrk" -> Strpbrk(m, s, t)
      [] fn = "strspn" -> Strspn(m, s, t) [] fn = "strlen" -> Strlen(m, s)
BootstrapStrstr(m, s, t) == Strstr(m, s, t)
BootstrapMemcmp(m, a, b, n) == Memcmp(m, a, b, n)
UpdaterMemcmp(m, a, b, n) == SignedChar(UnsignedDifference(m, a, b, n))
UpdaterMove(fn, m, d, s, n) ==
    CASE fn = "strncat" -> Strncat(m, d, s, n) [] fn = "bcopy" -> Bcopy(m, s, d, n)
      [] fn = "memmove" -> Memmove(m, d, s, n)

-----------------------------------------------------------------------------
(* Calls, and their ends.  A string is not copied over its own terminator. *)

NoCall == [fn |-> "none", d |-> 0, s |-> 0, n |-> 0]
StringReturns == call # NoCall /\ call' = NoCall /\ was' = cells /\ UNCHANGED <<cells, strtokAt>>

RoomFor(d, n) == d + n <= Cells - 1
Ahead(d, s, n) == d <= s \/ d >= s + n

CallOf(fn, d, s, n, new) ==
    /\ call = NoCall
    /\ call' = [fn |-> fn, d |-> d, s |-> s, n |-> n] /\ was' = cells /\ cells' = new
    /\ UNCHANGED strtokAt

CallMove ==
    /\ call = NoCall
    /\ \E d, s \in Places, n \in 1 .. Cells - 1 :
           /\ RoomFor(d, n) /\ RoomFor(s, n)
           /\ \/ CallOf("memmove", d, s, n, Memmove(cells, d, s, n))
              \/ CallOf("memmove", d, s, n, BootstrapMove("memmove", cells, d, s, n))
              \/ CallOf("memcpy", d, s, n, UpdaterMove("bcopy", cells, d, s, n))

CallSet == \E s \in Places, c \in Characters : RoomFor(s, 1) /\ CallOf("memset", s, c, 1, BootstrapFill(cells, s, c, 1))

CallString ==
    /\ call = NoCall
    /\ \E d, s \in Places, n \in 0 .. 2 :
        LET len == Strlen(cells, s) + 1
            end == d + Strlen(cells, d)
            short == Smaller(len, n)
        IN  \/ RoomFor(d, len) /\ Ahead(d, s, len) /\ n = 0 /\ CallOf("strcpy", d, s, 0, AsmStrcpy(cells, d, s))
            \/ RoomFor(d, short) /\ Ahead(d, s, short) /\ n > 0 /\ CallOf("strncpy", d, s, n, AsmStrncpy(cells, d, s, n))
            \/ /\ RoomFor(end, len) /\ end >= s + len /\ n = 0
               /\ CallOf("strcat", d, s, 0, BootstrapStrcat(cells, d, s))
            \/ RoomFor(end, n + 1) /\ end >= s + len /\ CallOf("strncat", d, s, n, UpdaterMove("strncat", cells, d, s, n))

(* strtok goes on where it stopped when it is given NullPointer.           *)
CallStrtok ==
    /\ call = NoCall
    /\ \E s \in Places \cup {NullPointer}, ct \in Places :
        LET from == IF s = NullPointer THEN strtokAt ELSE s
            begin == from + Strspn(cells, from, ct)
            end == Strpbrk(cells, begin, ct)
        IN  /\ from # NullPointer
            /\ was' = cells
            /\ IF cells[begin] = 0
               THEN strtokAt' = NullPointer /\ cells' = cells /\ call' = [fn |-> "strtok", d |-> NullPointer, s |-> from, n |-> ct]
               ELSE /\ strtokAt' = IF end = NullPointer THEN NullPointer ELSE end + 1
                    /\ cells' = IF end = NullPointer THEN cells ELSE [cells EXCEPT ![end] = 0]
                    /\ call' = [fn |-> "strtok", d |-> begin, s |-> from, n |-> ct]

StringsInit ==
    /\ cells = [a \in Places |-> 0] /\ was = cells
    /\ call = NoCall /\ strtokAt = NullPointer

StringsNext == CallMove \/ CallSet \/ CallString \/ CallStrtok \/ StringReturns

-----------------------------------------------------------------------------
StringAt(m, a) == [i \in 1 .. Strlen(m, a) |-> m[a + i - 1]]
KeptOutside(d, n) == \A a \in Places \ (d .. d + n - 1) : cells[a] = was[a]

(* What a call leaves in memory is what its description promises, and it   *)
(* touches nothing else: a move of overlapping places as well (string.c,   *)
(* asm-mips/string.h).                                                     *)
CopiesAreExact ==
    LET d == call.d
        n == call.n
        source == StringAt(was, call.s)
    IN  CASE call.fn = "memmove" -> KeptOutside(d, n) /\ \A i \in 0 .. n - 1 : cells[d + i] = was[call.s + i]
          [] call.fn = "memcpy" ->
                 KeptOutside(d, n) /\ (Ahead(d, call.s, n) => \A i \in 0 .. n - 1 : cells[d + i] = was[call.s + i])
          [] call.fn = "strcpy" -> StringAt(cells, d) = source /\ KeptOutside(d, Len(source) + 1)
          [] call.fn = "strncpy" ->
                 /\ KeptOutside(d, n)
                 /\ IF Len(source) < n THEN StringAt(cells, d) = source
                    ELSE \A i \in 1 .. n : cells[d + i - 1] = source[i]
          [] call.fn = "strcat" -> StringAt(cells, d) = StringAt(was, d) \o source
          [] call.fn = "strncat" ->
                 StringAt(cells, d) = StringAt(was, d) \o SubSeq(source, 1, Smaller(n, Len(source)))
          [] call.fn = "strtok" /\ d # NullPointer ->
                 /\ \A a \in call.s .. d - 1 : was[a] \in Letters(was, n)
                 /\ Letters(cells, d) \cap Letters(was, n) = {}
                 /\ (strtokAt # NullPointer => strtokAt = d + Strlen(cells, d) + 1)
          [] OTHER -> TRUE

(* Comparisons agree with the order of the strings, those of string.c only *)
(* as long as no two characters are 128 or more apart, and are 0 exactly   *)
(* for equal strings; what the searches find is the first such place       *)
(* (string.c, asm-mips/string.h).                                          *)
Positive(x) == x > 0
ComparesAgree ==
    call = NoCall => \A a, b \in Places :
        LET close == \A x, y \in Characters : x - y < 128
            equal == StringAt(cells, a) = StringAt(cells, b)
        IN  /\ (equal <=> AsmStrcmp(cells, a, b) = 0) /\ (equal <=> Strcmp(cells, a, b) = 0)
            /\ (close => Positive(Strcmp(cells, a, b)) = Positive(AsmStrcmp(cells, a, b)))
            /\ AsmStrcmp(cells, a, b) = -AsmStrcmp(cells, b, a)
            /\ \A n \in 0 .. Cells - 1 - (IF a < b THEN b ELSE a) :
                   /\ (AsmStrncmp(cells, a, b, n) = 0) = (Strncmp(cells, a, b, n) = 0)
                   /\ (UpdaterMemcmp(cells, a, b, n) = 0) = (BootstrapMemcmp(cells, a, b, n) = 0)
                   /\ (n > Strlen(cells, a) => AsmStrncmp(cells, a, b, n) = AsmStrcmp(cells, a, b))
            /\ LET found == BootstrapStrstr(cells, a, b)
               IN  found # NullPointer =>
                       /\ SubSeq(StringAt(cells, found), 1, Strlen(cells, b)) = StringAt(cells, b)
                       /\ \A c \in a .. found - 1 :
                              SubSeq(StringAt(cells, c), 1, Strlen(cells, b)) # StringAt(cells, b)
            /\ LET stop == a + BootstrapFind("strspn", cells, a, b)
                   found == BootstrapFind("strpbrk", cells, a, b)
               IN  /\ cells[stop] # 0 => BootstrapFind("strchr", cells, b, stop) = NullPointer
                   /\ found # NullPointer => BootstrapFind("strchr", cells, b, found) \in b .. Strrchr(cells, b, cells[found])
                   /\ stop <= a + BootstrapFind("strlen", cells, a, b)
=============================================================================
