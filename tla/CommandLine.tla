---------------------------- MODULE CommandLine ----------------------------
(***************************************************************************)
(* A command line from the keys to the words of its commands: readline's   *)
(* editing, and the separators, macros, words and names of run_command.    *)
(***************************************************************************)
EXTENDS Integers, SequencesExt

CONSTANTS
    Chars,              \* what can be typed, besides the editing keys
    CBSIZE, MAXARGS,    \* CFG_CBSIZE, CFG_MAXARGS
    Plen,               \* length of the prompt
    TabWidth,           \* 8
    Value(_),           \* getenv, <<>> when the variable is not defined
    Commands            \* the names of the command table

VARIABLES line, col, entered

lineVars == <<line, col, entered>>

Blank == {" ", "tab"}

TabWidthAt(c) == TabWidth - (c % TabWidth)

(* Mutant: the cursor goes back by one for a tab as well.                  *)
DeletedPlain(ed) ==
    IF ed.line = <<>> THEN ed ELSE [line |-> Front(ed.line), col |-> ed.col - 1]

(* delete_char: after a tab the rest of the line is typed again.           *)
Deleted(ed) ==
    IF ed.line = <<>> THEN ed
    ELSE [line |-> Front(ed.line),
          col |-> IF Last(ed.line) # "tab" THEN ed.col - 1
                  ELSE FoldLeft(LAMBDA c, x : IF x = "tab" THEN c + TabWidthAt(c) ELSE c + 1, Plen, Front(ed.line))]

RECURSIVE WordDeleted(_, _)
WordDeleted(ed, last) ==
    IF ed.line = <<>> \/ last = " " THEN ed ELSE WordDeleted(Deleted(ed), Last(ed.line))

Edit == [line |-> line, col |-> col]
Becomes(ed) == line' = ed.line /\ col' = ed.col /\ UNCHANGED entered

TypeChar ==
    \E c \in Chars :
        /\ ~entered /\ Len(line) < CBSIZE - 2
        /\ Becomes([line |-> Append(line, c), col |-> col + IF c = "tab" THEN TabWidthAt(col) ELSE 1])

Backspace == ~entered /\ Becomes(Deleted(Edit))

EraseWord ==
    /\ ~entered /\ line # <<>>
    /\ Becomes(WordDeleted(Deleted(Edit), Last(line)))

EraseLine == ~entered /\ Becomes([line |-> <<>>, col |-> Plen])

Enter == ~entered /\ entered' = TRUE /\ UNCHANGED <<line, col>>

(* The prompt again, after the commands or after Ctrl-C.                   *)
Prompt == line' = <<>> /\ col' = Plen /\ entered' = FALSE

-----------------------------------------------------------------------------
(* run_command's separators: those outside quotes, not escaped, and not    *)
(* the first character. What is before the buffer is not a backslash.      *)
Escaped(s, i) == i > 1 /\ s[i - 1] = "\\"

InQuotes(s, from, i) == Cardinality({j \in from .. i : s[j] = "'" /\ ~(j > from /\ Escaped(s, j))}) % 2 = 1

Separators(s, from) ==
    {i \in from + 1 .. Len(s) : s[i] = ";" /\ ~Escaped(s, i) /\ ~InQuotes(s, from, i)}

RECURSIVE Split(_, _)
Split(s, from) ==
    IF from > Len(s) THEN <<>>
    ELSE LET seps == Separators(s, from) IN
         IF seps = {} THEN <<SubSeq(s, from, Len(s))>>
         ELSE <<SubSeq(s, from, Min(seps) - 1)>> \o Split(s, Min(seps) + 1)

(* process_macros: 0 waits for $ or a quote, 1 for a parenthesis, 2 for    *)
(* the closing one, 3 for the end of the quote; from is where the name     *)
(* begins. The output has CBSIZE characters and then no NUL.               *)
Room(out) == CBSIZE - Len(out)
Put(out, x) == out \o SubSeq(x, 1, IF Len(x) < Room(out) THEN Len(x) ELSE Room(out))

(* In quotes, everything but the closing quote is kept.                    *)
Literal(st, c, prev) == st = 3 /\ ~(c = "'" /\ prev # "\\")

RECURSIVE Macros(_, _, _, _, _, _)
Macros(s, i, st, prev, from, out) ==
    IF i > Len(s) \/ Room(out) = 0 THEN out
    ELSE IF st # 3 /\ s[i] = "\\" /\ prev # "\\" /\ i = Len(s) THEN out
    ELSE LET escape == st # 3 /\ s[i] = "\\" /\ prev # "\\"
             at == IF escape THEN i + 1 ELSE i
             c == s[at]
             before == IF escape THEN "\\" ELSE prev
             Next_(newst, newfrom, newout) == Macros(s, at + 1, newst, c, newfrom, newout)
         IN  CASE Literal(st, c, before) -> Next_(3, from, Put(out, <<c>>))
               [] st = 3 /\ ~Literal(st, c, before) -> Next_(0, from, out)
               [] st = 0 /\ c = "'" /\ before # "\\" -> Next_(3, from, out)
               [] st = 0 /\ c = "$" /\ before # "\\" -> Next_(1, from, out)
               [] st = 1 /\ c = "(" -> Next_(2, at + 1, out)
               [] st = 1 /\ c # "(" -> Next_(0, from, Put(out, <<"$", c>>))
               [] st = 2 /\ c = ")" -> Next_(0, from, Put(out, Value(SubSeq(s, from, at - 1))))
               [] st = 2 /\ c # ")" -> Next_(2, from, out)
               [] OTHER -> Next_(0, from, Put(out, <<c>>))

process_macros(s) == Macros(s, 1, 0, "NUL", 1, <<>>)

(* parse_line: at most MAXARGS words.                                      *)
AfterWord(e) == e + 1

RECURSIVE Words(_, _)
Words(s, nargs) ==
    LET starts == {i \in DOMAIN s : s[i] \notin Blank} IN
    IF nargs = MAXARGS \/ starts = {} THEN <<>>
    ELSE LET b == Min(starts)
             ends == {i \in b .. Len(s) : s[i] \in Blank}
             e == IF ends = {} THEN Len(s) + 1 ELSE Min(ends)
         IN  <<SubSeq(s, b, e - 1)>> \o Words(SubSeq(s, AfterWord(e), Len(s)), nargs + 1)

parse_line(s) == Words(s, 0)

(* find_cmd: a full match up to the first dot, or the only abbreviation.   *)
Abbreviation(S) == IF Cardinality(S) = 1 THEN CHOOSE n \in S : TRUE ELSE <<>>

BeforeDot(w) == IF Contains(w, ".") THEN SubSeq(w, 1, SelectInSeq(w, LAMBDA c : c = ".") - 1) ELSE w

find_cmd(w) ==
    IF BeforeDot(w) \in Commands THEN BeforeDot(w)
    ELSE Abbreviation({n \in Commands : IsPrefix(BeforeDot(w), n)})

-----------------------------------------------------------------------------
LineInit == line = <<>> /\ col = Plen /\ entered = FALSE

LineNext == TypeChar \/ Backspace \/ EraseWord \/ EraseLine \/ Enter \/ Prompt

LineSpec == LineInit /\ [][LineNext]_lineVars

(* The column readline believes in is where the echo of the line ends, so  *)
(* that erasing removes what is shown and never the prompt.                *)
ColumnIsShown ==
    /\ Len(line) <= CBSIZE - 2
    /\ col = FoldLeft(LAMBDA c, x : IF x = "tab" THEN c + TabWidthAt(c) ELSE c + 1, Plen, line)

(* The commands of a line, put together again, are the line; a separator   *)
(* between quotes stays.                                                   *)
SplitLosesNothing ==
    entered =>
        LET all == FoldLeft(LAMBDA s, t : IF s = <<>> THEN t ELSE s \o <<";">> \o t, <<>>, Split(line, 1)) IN
        /\ all = line \/ all \o <<";">> = line
        /\ (Len(line) > 1 /\ line[1] = "'" /\ line[Len(line)] = "'" /\ \A i \in 2 .. Len(line) - 1 : line[i] # "'") =>
               Split(line, 1) = <<line>>

(* Quoted text is kept as it is, a macro is replaced once by its value,    *)
(* and what has no special character is unchanged.                         *)
MacrosAreExact ==
    entered =>
        LET inner == SubSeq(line, 2, Len(line) - 1) IN
        /\ (\A i \in DOMAIN line : line[i] \notin {"'", "$", "\\"}) => process_macros(line) = line
        /\ (Len(line) > 1 /\ line[1] = "'" /\ Last(line) = "'" /\ ~Contains(inner, "'") /\ ~Contains(inner, "\\")) =>
               process_macros(line) = inner
        /\ (Len(line) > 3 /\ SubSeq(line, 1, 2) = <<"$", "(">> /\ Last(line) = ")" /\ \A i \in 3 .. Len(line) - 1 : line[i] \notin {")", "\\"}) =>
               process_macros(line) = Put(<<>>, Value(SubSeq(line, 3, Len(line) - 1)))

(* The words are the text without its blanks.                              *)
WordsAreExact ==
    entered =>
        LET words == parse_line(line) IN
        /\ \A i \in DOMAIN words : words[i] # <<>> /\ \A j \in DOMAIN words[i] : words[i][j] \notin Blank
        /\ Len(words) < MAXARGS => FoldLeft(LAMBDA s, w : s \o w, <<>>, words) = SelectSeq(line, LAMBDA c : c \notin Blank)

(* A word calls the command of that name, or the only one it abbreviates.  *)
NamesAreUnique ==
    entered =>
        LET found == find_cmd(line) IN
        found # <<>> => \A n \in Commands : IsPrefix(BeforeDot(line), n) => n = found \/ BeforeDot(line) = found

(* From the keys to the words of a command: each step of the way.          *)
LineIsExact == ColumnIsShown /\ SplitLosesNothing /\ MacrosAreExact /\ WordsAreExact /\ NamesAreUnique
=============================================================================
