---------------------------- MODULE ShellProofs ----------------------------
(***************************************************************************)
(* Command lines at the prompt, for every set of commands and variables    *)
(* and every depth of calls.                                               *)
(***************************************************************************)
EXTENDS Shell, FiniteSetTheorems, SequenceTheorems, TLAPS

Kinds == {"run_command", "do_run", "do_bootd"}

Frames == [kind : Kinds, todo : Seq(CommandSet) \cup Seq(Scripts), flag : BOOLEAN,
           rc : {-1, 0}, repeatable : {0, 1}]

Phases == {"button", "httpd", "netconsole", "autoboot", "booting", "httpd_after_boot", "prompt", "running"}

ShellTypes ==
    /\ phase \in Phases /\ ret \in {-1, 0, 1, None} /\ bootdelay \in Int
    /\ stack \in Seq(Frames) /\ lastcommand \in Seq(CommandSet)
    /\ script \in [Scripts -> {NoLine} \cup Seq(CommandSet)]
    /\ ctrlc \in BOOLEAN /\ interrupted \in BOOLEAN /\ forgotten \in BOOLEAN /\ earned \in BOOLEAN

(* run_command calls do_run or do_bootd, which call run_command.           *)
Alternate(s) ==
    /\ s # <<>> => s[1].kind = "run_command"
    /\ \A i \in 1 .. Len(s) : i + 1 \in 1 .. Len(s) =>
           (s[i].kind = "run_command" <=> s[i + 1].kind # "run_command")

(* What the frames still have to do is of their kind.                      *)
TodoFits(s) ==
    \A i \in 1 .. Len(s) : /\ s[i].kind = "run_command" => s[i].todo \in Seq(CommandSet)
                           /\ s[i].kind = "do_run" => s[i].todo \in Seq(Scripts)

(* From a bootd inwards every call carries the flag.                       *)
FlagPassed(s) ==
    \A i, j \in 1 .. Len(s) : s[i].kind = "do_bootd" /\ i <= j => s[j].flag

OneBootd(s) ==
    \A i, j \in 1 .. Len(s) : s[i].kind = "do_bootd" /\ s[j].kind = "do_bootd" => i = j

(* A command that called something is still the next one to do.            *)
InProgress(s) ==
    \A i \in 1 .. Len(s) : i + 1 \in 1 .. Len(s) /\ s[i].kind = "run_command" => s[i].todo # <<>>

StackOK(s) == Alternate(s) /\ TodoFits(s) /\ FlagPassed(s) /\ OneBootd(s) /\ InProgress(s)

(* A frame that makes the line fail, or not repeatable, when it ends.      *)
Failing(s, i) == s[i].kind = "run_command" /\ (s[i].rc = -1 \/ (i = 1 /\ s[i].repeatable = 0))
SomeFailing(s) == \E i \in 1 .. Len(s) : Failing(s, i)

(* The line will not be remembered.                                        *)
Doomed ==
    IF stack = <<>> THEN ret # 1
    ELSE ctrlc \/ ret = -1 \/ (ret = 1 /\ Top.kind = "run_command") \/ SomeFailing(stack)

(* Commands run only in the phases that call them, and whenever one of     *)
(* them is about to start, no key is waiting.                              *)
CallsFit ==
    /\ stack # <<>> => phase \in {"netconsole", "booting", "running"}
    /\ phase \in {"netconsole", "booting", "running"} /\ stack = <<>> => ret # None
    /\ ret = None /\ stack # <<>> => ~ctrlc
    /\ ret # None /\ stack # <<>> /\ Top.kind = "run_command" => Top.todo # <<>>
    /\ interrupted /\ ~forgotten => ctrlc \/ stack = <<>>
    /\ phase \in {"button", "httpd"} => ~interrupted
    /\ phase = "netconsole" => bootdelay < 0
    /\ phase = "autoboot" => bootdelay < 0 \/ ~interrupted

(* What main_loop remembers, or is about to.                               *)
LineJudged ==
    /\ phase \notin {"prompt", "running"} => lastcommand = <<>>
    /\ phase = "running" /\ ~earned /\ ~forgotten => Doomed
    /\ phase = "prompt" /\ lastcommand # <<>> => earned \/ forgotten

ShellInv == ShellTypes /\ StackOK(stack) /\ CallsFit /\ LineJudged

-----------------------------------------------------------------------------
(* What a stack is after a call, a return or a change of its top.          *)
LEMMA FrontOf ==
    ASSUME NEW S, NEW s \in Seq(S), s # <<>>
    PROVE  /\ Front(s) \in Seq(S) /\ Len(Front(s)) = Len(s) - 1
           /\ \A i \in 1 .. Len(s) - 1 : Front(s)[i] = s[i]
           /\ Len(s) \in Nat \ {0} /\ Last(s) = s[Len(s)] /\ Last(s) \in S
<1>1. Len(s) \in Nat \ {0} /\ Len(s) \in 1 .. Len(s)
    OBVIOUS
<1>2. Last(s) = s[Len(s)] /\ Last(s) \in S
    BY <1>1 DEF Last
<1>3. Front(s) \in Seq(S) /\ Len(Front(s)) = Len(s) - 1
    <2>1. \A i \in 1 .. Len(s) - 1 : s[i] \in S
        BY <1>1
    <2>2. /\ SubSeq(s, 1, Len(s) - 1) \in Seq(S)
          /\ Len(SubSeq(s, 1, Len(s) - 1)) = IF 1 <= Len(s) - 1 THEN (Len(s) - 1) - 1 + 1 ELSE 0
        BY <1>1, <2>1, SubSeqProperties
    <2>3. \A n \in Nat \ {0} : (IF 1 <= n - 1 THEN (n - 1) - 1 + 1 ELSE 0) = n - 1
        OBVIOUS
    <2>4. Front(s) = SubSeq(s, 1, Len(s) - 1)
        BY DEF Front
    <2> QED
        BY <1>1, <2>2, <2>3, <2>4
<1>4. \A i \in 1 .. Len(s) - 1 : Front(s)[i] = s[i]
    BY <1>1 DEF Front
<1> QED
    BY <1>1, <1>2, <1>3, <1>4

LEMMA AppendOf ==
    ASSUME NEW S, NEW s \in Seq(S), NEW f \in S
    PROVE  /\ Append(s, f) \in Seq(S) /\ Len(Append(s, f)) = Len(s) + 1
           /\ \A i \in 1 .. Len(s) : Append(s, f)[i] = s[i]
           /\ Append(s, f)[Len(s) + 1] = f /\ Append(s, f) # <<>>
           /\ Len(s) \in Nat /\ Last(Append(s, f)) = f
BY DEF Last

LEMMA ReplacedOf ==
    ASSUME NEW S, NEW s \in Seq(S), s # <<>>, NEW f \in S
    PROVE  /\ Append(Front(s), f) \in Seq(S) /\ Len(Append(Front(s), f)) = Len(s)
           /\ \A i \in 1 .. Len(s) - 1 : Append(Front(s), f)[i] = s[i]
           /\ Append(Front(s), f)[Len(s)] = f /\ Append(Front(s), f) # <<>>
           /\ Last(Append(Front(s), f)) = f
<1>1. Len(s) \in Nat \ {0}
    OBVIOUS
<1>2. Front(s) \in Seq(S) /\ Len(Front(s)) = Len(s) - 1
    BY FrontOf
<1>3. /\ Append(Front(s), f) \in Seq(S) /\ Len(Append(Front(s), f)) = (Len(s) - 1) + 1
      /\ \A i \in 1 .. Len(s) - 1 : Append(Front(s), f)[i] = Front(s)[i]
      /\ Append(Front(s), f)[(Len(s) - 1) + 1] = f /\ Append(Front(s), f) # <<>>
      /\ Last(Append(Front(s), f)) = f
    BY <1>2, AppendOf
<1>4. (Len(s) - 1) + 1 = Len(s)
    BY <1>1
<1> QED
    BY <1>3, <1>4, FrontOf

(* A return keeps the order of the calls.                                  *)
LEMMA StackFront ==
    ASSUME NEW s \in Seq(Frames), s # <<>>, StackOK(s)
    PROVE  StackOK(Front(s))
<1> DEFINE r == Front(s)
<1>1. /\ Len(r) = Len(s) - 1 /\ \A i \in 1 .. Len(r) : r[i] = s[i]
      /\ Len(s) \in Nat \ {0} /\ 1 .. Len(r) \subseteq 1 .. Len(s) /\ Len(r) \in Nat
    BY FrontOf
<1>2. Alternate(r)
    <2>1. r # <<>> => Len(r) >= 1
        BY FrontOf
    <2> HIDE DEF r
    <2> QED
        BY <1>1, <2>1 DEF StackOK, Alternate
<1> HIDE DEF r
<1>3. TodoFits(r) /\ FlagPassed(r) /\ OneBootd(r)
    BY <1>1 DEF StackOK, TodoFits, FlagPassed, OneBootd
<1>4. InProgress(r)
    BY <1>1 DEF StackOK, InProgress
<1> QED
    BY <1>2, <1>3, <1>4 DEF StackOK, r

(* The frame below the top.                                                *)
LEMMA CallerOf ==
    ASSUME NEW s \in Seq(Frames), s # <<>>, StackOK(s)
    PROVE  /\ Last(s).kind # "run_command" =>
                  /\ Front(s) # <<>> /\ Last(Front(s)).kind = "run_command" /\ Last(Front(s)).todo # <<>>
           /\ Last(s).kind = "run_command" /\ Front(s) # <<>> => Last(Front(s)).kind # "run_command"
<1> DEFINE n == Len(s)
           r == Front(s)
<1>1. n \in Nat \ {0} /\ Last(s) = s[n] /\ r \in Seq(Frames) /\ Len(r) = n - 1
      /\ \A i \in 1 .. n - 1 : r[i] = s[i]
    BY FrontOf
<1>2. r # <<>> => Last(r) = r[n - 1] /\ n - 1 \in Nat \ {0}
    BY <1>1 DEF Last
<1>3. n # 1 => r # <<>>
    BY <1>1
<1> HIDE DEF n, r
<1>4. n = 1 => Last(s).kind = "run_command"
    BY <1>1 DEF StackOK, Alternate
<1>5. ASSUME r # <<>>
      PROVE  Last(r) = s[n - 1] /\ n - 1 \in 1 .. n /\ (n - 1) + 1 \in 1 .. n /\ (n - 1) + 1 = n
    BY <1>5, <1>1, <1>2
<1>6. r # <<>> => (Last(r).kind = "run_command" <=> Last(s).kind # "run_command")
    BY <1>1, <1>5 DEF StackOK, Alternate, n
<1>7. r # <<>> /\ Last(r).kind = "run_command" => Last(r).todo # <<>>
    BY <1>1, <1>5 DEF StackOK, InProgress, n
<1> QED
    BY <1>1, <1>3, <1>4, <1>6, <1>7 DEF r

(* A frame fits its kind.                                                  *)
FrameFits(f) ==
    /\ f.kind = "run_command" => f.todo \in Seq(CommandSet)
    /\ f.kind = "do_run" => f.todo \in Seq(Scripts)

LEMMA TopFits ==
    ASSUME NEW s \in Seq(Frames), s # <<>>, StackOK(s)
    PROVE  Last(s) \in Frames /\ FrameFits(Last(s))
<1>1. Len(s) \in Nat \ {0} /\ Last(s) = s[Len(s)] /\ Last(s) \in Frames
    BY FrontOf
<1>2. Len(s) \in 1 .. Len(s)
    BY <1>1
<1> QED
    BY <1>1, <1>2 DEF StackOK, TodoFits, FrameFits

LEMMA CountedFits ==
    ASSUME NEW f \in Frames, f.todo \in Seq(CommandSet), f.todo # <<>>
    PROVE  /\ Counted(f) \in Frames /\ Counted(f).todo \in Seq(CommandSet)
           /\ Counted(f).kind = f.kind /\ Counted(f).flag = f.flag
           /\ Counted(f).rc = f.rc /\ Counted(f).repeatable = f.repeatable
<1>1. Tail(f.todo) \in Seq(CommandSet)
    OBVIOUS
<1> QED
    BY <1>1 DEF Counted, Frames

(* So does a change of the top that keeps its kind and its flag.           *)
LEMMA StackReplaced ==
    ASSUME NEW s \in Seq(Frames), s # <<>>, StackOK(s), NEW f \in Frames,
           f.kind = Last(s).kind, Last(s).flag => f.flag, FrameFits(f)
    PROVE  StackOK(Append(Front(s), f))
<1> DEFINE r == Append(Front(s), f)
           n == Len(s)
<1>1. /\ Len(r) = n /\ r # <<>> /\ n \in Nat \ {0}
      /\ \A i \in 1 .. n - 1 : r[i] = s[i]
      /\ r[n] = f /\ Last(s) = s[n]
    <2>1. n \in Nat \ {0} /\ Last(s) = s[n]
        BY FrontOf
    <2>2. /\ Len(r) = n /\ r # <<>> /\ r[n] = f
          /\ \A i \in 1 .. n - 1 : r[i] = s[i]
        BY ReplacedOf
    <2> QED
        BY <2>1, <2>2
<1>2. \A i \in 1 .. n : i # n => i \in 1 .. n - 1
    BY <1>1
<1> HIDE DEF r, n
<1>3. \A i \in 1 .. n : r[i].kind = s[i].kind /\ (s[i].flag => r[i].flag)
    BY <1>1, <1>2
<1>4. Alternate(r)
    BY <1>1, <1>3 DEF StackOK, Alternate, n
<1>5. TodoFits(r)
    BY <1>1, <1>2 DEF StackOK, TodoFits, FrameFits, n
<1>6. FlagPassed(r) /\ OneBootd(r)
    BY <1>1, <1>3 DEF StackOK, FlagPassed, OneBootd, n
<1>7. InProgress(r)
    <2>1. \A i \in 1 .. n : i + 1 \in 1 .. n => i \in 1 .. n - 1
        BY <1>1
    <2> QED
        BY <2>1, <1>1 DEF StackOK, InProgress, n
<1> QED
    BY <1>4, <1>5, <1>6, <1>7 DEF StackOK, r

(* And a call of a function that the top may call.                         *)
LEMMA StackAppend ==
    ASSUME NEW s \in Seq(Frames), StackOK(s), NEW f \in Frames, FrameFits(f),
           s = <<>> => f.kind = "run_command",
           s # <<>> => (Last(s).kind = "run_command" <=> f.kind # "run_command") /\ (Last(s).flag => f.flag),
           s # <<>> /\ Last(s).kind = "run_command" => Last(s).todo # <<>>,
           f.kind = "do_bootd" => f.flag /\ \A i \in 1 .. Len(s) : s[i].kind # "do_bootd"
    PROVE  StackOK(Append(s, f))
<1> DEFINE r == Append(s, f)
           n == Len(s)
<1>1. /\ Len(r) = n + 1 /\ r # <<>> /\ n \in Nat
      /\ \A i \in 1 .. n : r[i] = s[i]
      /\ r[n + 1] = f
    BY AppendOf
<1>2. \A i \in 1 .. n + 1 : i # n + 1 => i \in 1 .. n
    BY <1>1
<1>3. n = 0 <=> s = <<>>
    OBVIOUS
<1>4. n # 0 => Last(s) = s[n] /\ n \in 1 .. n
    BY <1>1 DEF Last
<1> HIDE DEF r, n
<1>5. Alternate(r)
    <2>1. r[1].kind = "run_command"
        BY <1>1, <1>3, <1>2 DEF StackOK, Alternate, n
    <2>2. ASSUME NEW i \in 1 .. n + 1, i + 1 \in 1 .. n + 1
          PROVE  r[i].kind = "run_command" <=> r[i + 1].kind # "run_command"
        <3>1. CASE i = n
            BY <3>1, <1>1, <1>3, <1>4
        <3>2. CASE i # n
            <4>1. i \in 1 .. n /\ i + 1 \in 1 .. n
                BY <3>2, <2>2, <1>1
            <4> QED
                BY <4>1, <1>1 DEF StackOK, Alternate, n
        <3> QED
            BY <3>1, <3>2
    <2> QED
        BY <2>1, <2>2, <1>1 DEF Alternate
<1>6. TodoFits(r)
    BY <1>1, <1>2 DEF StackOK, TodoFits, FrameFits, n
<1>7. FlagPassed(r)
    <2>1. ASSUME NEW i \in 1 .. n + 1, NEW j \in 1 .. n + 1, r[i].kind = "do_bootd", i <= j
          PROVE  r[j].flag
        <3>1. CASE j = n + 1
            <4>1. CASE i = n + 1
                BY <4>1, <3>1, <2>1, <1>1
            <4>2. CASE i # n + 1
                <5>1. i \in 1 .. n /\ i <= n /\ n # 0
                    BY <4>2, <1>1
                <5>2. s[i].kind = "do_bootd"
                    BY <5>1, <2>1, <1>1
                <5>3. s[n].flag
                    BY <5>1, <5>2, <1>4 DEF StackOK, FlagPassed, n
                <5> QED
                    BY <5>1, <5>3, <3>1, <1>1, <1>3, <1>4
            <4> QED
                BY <4>1, <4>2
        <3>2. CASE j # n + 1
            <4>1. i \in 1 .. n /\ j \in 1 .. n
                BY <3>2, <2>1, <1>1
            <4> QED
                BY <4>1, <2>1, <1>1 DEF StackOK, FlagPassed, n
        <3> QED
            BY <3>1, <3>2
    <2> QED
        BY <2>1, <1>1 DEF FlagPassed
<1>8. OneBootd(r)
    BY <1>1, <1>2 DEF StackOK, OneBootd, n
<1>9. InProgress(r)
    <2>1. ASSUME NEW i \in 1 .. n + 1, i + 1 \in 1 .. n + 1, r[i].kind = "run_command"
          PROVE  r[i].todo # <<>>
        <3>1. i \in 1 .. n /\ r[i] = s[i]
            BY <2>1, <1>1
        <3>2. CASE i = n
            BY <3>1, <3>2, <2>1, <1>1, <1>3, <1>4
        <3>3. CASE i # n
            <4>1. i + 1 \in 1 .. n
                BY <3>1, <3>3, <1>1
            <4> QED
                BY <4>1, <3>1, <2>1 DEF StackOK, InProgress, n
        <3> QED
            BY <3>2, <3>3
    <2> QED
        BY <2>1, <1>1 DEF InProgress
<1> QED
    BY <1>5, <1>6, <1>7, <1>8, <1>9 DEF StackOK, r

-----------------------------------------------------------------------------
(* A frame that fails goes on failing under calls and returns.             *)
LEMMA FailingFront ==
    ASSUME NEW s \in Seq(Frames), s # <<>>, SomeFailing(s), ~Failing(s, Len(s))
    PROVE  SomeFailing(Front(s))
<1>1. PICK i \in 1 .. Len(s) : Failing(s, i)
    BY DEF SomeFailing
<1>2. /\ Len(s) \in Nat \ {0} /\ Len(Front(s)) = Len(s) - 1
      /\ \A k \in 1 .. Len(s) - 1 : Front(s)[k] = s[k]
    BY FrontOf
<1>3. i \in 1 .. Len(s) - 1
    BY <1>1, <1>2
<1> QED
    BY <1>1, <1>2, <1>3 DEF SomeFailing, Failing

LEMMA FailingReplaced ==
    ASSUME NEW s \in Seq(Frames), s # <<>>, NEW f \in Frames, f.kind = Last(s).kind,
           Last(s).rc = -1 => f.rc = -1, Last(s).repeatable = 0 => f.repeatable = 0, SomeFailing(s)
    PROVE  SomeFailing(Append(Front(s), f))
<1> DEFINE r == Append(Front(s), f)
<1>1. PICK i \in 1 .. Len(s) : Failing(s, i)
    BY DEF SomeFailing
<1>2. Len(s) \in Nat \ {0} /\ Last(s) = s[Len(s)]
    BY FrontOf
<1>3. Len(r) = Len(s) /\ r[Len(s)] = f /\ \A k \in 1 .. Len(s) - 1 : r[k] = s[k]
    BY ReplacedOf
<1> HIDE DEF r
<1>4. Failing(r, i)
    <2>1. CASE i = Len(s)
        BY <2>1, <1>1, <1>2, <1>3 DEF Failing
    <2>2. CASE i # Len(s)
        <3>1. i \in 1 .. Len(s) - 1
            BY <2>2, <1>2
        <3> QED
            BY <3>1, <1>1, <1>3 DEF Failing
    <2> QED
        BY <2>1, <2>2
<1> QED
    BY <1>3, <1>4 DEF SomeFailing, r

LEMMA FailingTop ==
    ASSUME NEW s \in Seq(Frames), s # <<>>, NEW f \in Frames, f.kind = "run_command",
           f.rc = -1 \/ (Len(s) = 1 /\ f.repeatable = 0)
    PROVE  SomeFailing(Append(Front(s), f))
<1> DEFINE r == Append(Front(s), f)
<1>1. Len(s) \in Nat \ {0}
    BY FrontOf
<1>2. Len(r) = Len(s) /\ r[Len(s)] = f
    BY ReplacedOf
<1> HIDE DEF r
<1>3. Failing(r, Len(s)) /\ Len(s) \in 1 .. Len(r)
    BY <1>1, <1>2 DEF Failing
<1> QED
    BY <1>3 DEF SomeFailing, r

LEMMA FailingAppend ==
    ASSUME NEW s \in Seq(Frames), NEW f \in Frames, SomeFailing(s)
    PROVE  SomeFailing(Append(s, f))
<1>1. PICK i \in 1 .. Len(s) : Failing(s, i)
    BY DEF SomeFailing
<1>2. /\ Len(s) \in Nat /\ Len(Append(s, f)) = Len(s) + 1
      /\ \A k \in 1 .. Len(s) : Append(s, f)[k] = s[k]
    BY AppendOf
<1> QED
    BY <1>1, <1>2 DEF SomeFailing, Failing

(* A call of run_command, whether it takes the line or refuses it.         *)
LEMMA CallKeeps ==
    ASSUME NEW below \in Seq(Frames), StackOK(below),
           below # <<>> => Last(below).kind # "run_command",
           NEW commands \in {NoLine} \cup Seq(CommandSet),
           NEW flag \in BOOLEAN, below # <<>> /\ Last(below).flag => flag,
           CallRunCommand(below, commands, flag)
    PROVE  /\ stack' \in Seq(Frames) /\ StackOK(stack') /\ ctrlc' = FALSE
           /\ (stack' = below /\ ret' = -1) \/ (stack' # <<>> /\ ret' = None)
           /\ SomeFailing(below) => SomeFailing(stack')
<1>1. CASE commands = <<>> \/ commands = NoLine \/ Len(commands) > MaxCommands
    BY <1>1 DEF CallRunCommand
<1>2. CASE ~(commands = <<>> \/ commands = NoLine \/ Len(commands) > MaxCommands)
    <2> DEFINE f == CallFrame("run_command", commands, flag)
    <2>1. f \in Frames /\ FrameFits(f) /\ f.kind = "run_command" /\ f.flag = flag
        BY <1>2 DEF CallFrame, Frames, Kinds, FrameFits
    <2>2. stack' = Append(below, f) /\ ret' = None /\ ctrlc' = FALSE
        BY <1>2 DEF CallRunCommand
    <2> HIDE DEF f
    <2>3. StackOK(Append(below, f))
        BY <2>1, StackAppend
    <2>4. Append(below, f) \in Seq(Frames) /\ Append(below, f) # <<>>
        BY <2>1, AppendOf
    <2>5. SomeFailing(below) => SomeFailing(Append(below, f))
        BY <2>1, FailingAppend
    <2> QED
        BY <2>2, <2>3, <2>4, <2>5
<1> QED
    BY <1>1, <1>2

-----------------------------------------------------------------------------
(* main_loop, whose steps find no call in progress.                        *)
EmptyStackOK == StackOK(<<>>) /\ <<>> \in Seq(Frames)

LEMMA EmptyStack == EmptyStackOK
BY DEF EmptyStackOK, StackOK, Alternate, TodoFits, FlagPassed, OneBootd, InProgress

LEMMA CallFromLoop ==
    ASSUME NEW commands \in {NoLine} \cup Seq(CommandSet), CallRunCommand(<<>>, commands, FALSE)
    PROVE  /\ stack' \in Seq(Frames) /\ StackOK(stack') /\ ctrlc' = FALSE /\ ret' \in {-1, None}
           /\ IF stack' = <<>> THEN ret' = -1 ELSE ret' = None
BY EmptyStack, CallKeeps DEF EmptyStackOK

LEMMA ButtonKeeps == ShellInv /\ (ButtonSecond \/ ButtonDecides \/ HttpdReturns) => ShellInv'
<1> SUFFICES ASSUME ShellInv, ButtonSecond \/ ButtonDecides \/ HttpdReturns PROVE ShellInv'
    OBVIOUS
<1> USE DEF ShellInv
<1>1. CASE ButtonSecond
    BY <1>1 DEF ButtonSecond, ShellTypes, CallsFit, LineJudged, Doomed
<1>2. CASE ButtonDecides
    <2>1. CASE Pressed(counter) = "netconsole"
        <3> DEFINE nc == <<[op |-> "run", args |-> <<"nc">>]>>
        <3>1. nc \in Seq(CommandSet)
            BY ShellAssumption
        <3> HIDE DEF nc
        <3>2. phase' = "netconsole" /\ bootdelay' = -1 /\ CallRunCommand(<<>>, nc, FALSE)
            BY <1>2, <2>1 DEF ButtonDecides, nc
        <3>3. /\ stack' \in Seq(Frames) /\ StackOK(stack') /\ ctrlc' = FALSE /\ ret' \in {-1, None}
              /\ IF stack' = <<>> THEN ret' = -1 ELSE ret' = None
            BY <3>1, <3>2, CallFromLoop
        <3>4. ShellTypes'
            <4>1. UNCHANGED <<script, lastcommand, interrupted, forgotten, earned>>
                BY <1>2 DEF ButtonDecides
            <4>2. bootdelay' \in Int /\ phase' \in Phases
                BY <3>2 DEF Phases
            <4>3. /\ script' \in [Scripts -> {NoLine} \cup Seq(CommandSet)]
                  /\ lastcommand' \in Seq(CommandSet)
                BY <4>1 DEF ShellTypes
            <4>4. interrupted' \in BOOLEAN /\ forgotten' \in BOOLEAN /\ earned' \in BOOLEAN /\ ctrlc' \in BOOLEAN
                BY <4>1, <3>3 DEF ShellTypes
            <4>5. stack' \in Seq(Frames) /\ ret' \in {-1, 0, 1, None}
                BY <3>3
            <4> QED
                BY <4>2, <4>3, <4>4, <4>5 DEF ShellTypes
        <3>5. StackOK(stack)'
            BY <3>3
        <3>6. CallsFit' /\ LineJudged'
            BY <1>2, <3>2, <3>3 DEF ButtonDecides, CallsFit, LineJudged, None
        <3> QED
            BY <3>4, <3>5, <3>6
    <2>2. CASE Pressed(counter) # "netconsole"
        BY <1>2, <2>2 DEF ButtonDecides, Pressed, ShellTypes, Phases, CallsFit, LineJudged, Doomed
    <2> QED
        BY <2>1, <2>2
<1>3. CASE HttpdReturns
    BY <1>3 DEF HttpdReturns, ShellTypes, Phases, CallsFit, LineJudged, Doomed
<1> QED
    BY <1>1, <1>2, <1>3

LEMMA BootKeeps == ShellInv /\ (Autoboot \/ NoAutoboot) => ShellInv'
<1> SUFFICES ASSUME ShellInv, Autoboot \/ NoAutoboot PROVE ShellInv'
    OBVIOUS
<1> USE DEF ShellInv
<1>1. CASE Autoboot
    <2>1. script["bootcmd"] \in {NoLine} \cup Seq(CommandSet)
        BY ShellAssumption DEF ShellTypes
    <2>2. /\ stack' \in Seq(Frames) /\ StackOK(stack') /\ ctrlc' = FALSE /\ ret' \in {-1, None}
          /\ IF stack' = <<>> THEN ret' = -1 ELSE ret' = None
        BY <1>1, <2>1, CallFromLoop DEF Autoboot
    <2>3. ShellTypes'
        BY <1>1, <2>2 DEF Autoboot, ShellTypes, Phases, None
    <2>4. StackOK(stack)'
        BY <2>2
    <2>5. CallsFit' /\ LineJudged'
        BY <1>1, <2>2 DEF Autoboot, CallsFit, LineJudged, None, ShellTypes
    <2> QED
        BY <2>3, <2>4, <2>5
<1>2. CASE NoAutoboot
    BY <1>2 DEF NoAutoboot, ShellTypes, Phases, CallsFit, LineJudged, Doomed
<1> QED
    BY <1>1, <1>2

LEMMA PromptKeeps == ShellInv /\ (EnterLine \/ MainLoopGoesOn) => ShellInv'
<1> SUFFICES ASSUME ShellInv, EnterLine \/ MainLoopGoesOn PROVE ShellInv'
    OBVIOUS
<1> USE DEF ShellInv
<1>1. CASE EnterLine
    <2>1. /\ lastcommand' \in Seq(CommandSet) /\ CallRunCommand(<<>>, lastcommand', FALSE)
        BY <1>1, ShellAssumption DEF EnterLine, ShellTypes
    <2>2. lastcommand' \in {NoLine} \cup Seq(CommandSet)
        BY <2>1
    <2>3. /\ stack' \in Seq(Frames) /\ StackOK(stack') /\ ctrlc' = FALSE /\ ret' \in {-1, None}
          /\ IF stack' = <<>> THEN ret' = -1 ELSE ret' = None
        BY <2>1, <2>2, CallFromLoop
    <2>4. ShellTypes'
        BY <1>1, <2>1, <2>3 DEF EnterLine, ShellTypes, Phases, None
    <2>5. StackOK(stack)'
        BY <2>3
    <2>6. CallsFit' /\ LineJudged'
        BY <1>1, <2>1, <2>3 DEF EnterLine, CallsFit, LineJudged, None
    <2> QED
        BY <2>4, <2>5, <2>6
<1>2. CASE MainLoopGoesOn
    <2>1. phase = "running" /\ ~ForgetLine(ret) => ret = 1
        BY <1>2 DEF MainLoopGoesOn, ForgetLine, ShellTypes, CallsFit, None
    <2>2. lastcommand' \in Seq(CommandSet) /\ phase' \in {"autoboot", "httpd_after_boot", "prompt"}
        BY <1>2 DEF MainLoopGoesOn, ShellTypes
    <2>3. LineJudged'
        BY <1>2, <2>1, <2>2 DEF MainLoopGoesOn, LineJudged, Doomed
    <2>4. CallsFit'
        BY <1>2, <2>2 DEF MainLoopGoesOn, CallsFit
    <2>5. ShellTypes' /\ StackOK(stack)'
        BY <1>2, <2>2 DEF MainLoopGoesOn, ShellTypes, Phases, None
    <2> QED
        BY <2>3, <2>4, <2>5
<1> QED
    BY <1>1, <1>2

-----------------------------------------------------------------------------
(* run_command.                                                            *)
LEMMA RefuseKeeps == ShellInv /\ Refuse => ShellInv'
<1> SUFFICES ASSUME ShellInv, Refuse PROVE ShellInv'
    OBVIOUS
<1> USE DEF ShellInv
<1> DEFINE f == [Counted(Top) EXCEPT !.rc = -1]
<1>1. /\ stack \in Seq(Frames) /\ stack # <<>> /\ StackOK(stack) /\ Top.kind = "run_command"
      /\ ret = None /\ stack' = Append(Front(stack), f) /\ earned' = FALSE
      /\ UNCHANGED <<phase, bootdelay, script, ret, lastcommand, ctrlc, interrupted, forgotten>>
    BY DEF Refuse, InRunCommand, Replaced, ShellTypes
<1>2. Top \in Frames /\ Top.todo \in Seq(CommandSet) /\ Top.todo # <<>>
    BY <1>1, TopFits DEF Refuse, Top, FrameFits
<1>3. /\ f \in Frames /\ FrameFits(f) /\ f.kind = Top.kind /\ f.kind = "run_command"
      /\ f.flag = Top.flag /\ f.rc = -1
    <2>1. /\ Counted(Top) \in Frames /\ Counted(Top).todo \in Seq(CommandSet)
          /\ Counted(Top).kind = Top.kind /\ Counted(Top).flag = Top.flag
        BY <1>2, CountedFits
    <2> QED
        BY <1>1, <2>1 DEF Frames, FrameFits
<1> HIDE DEF f
<1>4. stack' \in Seq(Frames) /\ stack' # <<>> /\ StackOK(stack)' /\ SomeFailing(stack')
    BY <1>1, <1>3, ReplacedOf, StackReplaced, FailingTop DEF Top
<1>5. ShellTypes'
    BY <1>1, <1>4 DEF ShellTypes
<1>6. CallsFit' /\ LineJudged'
    BY <1>1, <1>4 DEF CallsFit, LineJudged, Doomed
<1> QED
    BY <1>4, <1>5, <1>6

LEMMA SimpleKeeps == ShellInv /\ RunSimple => ShellInv'
<1> SUFFICES ASSUME ShellInv, RunSimple PROVE ShellInv'
    OBVIOUS
<1> USE DEF ShellInv
<1>1. /\ stack \in Seq(Frames) /\ stack # <<>> /\ Top.kind = "run_command" /\ Top.todo # <<>>
      /\ ret = None /\ ret' \in {0, 1} /\ ctrlc' \in BOOLEAN /\ interrupted' \in BOOLEAN
      /\ (ctrlc => ctrlc') /\ (interrupted' => interrupted \/ ctrlc')
      /\ UNCHANGED <<phase, bootdelay, stack, lastcommand, forgotten, earned>>
    BY DEF RunSimple, InRunCommand, ShellTypes
<1>2. NextCommand \in CommandSet
    <2>1. Top.todo \in Seq(CommandSet)
        BY <1>1, TopFits DEF FrameFits, Top
    <2> QED
        BY <2>1, <1>1 DEF NextCommand
<1>3. script' \in [Scripts -> {NoLine} \cup Seq(CommandSet)]
    BY <1>2, ShellAssumption DEF RunSimple, ShellTypes
<1>4. ShellTypes'
    BY <1>1, <1>3 DEF ShellTypes, None
<1>5. StackOK(stack)'
    BY <1>1
<1>6. CallsFit'
    BY <1>1 DEF CallsFit, None, Top
<1>7. LineJudged'
    BY <1>1 DEF LineJudged, Doomed, None, Top, CallsFit
<1> QED
    BY <1>4, <1>5, <1>6, <1>7

LEMMA RunKeeps == ShellInv /\ RunVariables => ShellInv'
<1> SUFFICES ASSUME ShellInv, RunVariables PROVE ShellInv'
    OBVIOUS
<1> USE DEF ShellInv
<1> DEFINE f == CallFrame("do_run", NextCommand.args, Top.flag)
<1>1. /\ stack \in Seq(Frames) /\ stack # <<>> /\ Top.kind = "run_command" /\ Top.todo # <<>>
      /\ ret = None /\ stack' = Append(stack, f) /\ NextCommand.op = "run"
      /\ UNCHANGED <<phase, bootdelay, script, ret, lastcommand, ctrlc, interrupted, forgotten, earned>>
    BY DEF RunVariables, InRunCommand, ShellTypes, Pushed
<1>2. Top \in Frames /\ Top.todo \in Seq(CommandSet)
    BY <1>1, TopFits DEF FrameFits, Top
<1>3. NextCommand \in CommandSet
    BY <1>2, <1>1 DEF NextCommand
<1>4. f \in Frames /\ FrameFits(f) /\ f.kind = "do_run" /\ f.flag = Top.flag
    <2>1. NextCommand.args \in Seq(Scripts)
        BY <1>1, <1>3, ShellAssumption
    <2>2. Top.flag \in BOOLEAN
        BY <1>2 DEF Frames
    <2> QED
        BY <2>1, <2>2 DEF CallFrame, Frames, Kinds, FrameFits
<1> HIDE DEF f
<1>5. stack' \in Seq(Frames) /\ stack' # <<>> /\ StackOK(stack)'
    BY <1>1, <1>4, AppendOf, StackAppend DEF Top
<1>6. SomeFailing(stack) => SomeFailing(stack')
    BY <1>1, <1>4, FailingAppend
<1>7. ShellTypes'
    BY <1>1, <1>5 DEF ShellTypes
<1>8. CallsFit' /\ LineJudged'
    BY <1>1, <1>5, <1>6 DEF CallsFit, LineJudged, Doomed, None
<1> QED
    BY <1>5, <1>7, <1>8

LEMMA LineDoneKeeps == ShellInv /\ LineDone => ShellInv'
<1> SUFFICES ASSUME ShellInv, LineDone PROVE ShellInv'
    OBVIOUS
<1> USE DEF ShellInv
<1>1. /\ stack \in Seq(Frames) /\ stack # <<>> /\ Top.kind = "run_command"
      /\ ret = None /\ stack' = Front(stack) /\ ret' = (IF Top.rc # 0 THEN Top.rc ELSE Top.repeatable)
      /\ UNCHANGED <<phase, bootdelay, script, lastcommand, ctrlc, interrupted, forgotten, earned>>
    BY DEF LineDone, InRunCommand, ShellTypes
<1>2. Top \in Frames /\ Top = stack[Len(stack)] /\ Len(stack) \in Nat \ {0}
    BY <1>1, FrontOf DEF Top
<1>3. ret' \in {-1, 0, 1} /\ (Top.rc = -1 => ret' = -1) /\ (Top.repeatable = 0 => ret' # 1)
    BY <1>1, <1>2 DEF Frames
<1>4. stack' \in Seq(Frames) /\ StackOK(stack)' /\ Len(stack') = Len(stack) - 1
    BY <1>1, FrontOf, StackFront
<1>5. ShellTypes'
    BY <1>1, <1>3, <1>4 DEF ShellTypes
<1>6. CallsFit'
    BY <1>1, <1>3, CallerOf DEF CallsFit, None, Top
<1>7. SomeFailing(stack) => Doomed'
    <2>1. CASE Failing(stack, Len(stack))
        <3>1. Top.rc = -1 \/ (Len(stack) = 1 /\ Top.repeatable = 0)
            BY <2>1, <1>2 DEF Failing
        <3>2. Len(stack) = 1 => stack' = <<>>
            BY <1>4
        <3> QED
            BY <3>1, <3>2, <1>3 DEF Doomed
    <2>2. CASE ~Failing(stack, Len(stack))
        <3>1. SomeFailing(stack) => SomeFailing(stack')
            BY <2>2, <1>1, FailingFront
        <3>2. SomeFailing(stack') => stack' # <<>>
            BY DEF SomeFailing
        <3> QED
            BY <3>1, <3>2 DEF Doomed
    <2> QED
        BY <2>1, <2>2
<1>8. LineJudged'
    BY <1>1, <1>7 DEF LineJudged, Doomed, None, CallsFit
<1> QED
    BY <1>4, <1>5, <1>6, <1>8

LEMMA CommandDoneKeeps == ShellInv /\ CommandDone => ShellInv'
<1> SUFFICES ASSUME ShellInv, CommandDone PROVE ShellInv'
    OBVIOUS
<1> USE DEF ShellInv
<1>1. /\ stack \in Seq(Frames) /\ stack # <<>> /\ Top.kind = "run_command" /\ ret \in {-1, 0, 1}
      /\ earned' = (earned /\ ret = 0 /\ ~ctrlc /\ (Len(stack) > 1 \/ Repeatable(NextCommand)))
      /\ UNCHANGED <<phase, bootdelay, script, lastcommand, ctrlc, interrupted, forgotten>>
    BY DEF CommandDone, ShellTypes, None
<1>2. earned' \in BOOLEAN /\ (~earned' => ~earned \/ ret # 0 \/ ctrlc \/ (Len(stack) = 1 /\ ~Repeatable(NextCommand)))
    <2>1. Len(stack) > 1 \/ Len(stack) = 1
        <3>1. \A n \in Nat : n # 0 => n > 1 \/ n = 1
            OBVIOUS
        <3>2. Len(stack) \in Nat /\ Len(stack) # 0
            BY <1>1
        <3> QED
            BY <3>1, <3>2
    <2>2. earned \in BOOLEAN /\ ctrlc \in BOOLEAN
        BY DEF ShellTypes
    <2> QED
        BY <1>1, <2>1, <2>2
<1>3. Top.todo # <<>>
    BY <1>1 DEF CallsFit, None
<1>4. CASE ctrlc
    <2>1. stack' = Front(stack) /\ ret' = 0
        BY <1>4 DEF CommandDone, Stops
    <2>2. stack' \in Seq(Frames) /\ StackOK(stack)'
        BY <1>1, <2>1, FrontOf, StackFront
    <2>3. ShellTypes'
        BY <1>1, <1>2, <2>1, <2>2 DEF ShellTypes
    <2>4. CallsFit' /\ LineJudged'
        BY <1>1, <1>4, <2>1, CallerOf DEF CallsFit, LineJudged, Doomed, None, Top
    <2> QED
        BY <2>2, <2>3, <2>4
<1>5. CASE ~ctrlc
    <2> DEFINE f == [Counted(Top) EXCEPT !.rc = IF ret # 0 THEN -1 ELSE @,
                                         !.repeatable = IF Repeatable(NextCommand) THEN @ ELSE 0]
    <2>1. stack' = Append(Front(stack), f) /\ ret' = None
        BY <1>5 DEF CommandDone, Stops, Replaced
    <2>2. Top \in Frames /\ Top.todo \in Seq(CommandSet)
        BY <1>1, TopFits DEF Top, FrameFits
    <2>3. /\ Counted(Top) \in Frames /\ Counted(Top).todo \in Seq(CommandSet)
          /\ Counted(Top).kind = Top.kind /\ Counted(Top).flag = Top.flag
          /\ Counted(Top).rc = Top.rc /\ Counted(Top).repeatable = Top.repeatable
        BY <2>2, <1>3, CountedFits
    <2>4. /\ f \in Frames /\ FrameFits(f) /\ f.kind = Top.kind /\ f.flag = Top.flag
          /\ (ret # 0 \/ Top.rc = -1 => f.rc = -1)
          /\ (~Repeatable(NextCommand) \/ Top.repeatable = 0 => f.repeatable = 0)
        <3> DEFINE g == Counted(Top)
        <3>1. f = [g EXCEPT !.rc = IF ret # 0 THEN -1 ELSE @,
                            !.repeatable = IF Repeatable(NextCommand) THEN @ ELSE 0]
            OBVIOUS
        <3>2. g \in Frames /\ g.todo \in Seq(CommandSet) /\ g.kind = "run_command"
            BY <2>3, <1>1
        <3> HIDE DEF f, g
        <3>3. g.rc \in {-1, 0} /\ g.repeatable \in {0, 1}
            BY <3>2 DEF Frames
        <3>4. f \in Frames /\ f.kind = g.kind /\ f.flag = g.flag /\ f.todo = g.todo
            BY <3>1, <3>2, <3>3 DEF Frames
        <3>5. /\ f.rc = (IF ret # 0 THEN -1 ELSE g.rc)
              /\ f.repeatable = IF Repeatable(NextCommand) THEN g.repeatable ELSE 0
            BY <3>1, <3>2 DEF Frames
        <3> QED
            BY <3>2, <3>4, <3>5, <2>3 DEF FrameFits, g
    <2> HIDE DEF f
    <2>5. stack' \in Seq(Frames) /\ stack' # <<>> /\ StackOK(stack)'
        BY <1>1, <2>1, <2>4, ReplacedOf, StackReplaced DEF Top
    <2>6. SomeFailing(stack) => SomeFailing(stack')
        BY <1>1, <2>1, <2>4, FailingReplaced DEF Top
    <2>7. ret # 0 \/ (Len(stack) = 1 /\ ~Repeatable(NextCommand)) => SomeFailing(stack')
        BY <1>1, <2>1, <2>4, FailingTop
    <2>8. ShellTypes'
        BY <1>1, <1>2, <2>1, <2>5 DEF ShellTypes
    <2>9. CallsFit'
        BY <1>1, <1>5, <2>1, <2>5 DEF CallsFit
    <2>10. phase = "running" /\ ~earned' /\ ~forgotten => SomeFailing(stack')
        BY <1>1, <1>2, <1>5, <2>6, <2>7 DEF LineJudged, Doomed
    <2>11. LineJudged'
        BY <1>1, <2>5, <2>10 DEF LineJudged, CallsFit, Doomed
    <2> QED
        BY <2>5, <2>8, <2>9, <2>11
<1> QED
    BY <1>4, <1>5

-----------------------------------------------------------------------------
(* do_bootd and do_run.                                                    *)
LEMMA BootdKeeps == ShellInv /\ RunBootd => ShellInv'
<1> SUFFICES ASSUME ShellInv, RunBootd PROVE ShellInv'
    OBVIOUS
<1> USE DEF ShellInv
<1> DEFINE f == [Top EXCEPT !.flag = TRUE]
           g == CallFrame("do_bootd", <<>>, TRUE)
           s == Append(Front(stack), f)
           below == Append(s, g)
<1>1. /\ stack \in Seq(Frames) /\ stack # <<>> /\ Top.kind = "run_command" /\ ~Top.flag /\ Top.todo # <<>>
      /\ ret = None /\ CallRunCommand(Replaced(f) \o <<g>>, script["bootcmd"], TRUE)
      /\ forgotten' = (forgotten \/ ctrlc)
      /\ UNCHANGED <<phase, bootdelay, script, lastcommand, interrupted, earned>>
    BY DEF RunBootd, InRunCommand, NestedCall, ShellTypes
<1>2. Top \in Frames /\ FrameFits(Top) /\ Top = stack[Len(stack)]
    BY <1>1, TopFits, FrontOf DEF Top
<1>3. /\ f \in Frames /\ FrameFits(f) /\ f.kind = Top.kind /\ f.flag /\ f.rc = Top.rc
      /\ f.repeatable = Top.repeatable /\ f.todo = Top.todo
    BY <1>2 DEF Frames, FrameFits
<1>4. g \in Frames /\ FrameFits(g) /\ g.kind = "do_bootd" /\ g.flag
    BY DEF CallFrame, Frames, Kinds, FrameFits
<1>5. /\ s \in Seq(Frames) /\ s # <<>> /\ Len(s) = Len(stack) /\ Last(s) = f
      /\ \A i \in 1 .. Len(stack) - 1 : s[i] = stack[i]
      /\ s[Len(stack)] = f
    <2>1. stack \in Seq(Frames) /\ stack # <<>> /\ f \in Frames
        BY <1>1, <1>3
    <2> HIDE DEF f
    <2> QED
        BY <2>1, ReplacedOf
<1>6. StackOK(s)
    BY <1>1, <1>3, StackReplaced DEF Top
<1>7. SomeFailing(stack) => SomeFailing(s)
    BY <1>1, <1>3, FailingReplaced DEF Top
<1>8. \A i \in 1 .. Len(stack) : stack[i].kind # "do_bootd"
    <2>1. Len(stack) \in 1 .. Len(stack) /\ \A i \in 1 .. Len(stack) : i <= Len(stack)
        BY <1>1
    <2> QED
        BY <2>1, <1>1, <1>2 DEF StackOK, FlagPassed
<1> HIDE DEF f, g
<1>9. \A i \in 1 .. Len(s) : s[i].kind # "do_bootd"
    <2>1. \A i \in 1 .. Len(stack) : i # Len(stack) => i \in 1 .. Len(stack) - 1
        BY <1>1
    <2> HIDE DEF s
    <2> QED
        BY <1>1, <1>3, <1>5, <1>8, <2>1
<1>10. Replaced(f) \o <<g>> = below
    <2>1. Replaced(f) = s
        BY DEF Replaced
    <2> HIDE DEF s
    <2> QED
        BY <1>4, <1>5, <2>1
<1> HIDE DEF s
<1>11. StackOK(below) /\ below \in Seq(Frames) /\ below # <<>> /\ Last(below) = g
    BY <1>1, <1>3, <1>4, <1>5, <1>6, <1>9, StackAppend, AppendOf
<1>12. SomeFailing(s) => SomeFailing(below)
    BY <1>4, <1>5, FailingAppend
<1> HIDE DEF below
<1>13. script["bootcmd"] \in {NoLine} \cup Seq(CommandSet)
    BY ShellAssumption DEF ShellTypes
<1>14. /\ stack' \in Seq(Frames) /\ StackOK(stack') /\ ctrlc' = FALSE
       /\ (stack' = below /\ ret' = -1) \/ (stack' # <<>> /\ ret' = None)
       /\ SomeFailing(below) => SomeFailing(stack')
    BY <1>1, <1>4, <1>10, <1>11, <1>13, CallKeeps
<1>15. ShellTypes'
    BY <1>1, <1>14 DEF ShellTypes, None
<1>16. StackOK(stack)'
    BY <1>14
<1>17. CallsFit'
    BY <1>1, <1>4, <1>11, <1>14 DEF CallsFit, None, Top
<1>18. LineJudged'
    <2>1. phase = "running" /\ ~earned' /\ ~forgotten' => SomeFailing(stack)
        BY <1>1 DEF LineJudged, CallsFit, Doomed, None, ShellTypes
    <2> QED
        BY <2>1, <1>1, <1>7, <1>11, <1>12, <1>14 DEF LineJudged, CallsFit, Doomed
<1> QED
    BY <1>15, <1>16, <1>17, <1>18

LEMMA VariableKeeps == ShellInv /\ RunVariable => ShellInv'
<1> SUFFICES ASSUME ShellInv, RunVariable PROVE ShellInv'
    OBVIOUS
<1> USE DEF ShellInv
<1>1. /\ stack \in Seq(Frames) /\ stack # <<>> /\ Top.kind = "do_run" /\ ret \in {0, 1, None} /\ Top.todo # <<>>
      /\ UNCHANGED <<phase, bootdelay, script, lastcommand, interrupted, earned>>
    BY DEF RunVariable, ShellTypes
<1>2. Top \in Frames /\ FrameFits(Top) /\ Top = stack[Len(stack)]
    BY <1>1, TopFits, FrontOf DEF Top
<1>3. /\ Front(stack) # <<>> /\ Last(Front(stack)).kind = "run_command" /\ Last(Front(stack)).todo # <<>>
    BY <1>1, CallerOf DEF Top
<1>4. Head(Top.todo) \in Scripts /\ Tail(Top.todo) \in Seq(Scripts)
    BY <1>1, <1>2 DEF FrameFits
<1>5. script[Head(Top.todo)] \in {NoLine} \cup Seq(CommandSet)
    BY <1>4 DEF ShellTypes
<1>6. CASE script[Head(Top.todo)] = NoLine
    <2>1. stack' = Front(stack) /\ ret' = 1 /\ UNCHANGED <<ctrlc, forgotten>>
        BY <1>6 DEF RunVariable
    <2>2. stack' \in Seq(Frames) /\ StackOK(stack)'
        BY <1>1, <2>1, FrontOf, StackFront
    <2>3. ShellTypes'
        BY <1>1, <2>1, <2>2 DEF ShellTypes
    <2>4. CallsFit' /\ LineJudged'
        BY <1>1, <1>3, <2>1 DEF CallsFit, LineJudged, Doomed, None, Top
    <2> QED
        BY <2>2, <2>3, <2>4
<1>7. CASE script[Head(Top.todo)] # NoLine
    <2> DEFINE f == [Top EXCEPT !.todo = NextVariables(Top)]
               s == Append(Front(stack), f)
    <2>1. /\ CallRunCommand(s, script[Head(Top.todo)], Top.flag)
          /\ forgotten' = (forgotten \/ ctrlc)
        BY <1>7 DEF RunVariable, Replaced, PassedFlag, NestedCall
    <2>2. /\ f \in Frames /\ FrameFits(f) /\ f.kind = Top.kind /\ f.flag = Top.flag /\ f.rc = Top.rc
          /\ f.repeatable = Top.repeatable /\ f.flag \in BOOLEAN
        BY <1>1, <1>2, <1>4 DEF Frames, FrameFits, NextVariables
    <2> HIDE DEF f
    <2>3. /\ s \in Seq(Frames) /\ s # <<>> /\ Last(s) = f /\ StackOK(s)
        BY <1>1, <2>2, ReplacedOf, StackReplaced DEF Top
    <2>4. SomeFailing(stack) => SomeFailing(s)
        BY <1>1, <2>2, FailingReplaced DEF Top
    <2> HIDE DEF s
    <2>5. /\ stack' \in Seq(Frames) /\ StackOK(stack') /\ ctrlc' = FALSE
          /\ (stack' = s /\ ret' = -1) \/ (stack' # <<>> /\ ret' = None)
          /\ SomeFailing(s) => SomeFailing(stack')
        BY <1>1, <1>5, <2>1, <2>2, <2>3, CallKeeps
    <2>6. ShellTypes'
        BY <1>1, <2>1, <2>5 DEF ShellTypes, None
    <2>7. StackOK(stack)'
        BY <2>5
    <2>8. CallsFit'
        BY <1>1, <2>1, <2>2, <2>3, <2>5 DEF CallsFit, None, Top
    <2>9. LineJudged'
        <3>1. phase = "running" /\ ~earned' /\ ~forgotten' => SomeFailing(stack)
            BY <1>1, <2>1 DEF LineJudged, Doomed, None, ShellTypes
        <3> QED
            BY <3>1, <1>1, <2>3, <2>4, <2>5 DEF LineJudged, CallsFit, Doomed
    <2> QED
        BY <2>6, <2>7, <2>8, <2>9
<1> QED
    BY <1>6, <1>7

LEMMA ReturnKeeps == ShellInv /\ (RunDone \/ BootdDone) => ShellInv'
<1> SUFFICES ASSUME ShellInv, RunDone \/ BootdDone PROVE ShellInv'
    OBVIOUS
<1> USE DEF ShellInv
<1>1. /\ stack \in Seq(Frames) /\ stack # <<>> /\ Top.kind # "run_command" /\ ret \in {-1, 0, 1}
      /\ stack' = Front(stack) /\ ret' = (IF ret = -1 THEN 1 ELSE 0)
      /\ UNCHANGED <<phase, bootdelay, script, lastcommand, ctrlc, interrupted, forgotten, earned>>
    BY DEF RunDone, BootdDone, ShellTypes, None
<1>2. /\ Front(stack) # <<>> /\ Last(Front(stack)).kind = "run_command" /\ Last(Front(stack)).todo # <<>>
    BY <1>1, CallerOf DEF Top
<1>3. stack' \in Seq(Frames) /\ StackOK(stack)'
    BY <1>1, FrontOf, StackFront
<1>4. SomeFailing(stack) => SomeFailing(stack')
    <2>1. ~Failing(stack, Len(stack))
        BY <1>1, FrontOf DEF Failing, Top
    <2> QED
        BY <2>1, <1>1, FailingFront
<1>5. ShellTypes'
    BY <1>1, <1>3 DEF ShellTypes
<1>6. CallsFit'
    BY <1>1, <1>2 DEF CallsFit, None, Top
<1>7. LineJudged'
    BY <1>1, <1>2, <1>4 DEF LineJudged, Doomed, None, Top
<1> QED
    BY <1>3, <1>5, <1>6, <1>7

-----------------------------------------------------------------------------
LEMMA InitJudged == ShellInit => ShellInv
<1>1. ShellInit => StackOK(stack) /\ stack \in Seq(Frames)
    BY EmptyStack DEF ShellInit, EmptyStackOK
<1>2. ShellInit => ShellTypes
    <2> SUFFICES ASSUME ShellInit PROVE ShellTypes
        OBVIOUS
    <2>1. script \in [Scripts -> {NoLine} \cup Seq(CommandSet)] /\ bootdelay \in Int
        BY ShellAssumption DEF ShellInit
    <2>2. lastcommand \in Seq(CommandSet) /\ phase \in Phases /\ ret \in {-1, 0, 1, None}
        BY DEF ShellInit, Phases
    <2> QED
        BY <1>1, <2>1, <2>2 DEF ShellInit, ShellTypes
<1>3. ShellInit => CallsFit /\ LineJudged
    BY DEF ShellInit, CallsFit, LineJudged
<1> QED
    BY <1>1, <1>2, <1>3 DEF ShellInv

LEMMA StepJudged == ShellInv /\ [ShellNext]_shellVars => ShellInv'
<1> SUFFICES ASSUME ShellInv, [ShellNext]_shellVars PROVE ShellInv'
    OBVIOUS
<1>1. CASE UNCHANGED shellVars
    BY <1>1 DEF shellVars, ShellInv, ShellTypes, CallsFit, LineJudged, Doomed, Top
<1>2. CASE ShellNext
    BY <1>2, ButtonKeeps, BootKeeps, PromptKeeps, RefuseKeeps, SimpleKeeps, RunKeeps, BootdKeeps, CommandDoneKeeps,
       LineDoneKeeps, VariableKeeps, ReturnKeeps DEF ShellNext, ShellRuns
<1> QED
    BY <1>1, <1>2

(* The induction behind both theorems.                                     *)
LEMMA AlwaysJudged == ShellSpec => []ShellInv
BY InitJudged, StepJudged, PTL DEF ShellSpec

(* Calls of bootd are never nested, and Enter repeats only a line whose    *)
(* commands all succeeded and may all be repeated, unless do_run went on   *)
(* after Ctrl-C (run_command, do_run, do_bootd and main_loop).             *)
THEOREM RepeatEarned == ShellSpec => []RepeatIsEarned
<1>1. ShellInv => RepeatIsEarned
    <2> SUFFICES ASSUME ShellInv PROVE NoBootdRecursion
        BY DEF RepeatIsEarned, ShellInv, LineJudged
    <2> DEFINE B == {i \in DOMAIN stack : stack[i].kind = "do_bootd"}
    <2>1. stack \in Seq(Frames) /\ OneBootd(stack) /\ DOMAIN stack = 1 .. Len(stack)
        BY DEF ShellInv, ShellTypes, StackOK
    <2>2. CASE B = {}
        BY <2>2, FS_EmptySet DEF NoBootdRecursion
    <2>3. CASE B # {}
        <3>1. PICK i \in B : TRUE
            BY <2>3
        <3>2. B = {i}
            BY <2>1, <3>1 DEF OneBootd
        <3> HIDE DEF B
        <3>3. Cardinality(B) = 1
            BY <3>2, FS_Singleton
        <3> QED
            BY <3>3 DEF NoBootdRecursion, B
    <2> QED
        BY <2>2, <2>3
<1> QED
    BY <1>1, AlwaysJudged, PTL

(* After Ctrl-C no command starts before the prompt is back, except where  *)
(* do_run went on with its next variable (had_ctrlc in run_command).       *)
THEOREM InterruptWorks == ShellSpec => InterruptStops
<1>1. ShellInv /\ [ShellNext]_shellVars => [interrupted /\ started' # started => forgotten]_shellVars
    <2> SUFFICES ASSUME ShellInv, ShellNext, interrupted, started' # started PROVE forgotten
        BY DEF shellVars
    <2>1. InRunCommand
        BY DEF ShellNext, ShellRuns, ButtonSecond, ButtonDecides, HttpdReturns, Autoboot, NoAutoboot, EnterLine,
           Refuse, RunSimple, RunVariables, RunBootd, CommandDone, LineDone, RunVariable, RunDone, BootdDone,
           MainLoopGoesOn
    <2> QED
        BY <2>1 DEF InRunCommand, ShellInv, CallsFit
<1> QED
    BY <1>1, AlwaysJudged, PTL DEF ShellSpec, InterruptStops
============================================================================
