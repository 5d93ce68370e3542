------------------------------- MODULE Shell -------------------------------
(***************************************************************************)
(* main_loop and run_command: what runs at start (reset button, autoboot,  *)
(* web failsafe), and command lines whose commands run variables, which    *)
(* setenv may change while they run. stack holds the calls in progress.    *)
(***************************************************************************)
EXTENDS Integers, SequencesExt

CONSTANTS
    CommandSet,         \* every command that a line or a variable holds
    Scripts,            \* variables that hold command lines
    InitialScript,      \* what they hold at the start
    Lines,              \* what the user types
    NoLine,             \* a variable that is not defined
    MaxCommands,        \* a longer line does not fit CFG_CBSIZE
    MaxCalls,           \* bound on the depth of calls: the stack's memory
    HttpdDelay, ConsoleDelay, NetConsoleDelay, MaxPressing, BootDelay

ASSUME ShellAssumption ==
    /\ HttpdDelay < ConsoleDelay /\ ConsoleDelay < NetConsoleDelay
    /\ BootDelay \in Int /\ {"bootcmd", "nc"} \subseteq Scripts
    /\ \A c \in CommandSet :
           /\ c.op = "run" => c.args \in Seq(Scripts)
           /\ c.op = "setenv" => c.var \in Scripts /\ c.line \in {NoLine} \cup Seq(CommandSet)
    /\ [op |-> "run", args |-> <<"nc">>] \in CommandSet
    /\ InitialScript \in [Scripts -> {NoLine} \cup Seq(CommandSet)] /\ Lines \subseteq Seq(CommandSet)

VARIABLES
    phase,              \* where main_loop is
    counter, bootdelay,
    script,             \* the variables of the environment
    stack, ret,         \* calls, the outermost first; what a call returned
    lastcommand,
    ctrlc,              \* ctrlc_was_pressed
    started,            \* changes with every command called
    interrupted, forgotten,     \* Ctrl-C since the prompt; cleared since
    earned              \* all commands since the prompt succeeded and are repeatable

shellVars == <<phase, counter, bootdelay, script, stack, ret, lastcommand, ctrlc, started, interrupted, forgotten, earned>>

None == 2

(* A command: op, arguments, and for setenv the new line.                  *)
Repeatable(c) == c.op # "setenv"

PassedFlag(flag) == flag

CallFrame(kind, todo, flag) ==
    [kind |-> kind, todo |-> todo, flag |-> flag, rc |-> 0, repeatable |-> 1]

Top == Last(stack)
Pushed(f) == Append(stack, f)
Replaced(f) == Append(Front(stack), f)

(* run_command up to the copy of its line: Ctrl-C is forgotten. cmdbuf is  *)
(* a copy, the commands to do are no longer those of the variable.         *)
CallRunCommand(below, commands, flag) ==
    /\ ctrlc' = FALSE
    /\ IF commands = <<>> \/ commands = NoLine \/ Len(commands) > MaxCommands
       THEN stack' = below /\ ret' = -1
       ELSE stack' = Append(below, CallFrame("run_command", commands, flag)) /\ ret' = None

(* A call inside a command line.                                           *)
NestedCall == forgotten' = (forgotten \/ ctrlc)

-----------------------------------------------------------------------------
(* main_loop before the prompt.                                            *)
ButtonSecond ==
    /\ phase = "button" /\ counter <= MaxPressing
    /\ counter' = counter + 1
    /\ UNCHANGED <<phase, bootdelay, script, stack, ret, lastcommand, ctrlc, started, interrupted, forgotten, earned>>

Pressed(c) ==
    IF c >= NetConsoleDelay THEN "netconsole" ELSE IF c >= ConsoleDelay THEN "console"
    ELSE IF c >= HttpdDelay THEN "httpd" ELSE "none"

(* The button is released, or was pressed longer than CONFIG_MAX_BUTTON_.  *)
ButtonDecides ==
    /\ phase = "button"
    /\ bootdelay' = IF Pressed(counter) = "none" THEN bootdelay ELSE -1
    /\ IF Pressed(counter) = "netconsole"
       THEN phase' = "netconsole" /\ CallRunCommand(<<>>, <<[op |-> "run", args |-> <<"nc">>]>>, FALSE)
       ELSE /\ phase' = IF Pressed(counter) = "httpd" THEN "httpd" ELSE "autoboot"
            /\ UNCHANGED <<stack, ret, ctrlc>>
    /\ UNCHANGED <<counter, script, lastcommand, started, interrupted, forgotten, earned>>

(* NetLoopHttpd returns when it is interrupted or has no Ethernet device.  *)
HttpdReturns ==
    /\ phase \in {"httpd", "httpd_after_boot"}
    /\ phase' = IF phase = "httpd" THEN "autoboot" ELSE "prompt"
    /\ UNCHANGED <<counter, bootdelay, script, stack, ret, lastcommand, ctrlc, started, interrupted, forgotten, earned>>

(* abortboot, whose key is consumed, and the call of bootcmd. Without      *)
(* bootcmd main_loop defines it first.                                     *)
Autoboot ==
    /\ phase = "autoboot" /\ bootdelay >= 0
    /\ phase' = "booting"
    /\ CallRunCommand(<<>>, script["bootcmd"], FALSE)
    /\ UNCHANGED <<counter, bootdelay, script, lastcommand, started, interrupted, forgotten, earned>>

NoAutoboot ==
    /\ phase = "autoboot"
    /\ \E abort \in BOOLEAN : bootdelay < 0 \/ (bootdelay > 0 /\ abort)
    /\ phase' = "prompt"
    /\ UNCHANGED <<counter, bootdelay, script, stack, ret, lastcommand, ctrlc, started, interrupted, forgotten, earned>>

(* The prompt: a line, or an empty one, which repeats.                     *)
EnterLine ==
    /\ phase = "prompt"
    /\ \E typed \in Lines \cup {<<>>} :
           LET command == IF typed # <<>> THEN typed ELSE lastcommand IN
           /\ lastcommand' = command
           /\ CallRunCommand(<<>>, command, FALSE)
    /\ phase' = "running" /\ interrupted' = FALSE /\ forgotten' = FALSE /\ earned' = TRUE
    /\ UNCHANGED <<counter, bootdelay, script, started>>

(* Mutant: only a command that was not called is forgotten.                *)
ForgetLineFailed(rc) == rc < 0

ForgetLine(rc) == rc <= 0

MainLoopGoesOn ==
    /\ phase \in {"netconsole", "booting", "running"} /\ stack = <<>>
    /\ phase' = CASE phase = "netconsole" -> "autoboot" [] phase = "booting" -> "httpd_after_boot"
                  [] OTHER -> "prompt"
    /\ lastcommand' = IF phase = "running" /\ ForgetLine(ret) THEN <<>> ELSE lastcommand
    /\ ret' = None
    /\ UNCHANGED <<counter, bootdelay, script, stack, ctrlc, started, interrupted, forgotten, earned>>

-----------------------------------------------------------------------------
(* run_command's loop. A command that is refused counts as failed.         *)
InRunCommand == stack # <<>> /\ Top.kind = "run_command" /\ ret = None
NextCommand == Head(Top.todo)

Counted(f) == [f EXCEPT !.todo = Tail(@)]

Refuse ==
    /\ InRunCommand /\ Top.todo # <<>>
    /\ \/ NextCommand.op = "unknown"
       \/ NextCommand.op = "bootd" /\ Top.flag
    /\ stack' = Replaced([Counted(Top) EXCEPT !.rc = -1])
    /\ earned' = FALSE
    /\ UNCHANGED <<phase, counter, bootdelay, script, ret, lastcommand, ctrlc, started, interrupted, forgotten>>

Started == started' = 1 - started

(* A command that does not call run_command; Ctrl-C may stop it.           *)
RunSimple ==
    /\ InRunCommand /\ Top.todo # <<>> /\ NextCommand.op \in {"simple", "setenv"}
    /\ \E stopped \in BOOLEAN, failed \in BOOLEAN :
           /\ NextCommand.op = "setenv" => ~stopped /\ ~failed
           /\ ctrlc' = (ctrlc \/ stopped) /\ interrupted' = (interrupted \/ stopped)
           /\ ret' = IF failed \/ stopped THEN 1 ELSE 0
    /\ script' = IF NextCommand.op = "setenv" THEN [script EXCEPT ![NextCommand.var] = NextCommand.line] ELSE script
    /\ Started
    /\ UNCHANGED <<phase, counter, bootdelay, stack, lastcommand, forgotten, earned>>

RunVariables ==
    /\ InRunCommand /\ Top.todo # <<>> /\ NextCommand.op = "run" /\ Len(stack) < MaxCalls
    /\ stack' = Pushed(CallFrame("do_run", NextCommand.args, Top.flag))
    /\ Started
    /\ UNCHANGED <<phase, counter, bootdelay, script, ret, lastcommand, ctrlc, interrupted, forgotten, earned>>

RunBootd ==
    /\ InRunCommand /\ Top.todo # <<>> /\ NextCommand.op = "bootd" /\ ~Top.flag /\ Len(stack) < MaxCalls
    /\ CallRunCommand(Replaced([Top EXCEPT !.flag = TRUE]) \o <<CallFrame("do_bootd", <<>>, TRUE)>>,
                      script["bootcmd"], TRUE)
    /\ Started /\ NestedCall
    /\ UNCHANGED <<phase, counter, bootdelay, script, lastcommand, interrupted, earned>>

(* Mutant: an interrupted command is followed by the next.                 *)
StopsNever == FALSE

Stops == ctrlc

(* Back in run_command.                                                    *)
CommandDone ==
    /\ stack # <<>> /\ Top.kind = "run_command" /\ ret # None
    /\ IF Stops THEN stack' = Front(stack) /\ ret' = 0
       ELSE /\ stack' = Replaced([Counted(Top) EXCEPT !.rc = IF ret # 0 THEN -1 ELSE @,
                                                     !.repeatable = IF Repeatable(NextCommand) THEN @ ELSE 0])
            /\ ret' = None
    /\ earned' = (earned /\ ret = 0 /\ ~ctrlc /\ (Len(stack) > 1 \/ Repeatable(NextCommand)))
    /\ UNCHANGED <<phase, counter, bootdelay, script, lastcommand, ctrlc, started, interrupted, forgotten>>

LineDone ==
    /\ InRunCommand /\ Top.todo = <<>>
    /\ stack' = Front(stack)
    /\ ret' = IF Top.rc # 0 THEN Top.rc ELSE Top.repeatable
    /\ UNCHANGED <<phase, counter, bootdelay, script, lastcommand, ctrlc, started, interrupted, forgotten, earned>>

(* Mutant: the same variable once more.                                    *)
NextVariablesSame(f) == f.todo

NextVariables(f) == Tail(f.todo)

(* do_run: the variables in order, until one fails.                        *)
RunVariable ==
    /\ stack # <<>> /\ Top.kind = "do_run" /\ ret \notin {-1} /\ Top.todo # <<>>
    /\ IF script[Head(Top.todo)] = NoLine
       THEN stack' = Front(stack) /\ ret' = 1 /\ UNCHANGED <<ctrlc, forgotten>>
       ELSE /\ CallRunCommand(Replaced([Top EXCEPT !.todo = NextVariables(Top)]), script[Head(Top.todo)], PassedFlag(Top.flag))
            /\ NestedCall
    /\ UNCHANGED <<phase, counter, bootdelay, script, lastcommand, started, interrupted, earned>>

RunDone ==
    /\ stack # <<>> /\ Top.kind = "do_run"
    /\ ret = -1 \/ (ret # None /\ Top.todo = <<>>)
    /\ stack' = Front(stack) /\ ret' = IF ret = -1 THEN 1 ELSE 0
    /\ UNCHANGED <<phase, counter, bootdelay, script, lastcommand, ctrlc, started, interrupted, forgotten, earned>>

BootdDone ==
    /\ stack # <<>> /\ Top.kind = "do_bootd" /\ ret # None
    /\ stack' = Front(stack) /\ ret' = IF ret < 0 THEN 1 ELSE 0
    /\ UNCHANGED <<phase, counter, bootdelay, script, lastcommand, ctrlc, started, interrupted, forgotten, earned>>

ShellInit ==
    /\ phase \in {"button", "autoboot"} /\ counter = 0 /\ bootdelay = BootDelay
    /\ script = InitialScript /\ stack = <<>> /\ ret = None /\ lastcommand = <<>>
    /\ ctrlc = FALSE /\ started = 0 /\ interrupted = FALSE /\ forgotten = FALSE /\ earned = FALSE

ShellRuns ==
    \/ Refuse \/ RunSimple \/ RunVariables \/ RunBootd \/ CommandDone \/ LineDone
    \/ RunVariable \/ RunDone \/ BootdDone \/ MainLoopGoesOn

ShellNext ==
    \/ ButtonSecond \/ ButtonDecides \/ HttpdReturns \/ Autoboot \/ NoAutoboot \/ EnterLine \/ ShellRuns

ShellSpec == ShellInit /\ [][ShellNext]_shellVars /\ WF_shellVars(ShellRuns)

-----------------------------------------------------------------------------
(* bootd never runs inside bootd, however many variables lie between.      *)
NoBootdRecursion == Cardinality({i \in DOMAIN stack : stack[i].kind = "do_bootd"}) <= 1

(* After Ctrl-C no further command starts, except where do_run goes on     *)
(* with its next variable, which forgets the key.                          *)
InterruptStops == [][interrupted /\ started' # started => forgotten]_shellVars

(* An empty line repeats only what succeeded and may be repeated, unless   *)
(* do_run went on after Ctrl-C.                                            *)
RepeatIsEarned ==
    /\ NoBootdRecursion
    /\ phase = "prompt" /\ lastcommand # <<>> => earned \/ forgotten

(* A command line comes back to the prompt, or recurses until the memory   *)
(* of the stack is full.                                                   *)
LineReturns == (phase = "running") ~> (phase = "prompt" \/ Len(stack) >= MaxCalls)
=============================================================================
