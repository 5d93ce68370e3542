------------------------------ MODULE MCPrompt -----------------------------
(***************************************************************************)
(* The prompt: one of the parts is chosen at the start and goes on for     *)
(* ever: the key strokes of a command line, the commands it runs, or       *)
(* setenv on a text with room for about one variable more than the         *)
(* defaults and with netconsole, which may fail to start.                  *)
(***************************************************************************)
EXTENDS Shell, CommandLine, SetEnv

VARIABLE part

Simple == [op |-> "simple"]
Unknown == [op |-> "unknown"]
Run(variables) == [op |-> "run", args |-> variables]
Bootd == [op |-> "bootd"]
Set(v, newLine) == [op |-> "setenv", var |-> v, line |-> newLine]
MCScript ==
    [v \in Scripts |-> CASE v = "bootcmd" -> <<Run(<<"a">>)>>
                         [] v = "a" -> <<Simple, Set("a", <<Unknown>>), Simple>>
                         [] OTHER -> NoLine]
MCCommandSet ==
    {Simple, Unknown, Bootd, Run(<<"nc">>), Run(<<"a">>), Run(<<"b">>), Run(<<"a", "b">>), Set("a", <<Unknown>>),
     Set("a", <<Bootd>>), Set("b", <<Simple, Run(<<"a">>)>>), Set("a", <<Run(<<"b">>)>>)}
MCLines ==
    {<<Run(<<"a", "b">>), Simple>>, <<Bootd, Bootd>>, <<Set("a", <<Bootd>>), Unknown>>,
     <<Set("b", <<Simple, Run(<<"a">>)>>)>>, <<Set("a", <<Run(<<"b">>)>>)>>,
     <<Simple, Simple, Simple, Simple>>}

MCValue(name) == IF name = <<"a">> THEN <<";", "$", "(", "a", ")", " ", "a", "b">> ELSE <<>>
MCChars == {"a", "b", " ", "tab", ";", "'", "$", "(", ")", "\\", "."}
MCCommands == {<<"a">>, <<"a", "b">>, <<"b", "a", "a">>, <<"b", "a", "b">>}

Device(name, start) == [name |-> name, in |-> TRUE, out |-> TRUE, start |-> start]
MCDevices == <<Device("serial", FALSE), Device("nc", TRUE)>>
MCDefaults == << << <<"baudrate">>, <<"9600">> >> >>
MCSessions ==
    {{<<"stdin">>, <<"ethaddr">>, <<"x">>, <<"x", "=", "y">>},
     {<<"baudrate">>, <<"ipaddr">>, <<"ipaddr", "=", "y">>}, {<<"loadaddr">>, <<"bootfile">>}}
MCEnvValues == {<<"nc">>, <<"1">>}
MCBaudRates == {<<"9600">>, <<"1">>}

promptVars == <<part, shellVars, lineVars, setEnvVars>>

PromptInit ==
    /\ part \in {"main_loop", "readline", "setenv"}
    /\ ShellInit /\ LineInit /\ SetEnvInit

MainLoop == part = "main_loop" /\ UNCHANGED <<part, lineVars, setEnvVars>>
Reading == part = "readline" /\ UNCHANGED <<part, shellVars, setEnvVars>>
Setting == part = "setenv" /\ UNCHANGED <<part, shellVars, lineVars>>

PromptNext ==
    \/ MainLoop /\ ShellNext
    \/ Reading /\ LineNext
    \/ Setting /\ SetEnvNext

PromptSpec == PromptInit /\ [][PromptNext]_promptVars /\ WF_promptVars(MainLoop /\ ShellRuns)

(* setenv keeps the text, what getenv reads from it and what the board     *)
(* took over in agreement; the other parts leave it as it was              *)
(* (cmd_nvedit.c).                                                         *)
SettingsAgree == part = "setenv" => EnvironmentAgrees
=============================================================================
