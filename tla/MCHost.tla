------------------------------- MODULE MCHost -------------------------------
(***************************************************************************)
(* The programs of tools/ that change a board from outside: fw_env, the    *)
(* loader over gdb's protocol and the updater, one of which is chosen at   *)
(* the start.                                                              *)
(***************************************************************************)
EXTENDS FwEnv, GdbSend, Updater

CONSTANTS bootcmd, a

VARIABLE tool

(* default_environment defines bootcmd and leaves ethaddr undefined.       *)
MCDefault == [n \in Names |-> IF n = bootcmd THEN a ELSE NoVal]

GdbImage == <<"a", "$", "#", "b", "c", "d", "e", "f">>

NewBytes == [p \in 0 .. 7 |-> IF p \in {0, 3, 7} THEN {7} ELSE IF p \in {1, 4} THEN {0} ELSE {}]
OldBytes == [p \in 0 .. 7 |-> IF p \in {0, 2, 3, 5} THEN {0, 7} ELSE IF p = 1 THEN {7} ELSE {0}]

hostVars == <<tool, vars, gdbVars, updaterVars>>

(* What does not run has one initial state only.                           *)
HostInit ==
    /\ tool \in {"fw_env", "gdbsend", "updater"} /\ Init /\ GdbInit /\ UpdaterInit
    /\ tool # "gdbsend" => stub.binary /\ ~stub.fails
    /\ tool # "updater" => chip = [kind |-> "F040B", locked |-> {}]

FwEnvTool == tool = "fw_env" /\ UNCHANGED <<tool, gdbVars, updaterVars>>
GdbTool == tool = "gdbsend" /\ UNCHANGED <<tool, vars, updaterVars>>
UpdaterTool == tool = "updater" /\ UNCHANGED <<tool, vars, gdbVars>>

HostNext ==
    \/ FwEnvTool /\ Next
    \/ GdbTool /\ GdbNext
    \/ UpdaterTool /\ UpdaterNext

(* The fairness of whichever runs; fw_setenv may be interrupted for good.  *)
HostProgress ==
    \/ GdbTool /\ GdbProgress
    \/ UpdaterTool /\ UpdaterNext

HostSpec == HostInit /\ [][HostNext]_hostVars /\ WF_hostVars(HostProgress)

(* An image sent over gdb's protocol or written by the updater is the one  *)
(* on the board when the tool says so (remote.c, updater/flash_hw.c).      *)
ImagesArrive == StubGetsImage /\ FlashIsReported

(* Either tool comes to its end, with a board that answers wrongly or not  *)
(* at all, as long as it does not send characters for ever.                *)
ToolsEnd == SendEnds /\ UpdateEnds
=============================================================================
