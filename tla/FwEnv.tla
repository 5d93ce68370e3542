------------------------------- MODULE FwEnv -------------------------------
(***************************************************************************)
(* tools/env/fw_env.c: the user-space tool that reads and updates the boot *)
(* loader's environment in flash, with one environment sector or with two  *)
(* redundant ones.  flash_io() erases and rewrites a sector in several     *)
(* steps, and every one of them may fail or be the last one before power   *)
(* is lost; env_init() then chooses, from the checksums and the flag bytes *)
(* alone, which sector to believe.                                         *)
(*                                                                         *)
(* A checksum is represented by the environment it was computed from, so   *)
(* a sector is valid exactly when its crc equals its data.  Torn is the    *)
(* data of a sector that is erased or only partly written, NoCrc the       *)
(* checksum word of an erased one; neither ever matches.                   *)
(***************************************************************************)
EXTENDS Integers, FiniteSets

CONSTANTS
    Names,          \* names of environment variables
    ReadOnlyNames,  \* "ethaddr" and "serial#"
    Vals, NoVal,    \* values; NoVal: the variable is not defined
    Capacity,       \* how many variables fit into ENV_SIZE
    Default,        \* default_environment
    Torn, NoCrc,
    HaveRedundEnv   \* two sectors (HAVE_REDUND) or one

Env == [Names -> Vals \cup {NoVal}]

active_flag == 1
obsolete_flag == 0
erased_flag == 255

(* The flag byte is part of the header only when there are two sectors.    *)
header_flag == IF HaveRedundEnv THEN active_flag ELSE erased_flag

Dev == 0..1

(* The bytes of the sector behind the environment.                         *)
TailState == {"intact", "lost"}

Sector == [crc : Env \cup {NoCrc}, flags : {active_flag, obsolete_flag, erased_flag},
           data : Env \cup {Torn}, tail : TailState]

ASSUME FwEnvAssumption ==
    /\ ReadOnlyNames \subseteq Names
    /\ NoVal \notin Vals
    /\ Default \in Env
    /\ Torn \notin Env /\ NoCrc \notin Env /\ Torn # NoCrc
    /\ HaveRedundEnv \in BOOLEAN
    /\ Capacity \in Nat

VARIABLES
    dev,      \* the two sectors
    curdev,   \* the sector env_init chose
    env,      \* environment.data, to be written
    data,     \* flash_io's copy of the sector's tail (resid bytes)
    longer,   \* the running process was given a name that goes on after a "="
    pc,       \* the next step of flash_io(O_RDWR); "idle": no process is running
    rc        \* what the last fw_setenv returned

vars == <<dev, curdev, env, data, longer, pc, rc>>

Erased == [crc |-> NoCrc, flags |-> erased_flag, data |-> Torn, tail |-> "lost"]

CrcOk(s) == s.crc = s.data

(* env_init: the sector to believe.                                        *)
EnvInitDev(d) ==
    LET ok1 == CrcOk(d[0])   flag1 == d[0].flags
        ok2 == CrcOk(d[1])   flag2 == d[1].flags
    IN  IF ~HaveRedundEnv \/ (ok1 /\ ~ok2) \/ (~ok1 /\ ~ok2) THEN 0
        ELSE IF ~ok1 THEN 1
        ELSE IF flag1 = active_flag /\ flag2 = obsolete_flag THEN 0
        ELSE IF flag1 = obsolete_flag /\ flag2 = active_flag THEN 1
        ELSE IF flag1 = flag2 THEN 0
        ELSE IF flag1 = erased_flag THEN 0
        ELSE 1

(* env_init: the environment the process then works on.                    *)
EnvInitData(d) ==
    LET s == d[EnvInitDev(d)] IN IF CrcOk(s) THEN s.data ELSE Default

(* Mutant: the redundant sector is never used.                             *)
OtherDevSame(c) == c

(* flash_io: the sector that is written; "switch to next partition".       *)
OtherDev(c) == IF HaveRedundEnv THEN 1 - c ELSE c

Defined(e) == {n \in Names : e[n] # NoVal}

(* fw_setenv's edit in memory: delete the old definition, append the new   *)
(* one unless the request is to delete.                                    *)
SetVar(e, n, v) == [e EXCEPT ![n] = v]

(* Mutant: no write-once names.                                            *)
OverwritesNever(e, n, more) == FALSE

(* The definition found is one that envmatch finds: it stops at a "=" of   *)
(* the argument, "ethaddr=x" finds that of ethaddr as "ethaddr" does.  The *)
(* refusal compares the whole argument (strcmp), so the longer one gets    *)
(* past it.                                                                *)
Overwrites(e, n, more) == n \in ReadOnlyNames /\ ~more /\ e[n] # NoVal

Overflows(e, n, v) ==
    v # NoVal /\ Cardinality(Defined(e) \ {n}) + 1 > Capacity

Init == /\ dev = [d \in Dev |-> [Erased EXCEPT !.tail = "intact"]]
        /\ curdev = 0 /\ env = Default /\ data = "lost" /\ longer = FALSE
        /\ pc = "idle" /\ rc = 0

-----------------------------------------------------------------------------
(* fw_setenv up to flash_io's first change of the flash: load, edit, open  *)
(* and unlock the devices, save the tail of the sector to be erased.  n is *)
(* the argument up to its "=", if it has one (more), and v what the new    *)
(* definition gives n: the value, with the rest of the argument before it. *)
FwSetenv(n, more, v) ==
    LET e == EnvInitData(dev) IN
    /\ pc = "idle"
    /\ IF Overwrites(e, n, more) \/ Overflows(e, n, v)
       THEN rc' = -1 /\ UNCHANGED <<dev, curdev, env, data, longer, pc>>
       ELSE /\ curdev' = EnvInitDev(dev)
            /\ env' = SetVar(e, n, v) /\ longer' = more
            /\ data' = dev[OtherDev(curdev')].tail
            /\ pc' = "erase"
            /\ UNCHANGED <<dev, rc>>

(* One completed step of flash_io(O_RDWR) each.                            *)
FlashErase ==
    /\ pc = "erase"
    /\ dev' = [dev EXCEPT ![OtherDev(curdev)] = Erased]
    /\ pc' = "header"
    /\ UNCHANGED <<curdev, env, data, longer, rc>>

FlashWriteHeader ==
    /\ pc = "header"
    /\ dev' = [dev EXCEPT ![OtherDev(curdev)] =
                  [@ EXCEPT !.crc = env,
                            !.flags = header_flag]]
    /\ pc' = "data"
    /\ UNCHANGED <<curdev, env, data, longer, rc>>

FlashWriteData ==
    /\ pc = "data"
    /\ dev' = [dev EXCEPT ![OtherDev(curdev)].data = env]
    /\ pc' = "tail"
    /\ UNCHANGED <<curdev, env, data, longer, rc>>

(* Mutant: the saved tail is not written back.                             *)
FlashWriteTailSkipped ==
    /\ pc = "tail"
    /\ pc' = IF HaveRedundEnv THEN "obsolete" ELSE "close"
    /\ UNCHANGED <<dev, curdev, env, data, longer, rc>>

FlashWriteTail ==
    /\ pc = "tail"
    /\ dev' = [dev EXCEPT ![OtherDev(curdev)].tail = data]
    /\ pc' = IF HaveRedundEnv THEN "obsolete" ELSE "close"
    /\ UNCHANGED <<curdev, env, data, longer, rc>>

FlashObsolete ==
    /\ pc = "obsolete"
    /\ dev' = [dev EXCEPT ![curdev].flags = obsolete_flag]
    /\ pc' = "close"
    /\ UNCHANGED <<curdev, env, data, longer, rc>>

(* The process ends and its memory with it.                                *)
Exit(code) ==
    /\ pc' = "idle" /\ rc' = code
    /\ curdev' = 0 /\ env' = Default /\ data' = "lost" /\ longer' = FALSE

FlashClose == pc = "close" /\ Exit(0) /\ UNCHANGED dev

(* What an erase or a write that is cut short leaves behind.  The flag     *)
(* that marks the old environment obsolete is one byte: it is either       *)
(* written or not.                                                         *)
Interrupted(s) ==
    CASE pc = "erase" ->
           {s} \cup [crc : {s.crc, NoCrc}, flags : {s.flags, erased_flag},
                     data : {Torn}, tail : {s.tail, "lost"}]
      [] pc = "header" ->
           [crc : {env, NoCrc},
            flags : {header_flag, erased_flag},
            data : {s.data}, tail : {s.tail}]
      [] OTHER -> {s}

(* An I/O error ("return (-1)"), a signal or a loss of power at any step.  *)
FlashFail ==
    /\ pc # "idle"
    /\ \E s \in Interrupted(dev[OtherDev(curdev)]) :
           dev' = [dev EXCEPT ![OtherDev(curdev)] = s]
    /\ Exit(-1)

Next == \/ \E n \in Names, more \in BOOLEAN, v \in Vals \cup {NoVal} :
               FwSetenv(n, more, v)
        \/ FlashErase \/ FlashWriteHeader \/ FlashWriteData \/ FlashWriteTail
        \/ FlashObsolete \/ FlashClose \/ FlashFail

Spec == Init /\ [][Next]_vars
-----------------------------------------------------------------------------
TypeOK == /\ dev \in [Dev -> Sector]
          /\ curdev \in Dev
          /\ env \in Env
          /\ data \in TailState /\ longer \in BOOLEAN
          /\ pc \in {"idle", "erase", "header", "data", "tail", "obsolete", "close"}
          /\ rc \in {0, -1}

(* The environment a process started now would be given.                   *)
Loaded == EnvInitData(dev)

(* The promise of AtomicEnv, read off the flash alone.                     *)
Abstract == INSTANCE AtomicEnv WITH
                store <- Loaded,
                op <- IF pc = "idle" THEN Torn ELSE env,
                None <- Torn,
                Lossy <- ~HaveRedundEnv

(* fw_env.c implements AtomicEnv: whatever step an update is cut short at, *)
(* env_init gives the environment before it or the one after it (with one  *)
(* sector: or the default), and an update that returned 0 is in effect.    *)
ImplementsAtomicEnv == Abstract!Spec

(* "Ethernet Address and serial# can be set only once": with two sectors   *)
(* the value env_init finds for them never changes again, through any      *)
(* sequence of requests and failures, unless a process is given the name   *)
(* with a "=" and more behind it.                                          *)
ReadOnlyOnce ==
    [][\A n \in ReadOnlyNames :
          HaveRedundEnv /\ Loaded[n] # NoVal /\ Loaded'[n] # Loaded[n] => longer]_vars

(* A request about to report success has put back the bytes that were      *)
(* behind the environment in the sector it erased (flash_io's resid copy). *)
TailKept == pc = "close" => dev[OtherDev(curdev)].tail = data
=============================================================================
