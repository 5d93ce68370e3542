---------------------------- MODULE HostProofs ----------------------------
(***************************************************************************)
(* TLAPS proofs about the programs of tools/: fw_env keeps its invariant,  *)
(* implements AtomicEnv and keeps write-once names; the updater and the    *)
(* loader over gdb's protocol bring the image to the board.  They hold for *)
(* any names, values, capacity, image, packet size and flash, and for any  *)
(* losses on the line that are fewer than the tries.                       *)
(***************************************************************************)
EXTENDS MCHost, SequenceTheorems, WellFoundedInduction, NaturalsInduction, TLAPS

-----------------------------------------------------------------------------
(* fw_env.                                                                 *)

(* Steps after which the new environment is completely written.            *)
WholeWritten == {"tail", "obsolete", "close"}

(* What the flash holds while flash_io is between two of its steps.        *)
Progress ==
    LET o == OtherDev(curdev) IN
    /\ ~HaveRedundEnv => curdev = 0 /\ pc # "obsolete"
    /\ pc = "erase" => curdev = EnvInitDev(dev)
    /\ pc \in {"header", "data"} => dev[o].data = Torn
    /\ pc \in {"data"} \cup WholeWritten => dev[o].crc = env
    /\ pc \in {"data"} \cup WholeWritten /\ HaveRedundEnv => dev[o].flags = active_flag
    /\ pc \in WholeWritten => dev[o].data = env
    /\ pc = "close" /\ HaveRedundEnv => dev[curdev].flags = obsolete_flag

IInv == TypeOK /\ Progress /\ TailKept /\ (pc = "obsolete" => dev[OtherDev(curdev)].tail = data)

USE FwEnvAssumption DEF active_flag, obsolete_flag, erased_flag, Dev, TailState

(* The sector flash_io writes is one of the two, and not the one in use    *)
(* when there are two.                                                     *)
LEMMA OtherDevType ==
    ASSUME NEW c \in Dev
    PROVE  /\ OtherDev(c) \in Dev
           /\ HaveRedundEnv => OtherDev(c) # c /\ Dev = {c, OtherDev(c)}
           /\ ~HaveRedundEnv => OtherDev(c) = c
  BY DEF OtherDev

(* env_init chooses one of the two sectors, the first one when there is    *)
(* no second.                                                              *)
LEMMA EnvInitDevType ==
    ASSUME NEW d
    PROVE  EnvInitDev(d) \in Dev /\ (~HaveRedundEnv => EnvInitDev(d) = 0)
  BY DEF EnvInitDev

(* env_init always hands out a well-formed environment.                    *)
LEMMA EnvInitDataType ==
    ASSUME NEW d \in [Dev -> Sector]
    PROVE  EnvInitData(d) \in Env
  <1>1. EnvInitDev(d) \in Dev
    BY EnvInitDevType
  <1>2. d[EnvInitDev(d)] \in Sector
    BY <1>1
  <1>3. CASE CrcOk(d[EnvInitDev(d)])
    BY <1>2, <1>3 DEF EnvInitData, CrcOk, Sector
  <1>4. CASE ~CrcOk(d[EnvInitDev(d)])
    BY <1>4 DEF EnvInitData
  <1> QED
    BY <1>3, <1>4

(* An edited environment is well formed.                                   *)
LEMMA SetVarType ==
    ASSUME NEW e \in Env, NEW n \in Names, NEW v \in Vals \cup {NoVal}
    PROVE  SetVar(e, n, v) \in Env
  BY DEF SetVar, Env

(* The flag byte a rewritten header gets is one of the three flag values.  *)
LEMMA HeaderFlagType == header_flag \in {active_flag, obsolete_flag, erased_flag}
  BY DEF header_flag

(* The initial state satisfies the inductive invariant.                    *)
LEMMA InitIInv == Init => IInv
  <1> SUFFICES ASSUME Init PROVE IInv
    OBVIOUS
  <1>1. [Erased EXCEPT !.tail = "intact"] \in Sector
    BY DEF Erased, Sector
  <1>2. TypeOK
    <2>1. longer \in BOOLEAN
      BY DEF Init
    <2> QED
      BY <1>1, <2>1 DEF Init, TypeOK
  <1> QED
    BY <1>2 DEF Init, IInv, Progress, TailKept, WholeWritten

(* Every step preserves the types.                                         *)
LEMMA NextTypeOK == TypeOK /\ [Next]_vars => TypeOK'
  <1> SUFFICES ASSUME TypeOK, [Next]_vars PROVE TypeOK'
    OBVIOUS
  <1> DEFINE o == OtherDev(curdev)
  <1>o. o \in Dev /\ dev[o] \in Sector /\ dev[curdev] \in Sector
    BY OtherDevType DEF TypeOK
  <1>1. CASE \E n \in Names, more \in BOOLEAN, v \in Vals \cup {NoVal} :
                FwSetenv(n, more, v)
    <2>1. PICK n \in Names, more \in BOOLEAN, v \in Vals \cup {NoVal} :
              FwSetenv(n, more, v)
      BY <1>1
    <2>2. CASE Overwrites(EnvInitData(dev), n, more) \/ Overflows(EnvInitData(dev), n, v)
      BY <2>1, <2>2 DEF FwSetenv, TypeOK
    <2>3. CASE ~(Overwrites(EnvInitData(dev), n, more) \/ Overflows(EnvInitData(dev), n, v))
      <3>1. /\ curdev' = EnvInitDev(dev) /\ env' = SetVar(EnvInitData(dev), n, v)
            /\ data' = dev[OtherDev(curdev')].tail /\ pc' = "erase"
            /\ dev' = dev /\ rc' = rc /\ longer' = more
        BY <2>1, <2>3 DEF FwSetenv
      <3>2. curdev' \in Dev
        BY <3>1, EnvInitDevType
      <3>3. env' \in Env
        BY <3>1, EnvInitDataType, SetVarType DEF TypeOK
      <3>4. OtherDev(curdev') \in Dev
        BY <3>2, OtherDevType
      <3>5. data' \in TailState
        BY <3>1, <3>4 DEF TypeOK, Sector
      <3> QED
        BY <3>1, <3>2, <3>3, <3>5 DEF TypeOK
    <2> QED
      BY <2>2, <2>3
  <1>2. CASE FlashErase
    <2>1. Erased \in Sector
      BY DEF Erased, Sector
    <2> QED
      BY <2>1, <1>2, <1>o DEF FlashErase, TypeOK
  <1>3. CASE FlashWriteHeader
    <2>1. [dev[o] EXCEPT !.crc = env,
                         !.flags = header_flag] \in Sector
      BY <1>o, HeaderFlagType DEF TypeOK, Sector
    <2> QED
      BY <2>1, <1>3, <1>o DEF FlashWriteHeader, TypeOK
  <1>4. CASE FlashWriteData
    <2>1. [dev[o] EXCEPT !.data = env] \in Sector
      BY <1>o DEF TypeOK, Sector
    <2> QED
      BY <2>1, <1>4, <1>o DEF FlashWriteData, TypeOK
  <1>5. CASE FlashWriteTail
    <2>1. [dev[o] EXCEPT !.tail = data] \in Sector
      BY <1>o DEF TypeOK, Sector
    <2> QED
      BY <2>1, <1>5, <1>o DEF FlashWriteTail, TypeOK
  <1>6. CASE FlashObsolete
    <2>1. [dev[curdev] EXCEPT !.flags = obsolete_flag] \in Sector
      BY <1>o DEF TypeOK, Sector
    <2> QED
      BY <2>1, <1>6, <1>o DEF FlashObsolete, TypeOK
  <1>7. CASE FlashClose
    <2>1. longer' \in BOOLEAN
      BY <1>7 DEF FlashClose, Exit
    <2> QED
      BY <1>7, <2>1 DEF FlashClose, Exit, TypeOK
  <1>8. CASE FlashFail
    <2>1. \A s \in Interrupted(dev[o]) : s \in Sector
      <3> SUFFICES ASSUME NEW s \in Interrupted(dev[o]) PROVE s \in Sector
        OBVIOUS
      <3>1. CASE pc = "erase"
        BY <3>1, <1>o DEF Interrupted, TypeOK, Sector
      <3>2. CASE pc = "header"
        BY <3>2, <1>o, HeaderFlagType DEF Interrupted, TypeOK, Sector
      <3>3. CASE pc \notin {"erase", "header"}
        BY <3>3, <1>o DEF Interrupted
      <3> QED
        BY <3>1, <3>2, <3>3
    <2>2. PICK s \in Interrupted(dev[o]) : dev' = [dev EXCEPT ![o] = s]
      BY <1>8 DEF FlashFail
    <2>3. dev' \in [Dev -> Sector]
      BY <2>1, <2>2, <1>o DEF TypeOK
    <2> QED
      <3>1. longer' \in BOOLEAN
        BY <1>8 DEF FlashFail, Exit
      <3> QED
        BY <2>3, <3>1, <1>8 DEF FlashFail, Exit, TypeOK
  <1>9. CASE UNCHANGED vars
    BY <1>9 DEF vars, TypeOK
  <1> QED
    BY <1>1, <1>2, <1>3, <1>4, <1>5, <1>6, <1>7, <1>8, <1>9 DEF Next

(* Types are respected: fw_env.c never leaves a sector, a flag or a return *)
(* code outside the values it is meant to have.                            *)
THEOREM TypeCorrect == Spec => []TypeOK
  <1>1. Init => TypeOK
    BY InitIInv DEF IInv
  <1> QED
    BY <1>1, NextTypeOK, PTL DEF Spec

-----------------------------------------------------------------------------
(* Every step preserves what the flash holds between two steps.            *)
LEMMA NextIInv == IInv /\ [Next]_vars => IInv'
  <1> SUFFICES ASSUME IInv, [Next]_vars PROVE IInv'
    OBVIOUS
  <1> DEFINE o == OtherDev(curdev)
  <1>t. TypeOK /\ TypeOK'
    BY NextTypeOK DEF IInv
  <1>o. o \in Dev /\ dev[o] \in Sector /\ dev[curdev] \in Sector
    BY <1>t, OtherDevType DEF TypeOK
  <1>1. CASE \E n \in Names, more \in BOOLEAN, v \in Vals \cup {NoVal} :
                FwSetenv(n, more, v)
    <2>1. PICK n \in Names, more \in BOOLEAN, v \in Vals \cup {NoVal} :
              FwSetenv(n, more, v)
      BY <1>1
    <2>2. CASE Overwrites(EnvInitData(dev), n, more) \/ Overflows(EnvInitData(dev), n, v)
      <3>1. UNCHANGED <<dev, curdev, env, data, longer, pc>>
        BY <2>1, <2>2 DEF FwSetenv
      <3> QED
        BY <3>1, <1>t DEF IInv, Progress, TailKept
    <2>3. CASE ~(Overwrites(EnvInitData(dev), n, more) \/ Overflows(EnvInitData(dev), n, v))
      <3>1. curdev' = EnvInitDev(dev) /\ pc' = "erase" /\ dev' = dev
        BY <2>1, <2>3 DEF FwSetenv
      <3> QED
        BY <3>1, <1>t, EnvInitDevType DEF IInv, Progress, TailKept, WholeWritten
    <2> QED
      BY <2>2, <2>3
  <1>2. CASE FlashErase
    <2>1. /\ pc' = "header" /\ curdev' = curdev /\ env' = env /\ data' = data
          /\ dev'[o] = Erased
      BY <1>2, <1>o, <1>t DEF FlashErase, TypeOK
    <2>2. Erased.data = Torn
      BY DEF Erased
    <2> QED
      BY <2>1, <2>2, <1>t DEF IInv, Progress, TailKept, WholeWritten
  <1>3. CASE FlashWriteHeader
    <2>1. /\ pc = "header" /\ pc' = "data" /\ curdev' = curdev /\ env' = env
          /\ dev'[o].crc = env /\ dev'[o].flags = header_flag
          /\ dev'[o].data = dev[o].data
      BY <1>3, <1>o, <1>t DEF FlashWriteHeader, TypeOK, Sector
    <2>2. HaveRedundEnv => header_flag = active_flag
      BY DEF header_flag
    <2> QED
      BY <2>1, <2>2, <1>t DEF IInv, Progress, TailKept, WholeWritten
  <1>4. CASE FlashWriteData
    <2>1. /\ pc = "data" /\ pc' = "tail" /\ curdev' = curdev /\ env' = env
          /\ dev'[o].crc = dev[o].crc /\ dev'[o].flags = dev[o].flags
          /\ dev'[o].data = env
      BY <1>4, <1>o, <1>t DEF FlashWriteData, TypeOK, Sector
    <2> QED
      BY <2>1, <1>t DEF IInv, Progress, TailKept, WholeWritten
  <1>5. CASE FlashWriteTail
    <2>1. /\ pc = "tail" /\ pc' \in {"obsolete", "close"}
          /\ pc' = "close" <=> ~HaveRedundEnv
          /\ curdev' = curdev /\ env' = env /\ data' = data
          /\ dev'[o].crc = dev[o].crc /\ dev'[o].flags = dev[o].flags
          /\ dev'[o].data = dev[o].data /\ dev'[o].tail = data
      BY <1>5, <1>o, <1>t DEF FlashWriteTail, TypeOK, Sector
    <2> QED
      BY <2>1, <1>t DEF IInv, Progress, TailKept, WholeWritten
  <1>6. CASE FlashObsolete
    <2>1. /\ pc = "obsolete" /\ pc' = "close" /\ HaveRedundEnv
          /\ curdev' = curdev /\ env' = env /\ data' = data
      BY <1>6 DEF FlashObsolete, IInv, Progress
    <2>2. o # curdev
      BY <2>1, <1>t, OtherDevType DEF TypeOK
    <2>3. dev'[o] = dev[o] /\ dev'[curdev].flags = obsolete_flag
      BY <1>6, <2>2, <1>o, <1>t DEF FlashObsolete, TypeOK, Sector
    <2> QED
      BY <2>1, <2>3, <1>t DEF IInv, Progress, TailKept, WholeWritten
  <1>7. CASE FlashClose \/ FlashFail
    <2>1. pc' = "idle" /\ curdev' = 0
      BY <1>7 DEF FlashClose, FlashFail, Exit
    <2> QED
      BY <2>1, <1>t DEF IInv, Progress, TailKept, WholeWritten
  <1>8. CASE UNCHANGED vars
    BY <1>8, <1>t DEF vars, IInv, Progress, TailKept
  <1> QED
    BY <1>1, <1>2, <1>3, <1>4, <1>5, <1>6, <1>7, <1>8 DEF Next

(* The inductive invariant holds throughout.                               *)
LEMMA Invariance == Spec => []IInv
  BY InitIInv, NextIInv, PTL DEF Spec

(* The bytes behind the environment are back in their sector before        *)
(* fw_setenv reports success.                                              *)
THEOREM TailSafe == Spec => []TailKept
  <1>1. IInv => TailKept
    BY DEF IInv
  <1> QED
    BY <1>1, Invariance, PTL

-----------------------------------------------------------------------------
(* A sector's content as env_init sees it: what it holds if its checksum   *)
(* matches, and the default environment otherwise.                         *)
Content(s) == IF CrcOk(s) THEN s.data ELSE Default

(* With two sectors, env_init ignores a sector whose checksum is wrong.    *)
LEMMA BadSectorIgnored ==
    ASSUME HaveRedundEnv, NEW d, NEW c \in Dev, ~CrcOk(d[OtherDev(c)])
    PROVE  EnvInitData(d) = Content(d[c])
  <1>1. CASE c = 0
    BY <1>1 DEF EnvInitData, EnvInitDev, Content, OtherDev
  <1>2. CASE c = 1
    BY <1>2 DEF EnvInitData, EnvInitDev, Content, OtherDev
  <1> QED
    BY <1>1, <1>2

(* The sector env_init chose is what it reads, and stays so when the other *)
(* one becomes unreadable.                                                 *)
LEMMA ChosenSector ==
    ASSUME NEW d
    PROVE  EnvInitData(d) = Content(d[EnvInitDev(d)])
  BY DEF EnvInitData, Content

(* A good new sector next to any old one: env_init gives one of the two.   *)
LEMMA OldOrNew ==
    ASSUME HaveRedundEnv, NEW d, NEW c \in Dev, CrcOk(d[OtherDev(c)])
    PROVE  EnvInitData(d) \in {Content(d[c]), d[OtherDev(c)].data}
  <1>1. CASE c = 0
    BY <1>1 DEF EnvInitData, EnvInitDev, Content, OtherDev
  <1>2. CASE c = 1
    BY <1>2 DEF EnvInitData, EnvInitDev, Content, OtherDev
  <1> QED
    BY <1>1, <1>2

(* A good active sector next to an obsolete one is the one env_init takes. *)
LEMMA ActiveWins ==
    ASSUME HaveRedundEnv, NEW d, NEW c \in Dev, CrcOk(d[OtherDev(c)]),
           d[OtherDev(c)].flags = active_flag, d[c].flags = obsolete_flag
    PROVE  EnvInitData(d) = d[OtherDev(c)].data
  <1>1. CASE c = 0
    BY <1>1 DEF EnvInitData, EnvInitDev, OtherDev
  <1>2. CASE c = 1
    BY <1>2 DEF EnvInitData, EnvInitDev, OtherDev
  <1> QED
    BY <1>1, <1>2

(* With one sector env_init reads that sector.                             *)
LEMMA SingleSector ==
    ASSUME ~HaveRedundEnv, NEW d
    PROVE  EnvInitData(d) = Content(d[0])
  BY DEF EnvInitData, EnvInitDev, Content

(* env_init's answer depends on checksum, flags and data only.             *)
LEMMA TailIrrelevant ==
    ASSUME NEW d1, NEW d2,
           \A k \in Dev : /\ d1[k].crc = d2[k].crc
                          /\ d1[k].flags = d2[k].flags
                          /\ d1[k].data = d2[k].data
    PROVE  EnvInitData(d1) = EnvInitData(d2)
  <1>1. \A k \in Dev : CrcOk(d1[k]) = CrcOk(d2[k])
    BY DEF CrcOk
  <1>2. EnvInitDev(d1) = EnvInitDev(d2)
    BY <1>1 DEF EnvInitDev
  <1> QED
    BY <1>1, <1>2, EnvInitDevType DEF EnvInitData

(* A sector with Torn data is never valid.                                 *)
LEMMA TornIsBad ==
    ASSUME NEW s \in Sector, s.data = Torn
    PROVE  ~CrcOk(s)
  BY DEF CrcOk, Sector

(* What env_init would answer before and after each step of flash_io.      *)
LEMMA FlashView ==
    ASSUME IInv, TypeOK', pc # "idle",
           FlashErase \/ FlashWriteHeader \/ FlashWriteData \/ FlashWriteTail
             \/ FlashObsolete
    PROVE  /\ Loaded' \in {Loaded, env} \/ (~HaveRedundEnv /\ Loaded' = Default)
           /\ UNCHANGED <<env, rc>> /\ pc' # "idle"
  <1> DEFINE o == OtherDev(curdev)
  <1>t. TypeOK /\ curdev \in Dev /\ o \in Dev
    BY OtherDevType DEF IInv, TypeOK
  <1>o. /\ dev[o] \in Sector /\ dev[curdev] \in Sector
        /\ dev'[o] \in Sector /\ dev'[curdev] \in Sector
    BY <1>t DEF TypeOK
  <1>s. ~HaveRedundEnv => curdev = 0 /\ o = 0
    BY <1>t, OtherDevType DEF IInv, Progress
  <1>r. HaveRedundEnv => o # curdev
    BY <1>t, OtherDevType
  <1>1. CASE FlashErase
    <2>1. dev'[o] = Erased /\ (HaveRedundEnv => dev'[curdev] = dev[curdev])
      BY <1>1, <1>t, <1>r DEF FlashErase, TypeOK
    <2>2. ~CrcOk(dev'[o])
      BY <2>1, <1>o, TornIsBad DEF Erased
    <2>3. curdev = EnvInitDev(dev)
      BY <1>1 DEF FlashErase, IInv, Progress
    <2>4. CASE HaveRedundEnv
      <3>1. EnvInitData(dev') = Content(dev'[curdev])
        BY <2>2, <2>4, <1>t, BadSectorIgnored
      <3>2. EnvInitData(dev) = Content(dev[curdev])
        BY <2>3, ChosenSector
      <3> QED
        BY <3>1, <3>2, <2>1, <2>4, <1>1 DEF Loaded, FlashErase
    <2>5. CASE ~HaveRedundEnv
      BY <2>2, <2>5, <1>s, <1>1, SingleSector DEF Loaded, FlashErase, Content
    <2> QED
      BY <2>4, <2>5
  <1>2. CASE FlashWriteHeader
    <2>1. /\ dev'[o].data = dev[o].data
          /\ HaveRedundEnv => dev'[curdev] = dev[curdev]
      BY <1>2, <1>t, <1>o, <1>r DEF FlashWriteHeader, TypeOK, Sector
    <2>2. dev[o].data = Torn
      BY <1>2 DEF FlashWriteHeader, IInv, Progress
    <2>3. ~CrcOk(dev[o]) /\ ~CrcOk(dev'[o])
      BY <2>1, <2>2, <1>o, TornIsBad
    <2>4. CASE HaveRedundEnv
      <3>1. EnvInitData(dev') = Content(dev'[curdev])
        BY <2>3, <2>4, <1>t, BadSectorIgnored
      <3>2. EnvInitData(dev) = Content(dev[curdev])
        BY <2>3, <2>4, <1>t, BadSectorIgnored
      <3> QED
        BY <3>1, <3>2, <2>1, <2>4, <1>2 DEF Loaded, FlashWriteHeader
    <2>5. CASE ~HaveRedundEnv
      BY <2>3, <2>5, <1>s, <1>2, SingleSector DEF Loaded, FlashWriteHeader, Content
    <2> QED
      BY <2>4, <2>5
  <1>3. CASE FlashWriteData
    <2>1. /\ dev'[o].data = env /\ dev'[o].crc = dev[o].crc
          /\ HaveRedundEnv => dev'[curdev] = dev[curdev]
      BY <1>3, <1>t, <1>o, <1>r DEF FlashWriteData, TypeOK, Sector
    <2>2. dev[o].data = Torn /\ dev[o].crc = env
      BY <1>3 DEF FlashWriteData, IInv, Progress
    <2>3. ~CrcOk(dev[o]) /\ CrcOk(dev'[o])
      BY <2>1, <2>2, <1>o, TornIsBad DEF CrcOk
    <2>4. CASE HaveRedundEnv
      <3>1. EnvInitData(dev') \in {Content(dev'[curdev]), dev'[o].data}
        BY <2>3, <2>4, <1>t, OldOrNew
      <3>2. EnvInitData(dev) = Content(dev[curdev])
        BY <2>3, <2>4, <1>t, BadSectorIgnored
      <3> QED
        BY <3>1, <3>2, <2>1, <2>4, <1>3 DEF Loaded, FlashWriteData
    <2>5. CASE ~HaveRedundEnv
      BY <2>1, <2>3, <2>5, <1>s, <1>3, SingleSector DEF Loaded, FlashWriteData, Content
    <2> QED
      BY <2>4, <2>5
  <1>4. CASE FlashWriteTail
    <2>1. \A k \in Dev : /\ dev'[k].crc = dev[k].crc
                         /\ dev'[k].flags = dev[k].flags
                         /\ dev'[k].data = dev[k].data
      BY <1>4, <1>t, <1>o DEF FlashWriteTail, TypeOK, Sector
    <2>2. EnvInitData(dev') = EnvInitData(dev)
      BY <2>1, TailIrrelevant
    <2> QED
      BY <2>2, <1>4 DEF Loaded, FlashWriteTail
  <1>5. CASE FlashObsolete
    <2>1. HaveRedundEnv
      BY <1>5 DEF FlashObsolete, IInv, Progress
    <2>2. dev'[o] = dev[o] /\ dev'[curdev].flags = obsolete_flag
      BY <1>5, <1>t, <1>o, <1>r, <2>1 DEF FlashObsolete, TypeOK, Sector
    <2>3. dev[o].crc = env /\ dev[o].data = env /\ dev[o].flags = active_flag
      BY <1>5, <2>1 DEF FlashObsolete, IInv, Progress, WholeWritten
    <2>4. EnvInitData(dev') = dev'[o].data
      BY <2>1, <2>2, <2>3, <1>t, ActiveWins DEF CrcOk
    <2> QED
      BY <2>2, <2>3, <2>4, <1>5 DEF Loaded, FlashObsolete
  <1> QED
    BY <1>1, <1>2, <1>3, <1>4, <1>5

(* When fw_setenv reports success, env_init gives the new environment.     *)
LEMMA CloseView ==
    ASSUME IInv, FlashClose
    PROVE  Loaded = env
  <1> DEFINE o == OtherDev(curdev)
  <1>t. curdev \in Dev /\ o \in Dev
    BY OtherDevType DEF IInv, TypeOK
  <1>1. dev[o].crc = env /\ dev[o].data = env
    BY DEF FlashClose, IInv, Progress, WholeWritten
  <1>2. CASE HaveRedundEnv
    <2>1. dev[o].flags = active_flag /\ dev[curdev].flags = obsolete_flag
      BY <1>2 DEF FlashClose, IInv, Progress, WholeWritten
    <2> QED
      BY <1>1, <1>2, <2>1, <1>t, ActiveWins DEF CrcOk, Loaded
  <1>3. CASE ~HaveRedundEnv
    <2>1. o = 0
      BY <1>3, <1>t, OtherDevType DEF IInv, Progress
    <2> QED
      BY <1>1, <1>3, <2>1, SingleSector DEF Content, CrcOk, Loaded
  <1> QED
    BY <1>2, <1>3

(* A failure at any step, with whatever the interrupted step leaves in the *)
(* sector, changes nothing for env_init; with one sector it may leave the  *)
(* default environment.                                                    *)
LEMMA FailView ==
    ASSUME IInv, TypeOK', FlashFail
    PROVE  Loaded' = Loaded \/ (~HaveRedundEnv /\ Loaded' = Default)
  <1> DEFINE o == OtherDev(curdev)
  <1>t. TypeOK /\ curdev \in Dev /\ o \in Dev
    BY OtherDevType DEF IInv, TypeOK
  <1>o. /\ dev[o] \in Sector /\ dev[curdev] \in Sector
        /\ dev'[o] \in Sector /\ dev'[curdev] \in Sector
    BY <1>t DEF TypeOK
  <1>s. ~HaveRedundEnv => o = 0
    BY <1>t, OtherDevType DEF IInv, Progress
  <1>r. HaveRedundEnv => o # curdev
    BY <1>t, OtherDevType
  <1>1. PICK s \in Interrupted(dev[o]) : dev' = [dev EXCEPT ![o] = s]
    BY DEF FlashFail
  <1>2. dev'[o] = s /\ (HaveRedundEnv => dev'[curdev] = dev[curdev])
    BY <1>1, <1>t, <1>r DEF TypeOK
  <1>3. CASE s = dev[o]
    <2>1. dev' = dev
      BY <1>1, <1>3, <1>t DEF TypeOK
    <2> QED
      BY <2>1 DEF Loaded
  <1>4. CASE s # dev[o]
    <2>1. pc \in {"erase", "header"}
      BY <1>1, <1>4 DEF Interrupted
    <2>2. s.data = Torn
      <3>1. CASE pc = "erase"
        BY <3>1, <1>1, <1>4 DEF Interrupted
      <3>2. CASE pc = "header"
        <4>1. dev[o].data = Torn
          BY <3>2 DEF IInv, Progress
        <4> QED
          BY <3>2, <4>1, <1>1 DEF Interrupted
      <3> QED
        BY <2>1, <3>1, <3>2
    <2>3. ~CrcOk(dev'[o])
      BY <2>2, <1>2, <1>o, TornIsBad
    <2>4. CASE HaveRedundEnv
      <3>1. EnvInitData(dev') = Content(dev'[curdev])
        BY <2>3, <2>4, <1>t, BadSectorIgnored
      <3>2. EnvInitData(dev) = Content(dev[curdev])
        <4>1. CASE pc = "erase"
          BY <4>1, ChosenSector DEF IInv, Progress
        <4>2. CASE pc = "header"
          <5>1. ~CrcOk(dev[o])
            BY <4>2, <1>o, TornIsBad DEF IInv, Progress
          <5> QED
            BY <5>1, <2>4, <1>t, BadSectorIgnored
        <4> QED
          BY <2>1, <4>1, <4>2
      <3> QED
        BY <3>1, <3>2, <1>2, <2>4 DEF Loaded
    <2>5. CASE ~HaveRedundEnv
      BY <2>3, <2>5, <1>s, SingleSector DEF Loaded, Content
    <2> QED
      BY <2>4, <2>5
  <1> QED
    BY <1>3, <1>4

-----------------------------------------------------------------------------
(* Every step of fw_env.c is a step of AtomicEnv or changes nothing of it. *)
LEMMA StepRefines ==
    IInv /\ TypeOK' /\ [Next]_vars => [Abstract!Next]_(Abstract!vars)
  <1> SUFFICES ASSUME IInv, TypeOK', [Next]_vars
               PROVE  Abstract!Next \/ UNCHANGED Abstract!vars
    OBVIOUS
  <1> DEFINE op == IF pc = "idle" THEN Torn ELSE env
  <1>t. TypeOK /\ env \in Env /\ env # Torn /\ env' # Torn
    BY DEF IInv, TypeOK
  <1>1. CASE \E n \in Names, more \in BOOLEAN, v \in Vals \cup {NoVal} :
                FwSetenv(n, more, v)
    <2>1. PICK n \in Names, more \in BOOLEAN, v \in Vals \cup {NoVal} :
              FwSetenv(n, more, v)
      BY <1>1
    <2>2. pc = "idle" /\ dev' = dev /\ Loaded' = Loaded
      BY <2>1 DEF FwSetenv, Loaded
    <2>3. CASE Overwrites(EnvInitData(dev), n, more) \/ Overflows(EnvInitData(dev), n, v)
      <3>1. Abstract!Refuse
        BY <2>1, <2>2, <2>3 DEF FwSetenv, Abstract!Refuse
      <3> QED
        BY <3>1 DEF Abstract!Next
    <2>4. CASE ~(Overwrites(EnvInitData(dev), n, more) \/ Overflows(EnvInitData(dev), n, v))
      <3>1. env' = [Loaded EXCEPT ![n] = v] /\ pc' = "erase" /\ rc' = rc
        BY <2>1, <2>4 DEF FwSetenv, SetVar, Loaded
      <3>2. Abstract!Begin
        BY <2>2, <3>1 DEF Abstract!Begin
      <3> QED
        BY <3>2 DEF Abstract!Next
    <2> QED
      BY <2>3, <2>4
  <1>2. CASE FlashErase \/ FlashWriteHeader \/ FlashWriteData \/ FlashWriteTail
               \/ FlashObsolete
    <2>1. pc # "idle"
      BY <1>2 DEF FlashErase, FlashWriteHeader, FlashWriteData, FlashWriteTail,
                  FlashObsolete
    <2>2. /\ Loaded' \in {Loaded, env} \/ (~HaveRedundEnv /\ Loaded' = Default)
          /\ UNCHANGED <<env, rc>> /\ pc' # "idle"
      BY <1>2, <2>1, FlashView
    <2>3. op' = op /\ op # Torn
      BY <2>1, <2>2, <1>t
    <2>4. CASE Loaded' = Loaded
      BY <2>2, <2>3, <2>4 DEF Abstract!vars
    <2>5. CASE Loaded' = env
      <3>1. Abstract!Commit
        BY <2>1, <2>2, <2>3, <2>5 DEF Abstract!Commit
      <3> QED
        BY <3>1 DEF Abstract!Next
    <2>6. CASE ~HaveRedundEnv /\ Loaded' = Default
      <3>1. Abstract!Lose
        BY <2>1, <2>2, <2>3, <2>6 DEF Abstract!Lose
      <3> QED
        BY <3>1 DEF Abstract!Next
    <2> QED
      BY <2>2, <2>4, <2>5, <2>6
  <1>3. CASE FlashClose
    <2>1. pc # "idle" /\ pc' = "idle" /\ rc' = 0 /\ Loaded' = Loaded
      BY <1>3 DEF FlashClose, Exit, Loaded
    <2>2. Loaded = env
      BY <1>3, CloseView
    <2>3. Abstract!Finish
      BY <2>1, <2>2, <1>t DEF Abstract!Finish
    <2> QED
      BY <2>3 DEF Abstract!Next
  <1>4. CASE FlashFail
    <2>1. pc # "idle" /\ pc' = "idle" /\ rc' = -1
      BY <1>4 DEF FlashFail, Exit
    <2>2. Loaded' = Loaded \/ (~HaveRedundEnv /\ Loaded' = Default)
      BY <1>4, FailView
    <2>3. Abstract!Finish
      BY <2>1, <2>2, <1>t DEF Abstract!Finish
    <2> QED
      BY <2>3 DEF Abstract!Next
  <1>5. CASE UNCHANGED vars
    BY <1>5 DEF vars, Abstract!vars, Loaded
  <1> QED
    BY <1>1, <1>2, <1>3, <1>4, <1>5 DEF Next

(* The blank flash is AtomicEnv's initial state.                           *)
LEMMA InitRefines == Init => Abstract!Init
  <1> SUFFICES ASSUME Init PROVE Abstract!Init
    OBVIOUS
  <1>1. \A k \in Dev : dev[k] \in Sector /\ dev[k].data = Torn
    BY DEF Init, Erased, Sector
  <1>2. \A k \in Dev : ~CrcOk(dev[k])
    BY <1>1, TornIsBad
  <1>3. Loaded = Default
    BY <1>2, EnvInitDevType DEF Loaded, EnvInitData
  <1> QED
    BY <1>3 DEF Init, Abstract!Init

(* fw_env.c implements AtomicEnv: an update is all or nothing whatever     *)
(* step of flash_io it is cut short at, and in effect once it returned 0.  *)
THEOREM Refinement == Spec => ImplementsAtomicEnv
  <1>1. IInv => TypeOK
    BY DEF IInv
  <1> QED
    BY <1>1, InitRefines, StepRefines, Invariance, PTL
    DEF Spec, ImplementsAtomicEnv, Abstract!Spec

(* With two sectors the environment being written agrees with the one in   *)
(* flash on every write-once name that is defined, unless it is written    *)
(* for a name that goes on after a "=".                                    *)
ReadOnlyInv ==
    HaveRedundEnv /\ pc # "idle" /\ ~longer =>
        \A n \in ReadOnlyNames : Loaded[n] # NoVal => env[n] = Loaded[n]

(* One step keeps both the agreement and the value of a write-once name.   *)
LEMMA ReadOnlyStep ==
    IInv /\ TypeOK' /\ ReadOnlyInv /\ [Next]_vars =>
        /\ ReadOnlyInv'
        /\ \A n \in ReadOnlyNames :
              HaveRedundEnv /\ Loaded[n] # NoVal /\ Loaded'[n] # Loaded[n] => longer
  <1> SUFFICES ASSUME IInv, TypeOK', ReadOnlyInv, [Next]_vars, HaveRedundEnv
               PROVE  /\ ReadOnlyInv'
                      /\ \A n \in ReadOnlyNames :
                            Loaded[n] # NoVal /\ Loaded'[n] # Loaded[n] => longer
    BY DEF ReadOnlyInv
  <1>1. CASE \E n \in Names, more \in BOOLEAN, v \in Vals \cup {NoVal} :
                FwSetenv(n, more, v)
    <2>1. PICK n \in Names, more \in BOOLEAN, v \in Vals \cup {NoVal} :
              FwSetenv(n, more, v)
      BY <1>1
    <2>2. pc = "idle" /\ Loaded' = Loaded
      BY <2>1 DEF FwSetenv, Loaded
    <2>3. CASE pc' = "idle"
      BY <2>2, <2>3 DEF ReadOnlyInv
    <2>4. CASE pc' # "idle"
      <3>1. env' = SetVar(Loaded, n, v) /\ longer' = more /\ ~Overwrites(Loaded, n, more)
        BY <2>1, <2>2, <2>4 DEF FwSetenv, Loaded
      <3>2. Loaded \in Env
        BY EnvInitDataType DEF Loaded, IInv, TypeOK
      <3>3. ~more => \A k \in ReadOnlyNames : Loaded[k] # NoVal => env'[k] = Loaded[k]
        BY <3>1, <3>2 DEF SetVar, Overwrites, Env
      <3> QED
        BY <2>2, <3>1, <3>3 DEF ReadOnlyInv
    <2> QED
      BY <2>3, <2>4
  <1>2. CASE FlashErase \/ FlashWriteHeader \/ FlashWriteData \/ FlashWriteTail
               \/ FlashObsolete
    <2>1. pc # "idle"
      BY <1>2 DEF FlashErase, FlashWriteHeader, FlashWriteData, FlashWriteTail,
                  FlashObsolete
    <2>2. Loaded' \in {Loaded, env} /\ env' = env
      BY <1>2, <2>1, FlashView
    <2>3. longer' = longer
      BY <1>2 DEF FlashErase, FlashWriteHeader, FlashWriteData, FlashWriteTail,
                  FlashObsolete
    <2> QED
      BY <2>1, <2>2, <2>3 DEF ReadOnlyInv
  <1>3. CASE FlashClose
    BY <1>3 DEF FlashClose, Exit, Loaded, ReadOnlyInv
  <1>4. CASE FlashFail
    <2>1. Loaded' = Loaded
      BY <1>4, FailView
    <2> QED
      BY <2>1, <1>4 DEF FlashFail, Exit, ReadOnlyInv
  <1>5. CASE UNCHANGED vars
    BY <1>5 DEF vars, Loaded, ReadOnlyInv
  <1> QED
    BY <1>1, <1>2, <1>3, <1>4, <1>5 DEF Next

(* "Ethernet Address and serial# can be set only once", through any        *)
(* sequence of requests, failures and power losses, with two sectors and   *)
(* whatever the names and values, as long as no name is given with a "=";  *)
(* a longer one, which envmatch stops in and strcmp does not, changes it   *)
(* in the step that replaces the sector and in no other request's.         *)
THEOREM ReadOnlySafe == Spec => ReadOnlyOnce
  <1>1. Init => ReadOnlyInv
    BY DEF Init, ReadOnlyInv
  <1>2. IInv => TypeOK
    BY DEF IInv
  <1> QED
    BY <1>1, <1>2, ReadOnlyStep, Invariance, PTL DEF Spec, ReadOnlyOnce

HIDE FwEnvAssumption DEF active_flag, obsolete_flag, erased_flag, Dev, TailState

-----------------------------------------------------------------------------
LEMMA LeastNumber ==
    ASSUME NEW T \in SUBSET Nat, T # {}
    PROVE  \E x \in T : \A y \in T : x <= y
<1> DEFINE Less == {ss \in Nat \X Nat : ss[1] < ss[2]}
<1>1. IsWellFoundedOn(Less, Nat)
    BY NatLessThanWellFounded DEF OpToRel
<1>2. PICK x \in T : \A y \in T : ~(<<y, x>> \in Less)
    BY <1>1, WFMin
<1>3. \A y \in T : <<y, x>> \in Less <=> y < x
    BY <1>2
<1>4. x \in Nat /\ T \subseteq Nat
    BY <1>2
<1> HIDE DEF Less
<1>5. \A y \in T : ~(y < x)
    BY <1>2, <1>3
<1> QED
    BY <1>4, <1>5

-----------------------------------------------------------------------------
(* The updater of tools/updater.                                           *)

(* Of numbers below n there is a greatest: the one with the least distance *)
(* from n.                                                                 *)
LEMMA GreatestExists ==
    ASSUME NEW n \in Nat, NEW S \in SUBSET (0 .. n), S # {}
    PROVE  \E s \in S : \A t \in S : t <= s
<1> DEFINE Distances == {n - s : s \in S}
<1>1. \A s \in S : n - s \in Nat
    OBVIOUS
<1>2. Distances \subseteq Nat
    BY <1>1
<1>3. Distances # {}
    OBVIOUS
<1>4. PICK d \in Distances : \A e \in Distances : d <= e
    BY <1>2, <1>3, LeastNumber
<1>5. PICK s \in S : d = n - s
    OBVIOUS
<1>6. ASSUME NEW t \in S PROVE t <= s
  <2>1. n - s <= n - t
    BY <1>4, <1>5
  <2> QED
    BY <2>1
<1> QED
    BY <1>6

LEMMA GreatestIn ==
    ASSUME NEW n \in Nat, NEW S \in SUBSET (0 .. n)
    PROVE  Greatest(S) \in S \cup {-1}
<1>1. \E s \in S \cup {-1} : \A t \in S : t <= s
    BY GreatestExists
<1> QED
    BY <1>1 DEF Greatest

LEMMA UpdaterSizes ==
    /\ {SectorCount, SectorSize, WordSize, FlashBase} \subseteq Nat \ {0}
    /\ FlashSize \in Nat \ {0} /\ count \in Nat /\ count = FlashSize - 1
<1>1. SectorCount * SectorSize \in Nat \ {0}
    BY UpdaterAssumption
<1> QED
    BY <1>1, UpdaterAssumption DEF FlashSize, count

(* From one multiple of the word to the next is a word.                    *)
LEMMA WholeWords ==
    ASSUME NEW w \in Nat \ {0}, NEW k \in Nat, NEW n \in Nat, n % w = 0, w * k < n
    PROVE  w * k + w <= n /\ w * k + w = w * (k + 1)
<1> DEFINE q == n \div w
<1>1. n = w * q /\ q \in Nat
    OBVIOUS
<1> HIDE DEF q
<1>2. k < q
  <2>1. SUFFICES ASSUME q <= k PROVE FALSE
    BY <1>1
  <2>2. w * (k - q) >= 0
    BY <1>1, <2>1
  <2> QED
    BY <1>1, <2>2
<1>3. w * (q - k - 1) >= 0
    BY <1>1, <1>2
<1> QED
    BY <1>1, <1>3

(* The inductive invariant: what is before the place of the next write is  *)
(* written, whichever sectors were erased, and a write ends well only at   *)
(* the end of the image.                                                   *)
Chips == [kind : {"F040B", "LV160T", "no device", "no manufacturer"}, locked : SUBSET SectorIds]
Infos == [known : BOOLEAN, count : {0, SectorCount}, size : {0, FlashSize}, start : [SectorIds -> Int], protect : SUBSET SectorIds]
Updaters == [at : {"init", "unprotect", "erase", "write", "protect", "done"}, wp : 0 .. FlashSize, rc : {0, 1, 2, 4, 8}]
UpdaterTypes == chip \in Chips /\ info \in Infos /\ updater \in Updaters /\ cells \in [Places -> SUBSET Bits]

WrittenSoFar == \A p \in 0 .. count - 1 : p < updater.wp => cells[p] = ImageAt[p] \/ SectorOf(p) \in chip.locked
TailKeeps == \A p \in count .. FlashSize - 1 : cells[p] \in {Bits, OldCells[p]}
UpdaterInv ==
    /\ UpdaterTypes /\ XdGivenBack /\ WrittenSoFar /\ TailKeeps
    /\ \E k \in Nat : updater.wp = WordSize * k
    /\ updater.at \in {"init", "unprotect", "erase"} => updater.wp = 0
    /\ updater.at \in {"protect", "done"} /\ updater.rc = 0 => updater.wp >= count

LEMMA RangeIn == ASSUME UpdaterTypes PROVE SectorRange \subseteq SectorIds
<1>1. info.count \in {0, SectorCount} /\ SectorCount \in Nat \ {0}
    BY UpdaterSizes DEF UpdaterTypes, Infos
<1> DEFINE known == IF info.known THEN 0 .. info.count - 1 ELSE {}
           F == {s \in known : InRange(s) /\ info.start[s] = first}
           L == {s \in known : InRange(s) /\ SectorEnd(s) = last}
<1>2. known \subseteq SectorIds /\ known \subseteq 0 .. SectorCount
    BY <1>1 DEF SectorIds
<1>3. Bounds = <<Greatest(F), Greatest(L)>>
    BY DEF Bounds
<1>4. F \in SUBSET (0 .. SectorCount) /\ L \in SUBSET (0 .. SectorCount) /\ F \subseteq known /\ L \subseteq known
    BY <1>2
<1> HIDE DEF F, L
<1>5. Greatest(F) \in known \cup {-1} /\ Greatest(L) \in known \cup {-1}
    BY <1>1, <1>4, GreatestIn
<1>6. Greatest(F) \in SectorIds \cup {-1} /\ Greatest(L) \in SectorIds \cup {-1}
    BY <1>2, <1>5
<1> QED
    BY <1>1, <1>3, <1>6 DEF SectorRange, SectorIds

LEMMA InitUpdater == UpdaterInit => UpdaterInv
<1> SUFFICES ASSUME UpdaterInit PROVE UpdaterInv
    OBVIOUS
<1>1. chip \in Chips
    BY DEF UpdaterInit, Chips
<1>2. updater \in Updaters /\ updater.wp = 0 /\ updater.at = "init"
  <2>1. updater = [at |-> "init", wp |-> 0, rc |-> 0]
    BY DEF UpdaterInit
  <2>2. 0 \in 0 .. FlashSize
    BY UpdaterSizes
  <2> QED
    BY <2>1, <2>2 DEF Updaters
<1>3. [s \in SectorIds |-> 0] \in [SectorIds -> Int]
    OBVIOUS
<1>4. info \in Infos
    BY <1>3 DEF UpdaterInit, Infos, NoFlash
<1>5. cells = OldCells /\ cells \in [Places -> SUBSET Bits] /\ nest = 0
    BY UpdaterAssumption DEF UpdaterInit
<1>6. WrittenSoFar /\ TailKeeps
    BY <1>2, <1>5, UpdaterSizes DEF WrittenSoFar, TailKeeps
<1>7. 0 \in Nat /\ updater.wp = WordSize * 0
    BY <1>2, UpdaterSizes
<1> QED
    BY <1>1, <1>2, <1>4, <1>5, <1>6, <1>7 DEF UpdaterInv, UpdaterTypes, XdGivenBack

(* The bytes of the word at the place of the next write are in the flash,  *)
(* and after them comes another word or the end.                           *)
LEMMA WordFits ==
    ASSUME UpdaterInv, updater.wp < count
    PROVE  /\ updater.wp \in Nat /\ NextWord \in 0 .. FlashSize
           /\ \E k \in Nat : NextWord = WordSize * k
<1>1. PICK k \in Nat : updater.wp = WordSize * k
    BY DEF UpdaterInv
<1>2. updater.wp \in Nat /\ updater.wp < FlashSize
    BY UpdaterSizes DEF UpdaterInv, UpdaterTypes, Updaters
<1>3. WordSize \in Nat \ {0} /\ FlashSize \in Nat /\ FlashSize % WordSize = 0
    BY UpdaterSizes, UpdaterAssumption
<1>4. WordSize * k < FlashSize
    BY <1>1, <1>2
<1>5. WordSize * k + WordSize <= FlashSize /\ WordSize * k + WordSize = WordSize * (k + 1)
    BY <1>3, <1>4, WholeWords
<1>6. NextWord = WordSize * (k + 1) /\ k + 1 \in Nat
    BY <1>1, <1>5 DEF NextWord
<1>7. NextWord <= FlashSize /\ NextWord \in Nat
    BY <1>1, <1>2, <1>3, <1>5 DEF NextWord
<1> QED
    BY <1>2, <1>3, <1>6, <1>7

LEMMA ProgrammedIs ==
    ASSUME UpdaterInv, NEW p \in Places, ErasedEnough(p)
    PROVE  /\ Programmed(p) \in SUBSET Bits
           /\ p < count => Programmed(p) = ImageAt[p] \/ SectorOf(p) \in chip.locked
           /\ p >= count => Programmed(p) = cells[p]
<1>1. cells[p] \in SUBSET Bits /\ ImageAt[p] \in SUBSET Bits
    BY UpdaterAssumption DEF UpdaterInv, UpdaterTypes
<1>2. p \in Int /\ count \in Int
    BY UpdaterSizes DEF Places
<1>3. WordData(p) \subseteq cells[p] /\ cells[p] \cap WordData(p) = WordData(p)
    BY DEF ErasedEnough
<1>4. Programmed(p) = IF SectorOf(p) \in chip.locked THEN cells[p] ELSE WordData(p)
    BY <1>3 DEF Programmed
<1>5. WordData(p) = IF p < count THEN ImageAt[p] ELSE cells[p]
    BY DEF WordData
<1> QED
    BY <1>1, <1>2, <1>4, <1>5

LEMMA UpdaterStep == UpdaterInv /\ [UpdaterNext]_updaterVars => UpdaterInv'
<1> SUFFICES ASSUME UpdaterInv, [UpdaterNext]_updaterVars PROVE UpdaterInv'
    OBVIOUS
<1> USE DEF UpdaterInv
<1>t. UpdaterTypes
    OBVIOUS
<1>s. /\ SectorCount \in Nat \ {0} /\ FlashSize \in Nat \ {0} /\ WordSize \in Nat \ {0}
      /\ count \in Nat /\ count = FlashSize - 1
    BY UpdaterSizes
<1>1. CASE flash_init
  <2>1. chip.locked \in SUBSET SectorIds
    BY <1>t DEF UpdaterTypes, Chips
  <2>2. [s \in SectorIds |-> 0] \in [SectorIds -> Int]
    OBVIOUS
  <2>3. NoFlash \in Infos
    BY <2>2 DEF NoFlash, Infos
  <2>4. [NoFlash EXCEPT !.known = TRUE, !.count = SectorCount, !.size = FlashSize] \in Infos
    BY <2>3 DEF Infos
  <2>5. [s \in SectorIds |-> FlashBase + s * (FlashSize \div SectorCount)] \in [SectorIds -> Int]
    <3>1. FlashSize \div SectorCount \in Int /\ FlashBase \in Int
      BY <1>s, UpdaterSizes
    <3>2. \A s \in SectorIds : s \in Int
      BY <1>s DEF SectorIds
    <3> QED
      BY <3>1, <3>2
  <2>6. [known |-> TRUE, count |-> SectorCount, size |-> FlashSize,
         start |-> [s \in SectorIds |-> FlashBase + s * (FlashSize \div SectorCount)],
         protect |-> chip.locked \cup MonitorSectors] \in Infos
    BY <2>1, <2>5, UpdaterAssumption DEF Infos
  <2>7. flash_get_size \in Infos
    BY <2>3, <2>4, <2>6 DEF flash_get_size
  <2>8. updater.at = "init" /\ updater' = [updater EXCEPT !.at = "unprotect"] /\ info' \in Infos
        /\ nest' = GetSizeNest /\ UNCHANGED <<chip, cells>>
    BY <1>1, <2>7 DEF flash_init
  <2>9. updater' \in Updaters /\ updater'.wp = updater.wp /\ updater'.at = "unprotect"
    BY <1>t, <2>8 DEF UpdaterTypes, Updaters
  <2> QED
    BY <1>t, <2>8, <2>9 DEF UpdaterTypes, XdGivenBack, GetSizeNest, WrittenSoFar, TailKeeps
<1>2. ASSUME NEW on \in BOOLEAN, NEW to \in {"erase", "done"}, flash_sect_protect(on), updater' = [updater EXCEPT !.at = to],
             UNCHANGED <<chip, cells, nest>>,
             IF to = "erase" THEN updater.at = "unprotect" ELSE updater.at = "protect"
      PROVE  UpdaterInv'
  <2>1. SectorRange \subseteq SectorIds
    BY <1>t, RangeIn
  <2>2. info.protect \in SUBSET SectorIds
    BY <1>t DEF UpdaterTypes, Infos
  <2>3. info' = [info EXCEPT !.protect = IF on THEN @ \cup SectorRange ELSE @ \ SectorRange]
    BY <1>2 DEF flash_sect_protect
  <2>4. info' \in Infos
    BY <1>t, <2>1, <2>2, <2>3 DEF UpdaterTypes, Infos
  <2>5. updater' \in Updaters /\ updater'.wp = updater.wp /\ updater'.rc = updater.rc /\ updater'.at = to
    BY <1>t, <1>2 DEF UpdaterTypes, Updaters
  <2> QED
    BY <1>t, <1>2, <2>4, <2>5 DEF UpdaterTypes, XdGivenBack, WrittenSoFar, TailKeeps
<1>3. CASE Unprotect
    BY <1>2, <1>3 DEF Unprotect
<1>4. CASE Protect
    BY <1>2, <1>4 DEF Protect
<1>5. CASE flash_erase
  <2>1. PICK S : cells' = ErasedCells(S)
    BY <1>5 DEF flash_erase
  <2>2. /\ updater.at = "erase" /\ updater' = [updater EXCEPT !.at = "write"] /\ nest' = nest
        /\ UNCHANGED <<chip, info>>
    BY <1>5 DEF flash_erase, EraseNest
  <2>3. updater' \in Updaters /\ updater'.wp = 0 /\ updater'.at = "write" /\ updater.wp = 0
    BY <1>t, <2>2 DEF UpdaterTypes, Updaters
  <2>4. cells' \in [Places -> SUBSET Bits] /\ \A p \in Places : cells'[p] \in {Bits, cells[p]}
    BY <1>t, <2>1 DEF UpdaterTypes, ErasedCells
  <2>5. count .. FlashSize - 1 \subseteq Places
    BY <1>s DEF Places
  <2>6. TailKeeps'
    BY <2>4, <2>5 DEF TailKeeps
  <2>7. WrittenSoFar'
    BY <1>s, <2>3 DEF WrittenSoFar
  <2> QED
    BY <1>t, <2>2, <2>3, <2>4, <2>6, <2>7 DEF UpdaterTypes, XdGivenBack
<1>6. ASSUME NEW code \in {1, 2, 4, 8}, updater.at = "write", Finish(code), UNCHANGED <<chip, info, nest>>,
             cells' \in [Places -> SUBSET Bits], WrittenSoFar', TailKeeps'
      PROVE  UpdaterInv'
  <2>1. updater' \in Updaters /\ updater'.wp = updater.wp /\ updater'.at = "protect" /\ updater'.rc # 0
    <3>1. updater' = [updater EXCEPT !.at = "protect", !.rc = code] /\ code \in {0, 1, 2, 4, 8} /\ code # 0
      BY <1>6 DEF Finish
    <3>2. updater \in Updaters
      BY <1>t DEF UpdaterTypes
    <3> QED
      BY <3>1, <3>2 DEF Updaters
  <2> QED
    BY <1>t, <1>6, <2>1 DEF UpdaterTypes, XdGivenBack
<1>7. ASSUME NEW code \in {0, 1, 2, 4, 8}, Finish(code), UNCHANGED <<chip, info, cells, nest>>
      PROVE  cells' \in [Places -> SUBSET Bits] /\ WrittenSoFar' /\ TailKeeps'
  <2>1. updater'.wp = updater.wp
    BY <1>t, <1>7 DEF Finish, UpdaterTypes, Updaters
  <2> QED
    BY <1>t, <1>7, <2>1 DEF UpdaterTypes, WrittenSoFar, TailKeeps
<1>8. CASE RefuseWrite
  <2>1. WriteRefused \in {4, 8}
    BY <1>8 DEF RefuseWrite, WriteRefused
  <2> QED
    BY <1>6, <1>7, <1>8, <2>1 DEF RefuseWrite
<1>9. CASE NotErased
    BY <1>6, <1>7, <1>9 DEF NotErased
<1>10. CASE WriteEnds
  <2>1. /\ updater.at = "write" /\ updater.wp >= count /\ Finish(0) /\ UNCHANGED <<chip, info, cells, nest>>
    BY <1>10 DEF WriteEnds
  <2>2. updater' \in Updaters /\ updater'.wp = updater.wp /\ updater'.at = "protect"
    BY <1>t, <2>1 DEF Finish, UpdaterTypes, Updaters
  <2> QED
    BY <1>t, <1>7, <2>1, <2>2 DEF UpdaterTypes, XdGivenBack
<1>11. ASSUME updater.at = "write", updater.wp < count
       PROVE  /\ updater.wp \in Nat /\ NextWord \in 0 .. FlashSize /\ NextWord = updater.wp + WordSize
              /\ \E k \in Nat : NextWord = WordSize * k
              /\ \A p \in Word : p \in Places /\ p >= updater.wp /\ p < NextWord
  <2>1. updater.wp \in Nat /\ NextWord \in 0 .. FlashSize /\ \E k \in Nat : NextWord = WordSize * k
    BY <1>11, WordFits
  <2>2. NextWord = updater.wp + WordSize
    BY DEF NextWord
  <2>3. \A p \in Word : p \in Places /\ p >= updater.wp /\ p < NextWord
    BY <1>s, <2>1, <2>2 DEF Word, Places
  <2> QED
    BY <2>1, <2>2, <2>3
<1>12. CASE WriteWord
  <2>1. /\ updater.at = "write" /\ updater.wp < count /\ \A p \in Word : ErasedEnough(p)
        /\ cells' = [p \in Places |-> IF p \in Word THEN Programmed(p) ELSE cells[p]]
        /\ updater' = [updater EXCEPT !.wp = NextWord] /\ UNCHANGED <<chip, info, nest>>
    BY <1>12 DEF WriteWord
  <2>2. /\ updater.wp \in Nat /\ NextWord \in 0 .. FlashSize /\ NextWord = updater.wp + WordSize
        /\ \E k \in Nat : NextWord = WordSize * k
        /\ \A p \in Word : p \in Places /\ p >= updater.wp /\ p < NextWord
    BY <1>11, <2>1
  <2>3. updater' \in Updaters /\ updater'.wp = NextWord /\ updater'.at = "write"
    BY <1>t, <2>1, <2>2 DEF UpdaterTypes, Updaters
  <2>4. \A p \in Places : p \in Word =>
            /\ Programmed(p) \in SUBSET Bits
            /\ p < count => Programmed(p) = ImageAt[p] \/ SectorOf(p) \in chip.locked
            /\ p >= count => Programmed(p) = cells[p]
    BY <2>1, ProgrammedIs
  <2>5. cells' \in [Places -> SUBSET Bits]
    BY <1>t, <2>1, <2>4 DEF UpdaterTypes
  <2>6. ASSUME NEW p \in 0 .. count - 1, p < NextWord
        PROVE  cells'[p] = ImageAt[p] \/ SectorOf(p) \in chip.locked
    <3>1. p \in Places /\ p \in Int /\ p < count
      BY <1>s DEF Places
    <3>2. CASE p \in Word
      BY <2>1, <2>4, <3>1, <3>2
    <3>3. CASE p \notin Word
      <4>1. p < updater.wp
        BY <1>s, <2>2, <2>6, <3>1, <3>3 DEF Word
      <4> QED
        BY <2>1, <3>1, <3>3, <4>1 DEF WrittenSoFar
    <3> QED
      BY <3>2, <3>3
  <2>7. ASSUME NEW p \in count .. FlashSize - 1 PROVE cells'[p] \in {Bits, OldCells[p]}
    <3>1. p \in Places /\ p >= count
      BY <1>s DEF Places
    <3>2. cells'[p] = cells[p]
      BY <2>1, <2>4, <3>1
    <3> QED
      BY <3>2 DEF TailKeeps
  <2>8. WrittenSoFar' /\ TailKeeps'
    BY <2>1, <2>3, <2>6, <2>7 DEF WrittenSoFar, TailKeeps
  <2> QED
    BY <1>t, <2>1, <2>2, <2>3, <2>5, <2>8 DEF UpdaterTypes, XdGivenBack
<1>13. CASE WriteTimeout
  <2>1. /\ updater.at = "write" /\ updater.wp < count /\ \A p \in Word : ErasedEnough(p)
        /\ Finish(1) /\ UNCHANGED <<chip, info, nest>>
    BY <1>13 DEF WriteTimeout
  <2>2. PICK p \in Word : \E b \in {cells[p], Programmed(p)} :
            cells' = [q \in Places |-> IF q \in Word /\ q < p THEN Programmed(q) ELSE IF q = p THEN b ELSE cells[q]]
    BY <1>13 DEF WriteTimeout
  <2>3. \A q \in Word : q \in Places /\ q >= updater.wp
    BY <1>11, <2>1
  <2>4. \A q \in Places : q \in Word =>
            Programmed(q) \in SUBSET Bits /\ (q >= count => Programmed(q) = cells[q])
    BY <2>1, ProgrammedIs
  <2>5. \A q \in Places : cells[q] \in SUBSET Bits
    BY <1>t DEF UpdaterTypes
  <2>6. cells' \in [Places -> SUBSET Bits]
    BY <2>2, <2>3, <2>4, <2>5
  <2>7. updater'.wp = updater.wp /\ updater.wp \in Int
    BY <1>t, <2>1 DEF Finish, UpdaterTypes, Updaters
  <2>8. ASSUME NEW q \in 0 .. count - 1, q < updater.wp PROVE cells'[q] = cells[q]
    <3>1. q \in Places /\ q \notin Word /\ q # p
      BY <1>s, <2>3, <2>7, <2>8 DEF Places
    <3> QED
      BY <2>2, <3>1
  <2>9. ASSUME NEW q \in count .. FlashSize - 1 PROVE cells'[q] = cells[q]
    <3>1. q \in Places /\ q >= count
      BY <1>s DEF Places
    <3> QED
      BY <2>2, <2>4, <3>1
  <2>10. WrittenSoFar' /\ TailKeeps'
    BY <2>1, <2>7, <2>8, <2>9 DEF WrittenSoFar, TailKeeps
  <2> QED
    BY <1>6, <2>1, <2>6, <2>10
<1>14. CASE UNCHANGED updaterVars
    BY <1>14 DEF updaterVars, UpdaterTypes, XdGivenBack, WrittenSoFar, TailKeeps
<1> QED
    BY <1>1, <1>3, <1>4, <1>5, <1>8, <1>9, <1>10, <1>12, <1>13, <1>14 DEF UpdaterNext

LEMMA UpdaterReports == UpdaterInv => FlashIsReported
<1> SUFFICES ASSUME UpdaterInv PROVE FlashIsReported
    OBVIOUS
<1>1. UpdaterTypeOK
    BY DEF UpdaterInv, UpdaterTypes, UpdaterTypeOK, Updaters, Infos
<1>2. ReportedIsWritten
    BY UpdaterSizes DEF UpdaterInv, UpdaterTypes, Updaters, ReportedIsWritten, WrittenSoFar
<1>3. TailUntouched /\ XdGivenBack
    BY DEF UpdaterInv, TailUntouched, TailKeeps
<1> QED
    BY <1>1, <1>2, <1>3 DEF FlashIsReported

-------------------------------------------------------------------------
-----------------------------------------------------------------------------
(* The loader over gdb's protocol.                                         *)

(* What the code asks of an image (the FIXME of remote.c:563): a packet    *)
(* that escapes cut short has a length of as many digits as was planned.   *)
NoDigitIsLost == \A done \in 0 .. Len(Image) - 1, binary \in BOOLEAN : LostDigits(done, binary) = 0

Tokens == [kind : {"+", "-", "noise", "$"}, op : {"", "X", "M", "c", "empty", "E", "OK"}, from : Nat,
           bytes : Seq(ImageBytes), good : BOOLEAN]
Hosts == [at : {"start", "ack", "junk", "reply", "done", "failed"}, doing : {"probe", "write", "continue"},
          done : 0 .. Len(Image), binary : BOOLEAN, refused : BOOLEAN, timeouts : 0 .. PutTries,
          tries : 1 .. MAX_TRIES, docont : BOOLEAN]
Stubs == [last : {"none", "empty", "E", "OK"}, binary : BOOLEAN, fails : BOOLEAN, runs : BOOLEAN, dead : BOOLEAN]

HasMore(h) == h.doing = "write" /\ h.at # "done" => h.done < Len(Image)
GdbTypes ==
    /\ host \in Hosts /\ HasMore(host) /\ stub \in Stubs
    /\ toStub \in Seq(Tokens) /\ toHost \in Seq(Tokens)
    /\ memory \in [Addresses -> ImageBytes \cup {Blank}] /\ faults \in 0 .. MaxFaults

(* What follows holds as long as the stub listens.                         *)
Alive == ~stub.dead /\ ~stub.runs
Inert(t) == t.kind \in {"+", "noise"}
IsPacket(t, p) == t.op = p.op /\ t.from = p.from /\ t.bytes = p.bytes

(* What the stub answers to a packet other than "c", and what it has done  *)
(* once the packet of the loader has reached it.                           *)
Answer(p) ==
    IF p.op = "X" /\ ~stub.binary THEN "empty"
    ELSE IF stub.fails /\ p.bytes # <<>> THEN "E" ELSE "OK"
Holds(from, to) == \A k \in from .. to : memory[k] = Image[k]
Obeyed ==
    /\ host.doing # "continue" /\ stub.last = Answer(PacketOf(host))
    /\ host.doing = "write" /\ stub.last = "OK" =>
           Holds(host.done + 1, host.done + Taken(host.done, host.binary))

(* Memory holds what the loader counts as done, unless it was refused.     *)
SentIsHeld(h) ==
    /\ ~h.refused => Holds(1, h.done)
    /\ h.doing = "write" /\ h.binary => stub.binary
    /\ h.doing = "continue" => h.docont /\ (~h.refused => h.done = Len(Image))

(* The line to the stub: of what the stub reacts to there is one token at  *)
(* most, and none while an answer is under way.                            *)
ToStubOK ==
    /\ \A i \in 1 .. Len(toStub) : toStub[i].kind = "$" => host.at = "ack" /\ IsPacket(toStub[i], PacketOf(host))
    /\ \A i \in 1 .. Len(toStub) : toStub[i].kind = "-" => Obeyed
    /\ \A i, j \in 1 .. Len(toStub) : ~Inert(toStub[i]) /\ ~Inert(toStub[j]) => i = j
    /\ toHost # <<>> => \A i \in 1 .. Len(toStub) : Inert(toStub[i])

(* The line to the loader: an acknowledgement, with the answer behind it,  *)
(* or what was left of the two.                                            *)
ToHostOK ==
    /\ Len(toHost) <= 2
    /\ \A i \in 1 .. Len(toHost) : toHost[i].kind = "$" => i = Len(toHost) /\ toHost[i].op = stub.last /\ Obeyed
    /\ \A i \in 1 .. Len(toHost) : toHost[i].kind = "+" => i = 1 /\ Len(toHost) = 2 /\ toHost[2].good
    /\ Len(toHost) = 2 => toHost[2].kind = "$"
    /\ host.at \in {"junk", "reply"} => Obeyed /\ \A i \in 1 .. Len(toHost) : toHost[i].kind = "$"
    /\ host.at \in {"start", "done", "failed"} => toHost = <<>> /\ \A i \in 1 .. Len(toStub) : Inert(toStub[i])

(* Every try of either loop is paid for by a fault.                        *)
AckUnderWay ==
    \/ \E i \in 1 .. Len(toStub) : toStub[i].kind = "$" /\ toStub[i].good
    \/ \E i \in 1 .. Len(toHost) : toHost[i].kind = "+"
ReplyUnderWay ==
    \/ \E i \in 1 .. Len(toStub) : toStub[i].kind = "-"
    \/ \E i \in 1 .. Len(toHost) : toHost[i].kind = "$" /\ toHost[i].good
Counted ==
    /\ host.at = "ack" => host.timeouts <= faults /\ (AckUnderWay \/ host.timeouts < faults)
    /\ host.at = "junk" => host.timeouts < faults
    /\ host.at = "reply" => host.tries <= faults + 1 /\ (ReplyUnderWay \/ host.tries <= faults)

AliveOK ==
    Alive => /\ SentIsHeld(host) /\ ToStubOK /\ ToHostOK /\ Counted
             /\ host.at = "start" => host.doing = "probe" /\ host.done = 0

GdbInv == GdbTypes /\ InPlace /\ RunsTheImage /\ AliveOK

LEMMA ImageIs ==
    /\ Image \in Seq(ImageBytes) /\ Len(Image) \in Nat \ {0}
    /\ \A k \in Addresses : Image[k] \in ImageBytes
    /\ DOMAIN Image = Addresses /\ Addresses = 1 .. Len(Image)
<1>1. Image \in Seq(ImageBytes) /\ Image # <<>>
    BY GdbAssumption
<1>2. Len(Image) \in Nat \ {0} /\ DOMAIN Image = 1 .. Len(Image)
    BY <1>1, EmptySeq, LenProperties
<1>3. \A k \in 1 .. Len(Image) : Image[k] \in ImageBytes
    BY <1>1, ElementOfSeq
<1> QED
    BY <1>1, <1>2, <1>3 DEF Addresses

LEMMA TokenType == ASSUME NEW kind \in {"+", "-", "noise"} PROVE Token(kind) \in Tokens /\ Token(kind).kind = kind
<1>1. <<>> \in Seq(ImageBytes)
    BY EmptySeq
<1> QED
    BY <1>1 DEF Token, Tokens

LEMMA DamagedType ==
    ASSUME NEW t \in Tokens
    PROVE  /\ Damaged(t) \in Tokens
           /\ t.kind = "$" => Damaged(t).kind = "$" /\ ~Damaged(t).good /\ IsPacket(Damaged(t), t)
           /\ t.kind # "$" => Damaged(t).kind = "noise"
<1>1. CASE t.kind = "$"
    BY <1>1 DEF Damaged, Tokens, IsPacket
<1>2. CASE t.kind # "$"
    BY <1>2, TokenType DEF Damaged
<1> QED
    BY <1>1, <1>2

(* Some of what is planned is taken: the escapes before the first byte are *)
(* none.                                                                   *)
LEMMA TakenIn ==
    ASSUME NEW done \in 0 .. Len(Image), NEW binary \in BOOLEAN
    PROVE  Taken(done, binary) \in 0 .. Len(Image) - done
<1> DEFINE n == Planned(done, binary)
<1>1. n \in 0 .. Len(Image) - done
  <2>1. MaxBuf \in Nat /\ MaxBuf \div 2 \in Nat
    BY HeaderLeavesRoom
  <2>2. Len(Image) - done \in Nat
    BY ImageIs
  <2> QED
    BY <2>1, <2>2 DEF Planned, Smaller
<1>2. CASE ~binary
    BY <1>1, <1>2 DEF Taken
<1>3. CASE binary
  <2> DEFINE Stops == {i \in 0 .. n : i = n \/ ~Fits(done, i + 1)}
  <2>1. Stops \in SUBSET Nat /\ n \in Stops
    BY <1>1
  <2>2. PICK i \in Stops : \A k \in Stops : i <= k
    BY <2>1, LeastNumber
  <2>3. i \in 0 .. n /\ (i = n \/ ~Fits(done, i + 1))
    BY <2>2
  <2>4. ASSUME NEW j \in 1 .. i PROVE Fits(done, j)
    <3>1. j - 1 \in 0 .. n /\ j - 1 < i /\ j - 1 # n /\ (j - 1) + 1 = j
      BY <1>1, <2>3
    <3>2. j - 1 \notin Stops
      BY <2>2, <3>1
    <3> QED
      BY <3>1, <3>2
  <2>5. \E c \in 0 .. n : (\A j \in 1 .. c : Fits(done, j)) /\ (c = n \/ ~Fits(done, c + 1))
    BY <2>3, <2>4
  <2> DEFINE c == CHOOSE c \in 0 .. n : (\A j \in 1 .. c : Fits(done, j)) /\ (c = n \/ ~Fits(done, c + 1))
  <2>6. c \in 0 .. n
    BY <2>5
  <2>7. Taken(done, binary) = c
    BY <1>3 DEF Taken
  <2> HIDE DEF c, n
  <2> QED
    BY <1>1, <2>6, <2>7, ImageIs
<1> QED
    BY <1>2, <1>3

LEMMA PieceOf ==
    ASSUME NEW S, NEW s \in Seq(S), NEW d \in Nat, NEW n \in Nat, d + n <= Len(s)
    PROVE  /\ SubSeq(s, d + 1, d + n) \in Seq(S) /\ Len(SubSeq(s, d + 1, d + n)) = n
           /\ \A i \in 1 .. n : SubSeq(s, d + 1, d + n)[i] = s[d + i]
<1>1. d + 1 \in Int /\ d + n \in Int /\ d + 1 \in 1 .. Len(s) + 1
    OBVIOUS
<1>2. SubSeq(s, d + 1, d + n) \in Seq(S)
    BY <1>1
<1>3. Len(SubSeq(s, d + 1, d + n)) = n
    BY <1>1
<1>4. \A i \in 1 .. n : SubSeq(s, d + 1, d + n)[i] = s[d + i]
    BY <1>1
<1> QED
    BY <1>2, <1>3, <1>4

(* The packet of the loader: its bytes belong where it puts them.          *)
LEMMA PacketIs ==
    ASSUME NoDigitIsLost, NEW h \in Hosts, HasMore(h), h.at # "done"
    PROVE  /\ PacketOf(h) \in Tokens /\ PacketOf(h).kind = "$" /\ PacketOf(h).good
           /\ h.doing = "continue" <=> PacketOf(h).op = "c"
           /\ h.doing # "write" => PacketOf(h).bytes = <<>> /\ PacketOf(h).from = 1
           /\ h.doing = "probe" => PacketOf(h).op = "X"
           /\ h.doing = "write" =>
                /\ PacketOf(h).op = IF h.binary THEN "X" ELSE "M"
                /\ PacketOf(h).from = h.done + 1 /\ Taken(h.done, h.binary) \in 0 .. Len(Image) - h.done
                /\ Len(PacketOf(h).bytes) = Taken(h.done, h.binary)
                /\ \A k \in 1 .. Taken(h.done, h.binary) : PacketOf(h).bytes[k] = Image[h.done + k]
<1>1. <<>> \in Seq(ImageBytes) /\ 1 \in Nat
    BY EmptySeq
<1>2. CASE h.doing = "probe"
  <2>1. PacketOf(h) = Packet("X", 1, <<>>)
    BY <1>2 DEF PacketOf
  <2> QED
    BY <1>1, <1>2, <2>1 DEF Packet, Tokens
<1>3. CASE h.doing = "continue"
  <2>1. PacketOf(h) = Packet("c", 1, <<>>)
    BY <1>3 DEF PacketOf
  <2> QED
    BY <1>1, <1>3, <2>1 DEF Packet, Tokens
<1>4. CASE h.doing = "write"
  <2> DEFINE d == h.done  n == Taken(h.done, h.binary)
             piece == SubSeq(Image, d + 1, d + n)
             colons == [i \in 1 .. LostDigits(d, h.binary) |-> ":"]
  <2>1. d \in 0 .. Len(Image) - 1 /\ h.binary \in BOOLEAN /\ Len(Image) \in Nat
    BY <1>4, ImageIs DEF Hosts, HasMore
  <2>2. n \in 0 .. Len(Image) - d
    BY <2>1, TakenIn
  <2>3. LostDigits(d, h.binary) = 0
    BY <2>1 DEF NoDigitIsLost
  <2>4. colons = <<>>
    BY <2>3
  <2>5. PacketOf(h) = Packet(IF h.binary THEN "X" ELSE "M", d + 1, SubSeq(colons \o piece, 1, n))
    BY <1>4 DEF PacketOf, Chunk
  <2> HIDE DEF d, n, colons
  <2>6. d \in Nat /\ n \in Nat /\ d + n <= Len(Image)
    BY <2>1, <2>2
  <2>7. piece \in Seq(ImageBytes) /\ Len(piece) = n /\ \A i \in 1 .. n : piece[i] = Image[d + i]
    BY <2>6, ImageIs, PieceOf
  <2> HIDE DEF piece
  <2>9. SubSeq(colons \o piece, 1, n) = piece
    <3>1. colons \o piece = piece
      BY <2>4, <2>7, ConcatEmptySeq
    <3> QED
      BY <2>7, <3>1, SubSeqFull
  <2>10. PacketOf(h) = Packet(IF h.binary THEN "X" ELSE "M", d + 1, piece)
    BY <2>5, <2>9
  <2>11. d + 1 \in Nat
    BY <2>1
  <2>12. /\ PacketOf(h) \in Tokens /\ PacketOf(h).kind = "$" /\ PacketOf(h).good /\ PacketOf(h).from = d + 1
         /\ PacketOf(h).bytes = piece /\ PacketOf(h).op = (IF h.binary THEN "X" ELSE "M")
    BY <2>7, <2>10, <2>11 DEF Packet, Tokens
  <2> QED
    BY <1>4, <2>2, <2>7, <2>12 DEF d, n
<1> QED
    BY <1>2, <1>3, <1>4 DEF Hosts
-----------------------------------------------------------------------------
(* Tokens on the line.                                                     *)

LEMMA TailOf ==
    ASSUME NEW s \in Seq(Tokens), s # <<>>
    PROVE  /\ Tail(s) \in Seq(Tokens) /\ Len(s) \in Nat \ {0} /\ Len(Tail(s)) = Len(s) - 1
           /\ Head(s) = s[1] /\ s[1] \in Tokens
           /\ \A i \in 1 .. Len(Tail(s)) : Tail(s)[i] = s[i + 1]
<1>1. Len(s) \in Nat \ {0}
    BY EmptySeq
<1>2. s[1] \in Tokens
    BY <1>1, ElementOfSeq
<1> QED
    BY <1>1, <1>2, HeadTailProperties

LEMMA HeadChanged ==
    ASSUME NEW s \in Seq(Tokens), s # <<>>, NEW d \in Tokens
    PROVE  /\ <<d>> \o Tail(s) \in Seq(Tokens) /\ Len(<<d>> \o Tail(s)) = Len(s)
           /\ (<<d>> \o Tail(s))[1] = d
           /\ \A i \in 2 .. Len(s) : (<<d>> \o Tail(s))[i] = s[i]
<1>1. Tail(s) \in Seq(Tokens) /\ Len(s) \in Nat \ {0} /\ Len(Tail(s)) = Len(s) - 1
      /\ \A i \in 1 .. Len(Tail(s)) : Tail(s)[i] = s[i + 1]
    BY TailOf
<1>2. <<d>> \in Seq(Tokens) /\ Len(<<d>>) = 1 /\ <<d>>[1] = d
    OBVIOUS
<1>3. /\ <<d>> \o Tail(s) \in Seq(Tokens) /\ Len(<<d>> \o Tail(s)) = 1 + Len(Tail(s))
      /\ \A i \in 1 .. 1 + Len(Tail(s)) :
            (<<d>> \o Tail(s))[i] = IF i <= 1 THEN <<d>>[i] ELSE Tail(s)[i - 1]
    BY <1>1, <1>2, ConcatProperties
<1>4. ASSUME NEW i \in 2 .. Len(s) PROVE (<<d>> \o Tail(s))[i] = s[i]
    <2>1. i - 1 \in 1 .. Len(Tail(s)) /\ (i - 1) + 1 = i /\ ~(i <= 1) /\ i \in 1 .. 1 + Len(Tail(s))
        BY <1>1
    <2>2. (<<d>> \o Tail(s))[i] = Tail(s)[i - 1]
        BY <1>3, <2>1
    <2>3. Tail(s)[i - 1] = s[(i - 1) + 1]
        BY <1>1, <2>1
    <2> QED
        BY <2>1, <2>2, <2>3
<1>5. 1 \in 1 .. 1 + Len(Tail(s))
    BY <1>1
<1> QED
    BY <1>1, <1>2, <1>3, <1>4, <1>5

LEMMA Pushed ==
    ASSUME NEW s \in Seq(Tokens), NEW t \in Tokens
    PROVE  /\ Append(s, t) \in Seq(Tokens) /\ Len(Append(s, t)) = Len(s) + 1 /\ Len(s) \in Nat
           /\ Append(s, t)[Len(s) + 1] = t /\ s \o <<t>> = Append(s, t)
           /\ \A i \in 1 .. Len(s) : Append(s, t)[i] = s[i]
BY AppendProperties, AppendIsConcat

LEMMA PushedTwo ==
    ASSUME NEW s \in Seq(Tokens), NEW t \in Tokens, NEW u \in Tokens
    PROVE  /\ s \o <<t, u>> \in Seq(Tokens) /\ Len(s \o <<t, u>>) = Len(s) + 2 /\ Len(s) \in Nat
           /\ (s \o <<t, u>>)[Len(s) + 1] = t /\ (s \o <<t, u>>)[Len(s) + 2] = u
           /\ \A i \in 1 .. Len(s) : (s \o <<t, u>>)[i] = s[i]
<1>1. <<t, u>> \in Seq(Tokens) /\ Len(<<t, u>>) = 2 /\ <<t, u>>[1] = t /\ <<t, u>>[2] = u /\ Len(s) \in Nat
    OBVIOUS
<1>2. /\ s \o <<t, u>> \in Seq(Tokens) /\ Len(s \o <<t, u>>) = Len(s) + 2
      /\ \A i \in 1 .. Len(s) + 2 : (s \o <<t, u>>)[i] = IF i <= Len(s) THEN s[i] ELSE <<t, u>>[i - Len(s)]
    BY <1>1, ConcatProperties
<1>3. Len(s) + 1 \in 1 .. Len(s) + 2 /\ Len(s) + 2 \in 1 .. Len(s) + 2 /\ (Len(s) + 1) - Len(s) = 1
      /\ (Len(s) + 2) - Len(s) = 2 /\ ~(Len(s) + 1 <= Len(s)) /\ ~(Len(s) + 2 <= Len(s))
    BY <1>1
<1>4. \A i \in 1 .. Len(s) : i \in 1 .. Len(s) + 2 /\ i <= Len(s)
    BY <1>1
<1> QED
    BY <1>1, <1>2, <1>3, <1>4

(* What precedes a packet or an answer of the loader changes nothing.      *)
InertTokens(s) == s \in Seq(Tokens) /\ \A i \in 1 .. Len(s) : Inert(s[i])

LEMMA InertBefore ==
    ASSUME NEW s, InertTokens(s), NEW before, InertTokens(before)
    PROVE  InertTokens(s \o before)
<1>1. s \in Seq(Tokens) /\ before \in Seq(Tokens) /\ Len(s) \in Nat /\ Len(before) \in Nat
    BY DEF InertTokens
<1>2. /\ s \o before \in Seq(Tokens) /\ Len(s \o before) = Len(s) + Len(before)
      /\ \A i \in 1 .. Len(s) + Len(before) : (s \o before)[i] = IF i <= Len(s) THEN s[i] ELSE before[i - Len(s)]
    BY <1>1, ConcatProperties
<1>3. ASSUME NEW i \in 1 .. Len(s) + Len(before) PROVE Inert((s \o before)[i])
  <2>1. CASE i <= Len(s)
    BY <1>1, <1>2, <2>1 DEF InertTokens
  <2>2. CASE ~(i <= Len(s))
    <3>1. i - Len(s) \in 1 .. Len(before)
      BY <1>1, <2>2
    <3> QED
      BY <1>2, <2>2, <3>1 DEF InertTokens
  <2> QED
    BY <2>1, <2>2
<1> QED
    BY <1>2, <1>3 DEF InertTokens

LEMMA PlusInert == InertTokens(<<Token("+")>>) /\ <<Token("+")>> \in Seq(Tokens)
<1>1. Token("+") \in Tokens /\ Inert(Token("+"))
    BY TokenType DEF Inert
<1>2. <<Token("+")>> \in Seq(Tokens) /\ Len(<<Token("+")>>) = 1 /\ <<Token("+")>>[1] = Token("+")
    BY <1>1
<1> QED
    BY <1>1, <1>2 DEF InertTokens

-----------------------------------------------------------------------------
(* The steps of the loader, whatever the stub does.                        *)

LEMMA PutTypes ==
    ASSUME NoDigitIsLost, NEW h \in Hosts, h.doing = "write" => h.done < Len(Image), toStub \in Seq(Tokens),
           NEW before \in Seq(Tokens), PutPacket(h, before)
    PROVE  /\ host' \in Hosts /\ HasMore(host') /\ toStub' \in Seq(Tokens)
           /\ host' = [h EXCEPT !.at = "ack", !.timeouts = 0, !.tries = 1]
           /\ PacketOf(host') = PacketOf(h) /\ toStub' = (toStub \o before) \o <<PacketOf(h)>>
           /\ PacketOf(h) \in Tokens /\ toStub \o before \in Seq(Tokens)
<1> DEFINE g == [h EXCEPT !.at = "ack", !.timeouts = 0, !.tries = 1]
<1>1. 0 \in 0 .. PutTries /\ 1 \in 1 .. MAX_TRIES
    BY GdbAssumption
<1>2. g \in Hosts /\ g.doing = h.doing /\ g.done = h.done /\ g.binary = h.binary /\ g.at = "ack"
    BY <1>1 DEF Hosts
<1> HIDE DEF g
<1>3. HasMore(g)
    BY <1>2 DEF HasMore
<1>4. PacketOf(g) = PacketOf(h)
    BY <1>2 DEF PacketOf
<1>5. PacketOf(g) \in Tokens
    BY <1>2, <1>3, PacketIs
<1>6. host' = g /\ toStub' = (toStub \o before) \o <<PacketOf(h)>>
    BY DEF PutPacket, g
<1>7. toStub \o before \in Seq(Tokens)
    BY ConcatProperties
<1>8. (toStub \o before) \o <<PacketOf(h)>> \in Seq(Tokens)
    BY <1>4, <1>5, <1>7, Pushed
<1> QED
    BY <1>2, <1>3, <1>4, <1>5, <1>6, <1>7, <1>8 DEF g

ConcludeTypes ==
    host' \in Hosts /\ HasMore(host') /\ toStub' \in Seq(Tokens)

LEMMA ConcludesTyped ==
    ASSUME NoDigitIsLost, NEW h \in Hosts, toStub \in Seq(Tokens), NEW before \in Seq(Tokens), Conclude(h, before)
    PROVE  ConcludeTypes
<1>1. CASE h.docont
  <2> DEFINE g == [h EXCEPT !.doing = "continue"]
  <2>1. g \in Hosts /\ g.doing = "continue"
    BY DEF Hosts
  <2>2. PutPacket(g, before)
    BY <1>1 DEF Conclude
  <2> HIDE DEF g
  <2> QED
    BY <2>1, <2>2, PutTypes DEF ConcludeTypes
<1>2. CASE ~h.docont
  <2>1. host' = [h EXCEPT !.at = "done"] /\ toStub' = toStub \o before
    BY <1>2 DEF Conclude
  <2>2. host' \in Hosts /\ host'.at = "done"
    BY <2>1 DEF Hosts
  <2> QED
    BY <2>1, <2>2, ConcatProperties DEF ConcludeTypes, HasMore
<1> QED
    BY <1>1, <1>2

LEMMA GoesOnTyped ==
    ASSUME NoDigitIsLost, NEW h \in Hosts, toStub \in Seq(Tokens), NEW before \in Seq(Tokens), GoOn(h, before)
    PROVE  ConcludeTypes
<1>1. CASE h.done < Len(Image)
  <2> DEFINE g == [h EXCEPT !.doing = "write"]
  <2>1. g \in Hosts /\ g.done < Len(Image)
    BY <1>1 DEF Hosts
  <2>2. PutPacket(g, before)
    BY <1>1 DEF GoOn
  <2> HIDE DEF g
  <2> QED
    BY <2>1, <2>2, PutTypes DEF ConcludeTypes
<1>2. CASE ~(h.done < Len(Image))
    BY <1>2, ConcludesTyped DEF GoOn
<1> QED
    BY <1>1, <1>2

LEMMA AdvancedType ==
    ASSUME NEW h \in Hosts
    PROVE  /\ Advanced(h) \in Hosts /\ Advanced(h).done = h.done + Taken(h.done, h.binary)
           /\ Taken(h.done, h.binary) \in 0 .. Len(Image) - h.done
           /\ Advanced(h).doing = h.doing /\ Advanced(h).binary = h.binary
           /\ Advanced(h).refused = h.refused /\ Advanced(h).docont = h.docont
<1>1. h.done \in 0 .. Len(Image) /\ h.binary \in BOOLEAN /\ Len(Image) \in Nat
    BY ImageIs DEF Hosts
<1>2. Taken(h.done, h.binary) \in 0 .. Len(Image) - h.done
    BY <1>1, TakenIn
<1>3. h.done + Taken(h.done, h.binary) \in 0 .. Len(Image)
    BY <1>1, <1>2
<1> QED
    BY <1>2, <1>3 DEF Advanced, Hosts

LEMMA AfterReplyTyped ==
    ASSUME NoDigitIsLost, NEW h \in Hosts, toStub \in Seq(Tokens), NEW before \in Seq(Tokens), NEW reply,
           AfterReply(h, reply, before)
    PROVE  ConcludeTypes
<1>1. CASE h.doing = "probe"
  <2>1. [h EXCEPT !.binary = reply # "empty"] \in Hosts
    BY DEF Hosts
  <2> QED
    BY <1>1, <2>1, GoesOnTyped DEF AfterReply
<1>2. CASE h.doing = "write" /\ reply = "E"
  <2>1. [h EXCEPT !.refused = TRUE] \in Hosts
    BY DEF Hosts
  <2> QED
    BY <1>2, <2>1, ConcludesTyped DEF AfterReply
<1>3. CASE h.doing # "probe" /\ ~(h.doing = "write" /\ reply = "E")
    BY <1>3, AdvancedType, GoesOnTyped DEF AfterReply
<1> QED
    BY <1>1, <1>2, <1>3

LEMMA AfterPutTyped ==
    ASSUME GdbTypes, host.at = "ack", AfterPut(host)
    PROVE  ConcludeTypes /\ toStub' = toStub
<1>1. host' = [host EXCEPT !.at = IF host.doing = "continue" THEN "done" ELSE "reply", !.tries = 1] /\ toStub' = toStub
    BY DEF AfterPut
<1>2. host \in Hosts /\ HasMore(host) /\ toStub \in Seq(Tokens) /\ 1 \in 1 .. MAX_TRIES
    BY GdbAssumption DEF GdbTypes
<1>3. host' \in Hosts /\ host'.doing = host.doing /\ host'.done = host.done
    BY <1>1, <1>2 DEF Hosts
<1> QED
    BY <1>1, <1>2, <1>3 DEF ConcludeTypes, HasMore

LEMMA GetFailsTyped ==
    ASSUME NoDigitIsLost, GdbTypes, host.at \in {"reply", "junk"}, GetFails
    PROVE  ConcludeTypes
<1>1. host \in Hosts /\ HasMore(host) /\ toStub \in Seq(Tokens) /\ MAX_TRIES \in Nat
    BY GdbAssumption DEF GdbTypes
<1>2. Token("-") \in Tokens /\ Token("+") \in Tokens
    BY TokenType
<1>3. <<Token("-"), Token("+")>> \in Seq(Tokens)
    BY <1>2
<1>4. CASE TriesLeft
  <2>1. toStub' = Append(toStub, Token("-")) /\ host' = [host EXCEPT !.tries = @ + 1]
    BY <1>4 DEF GetFails, Send
  <2>2. host.tries + 1 \in 1 .. MAX_TRIES
    BY <1>1, <1>4 DEF TriesLeft, Hosts
  <2>3. host' \in Hosts /\ host'.at = host.at /\ host'.doing = host.doing /\ host'.done = host.done
    BY <1>1, <2>1, <2>2 DEF Hosts
  <2> QED
    BY <1>1, <1>2, <2>1, <2>3, Pushed DEF ConcludeTypes, HasMore
<1>5. CASE ~TriesLeft /\ host.at = "junk"
  <2>1. toStub' = toStub \o <<Token("-"), Token("+")>> /\ host' = [host EXCEPT !.at = "ack"]
    BY <1>5 DEF GetFails
  <2>2. host' \in Hosts /\ host'.at = "ack" /\ host'.doing = host.doing /\ host'.done = host.done
    BY <1>1, <2>1 DEF Hosts
  <2> QED
    BY <1>1, <1>2, <1>5, <2>1, <2>2, PushedTwo DEF ConcludeTypes, HasMore
<1>6. CASE ~TriesLeft /\ host.at # "junk"
  <2>1. AfterReply(host, "timeout", <<Token("-"), Token("+")>>)
    BY <1>6 DEF GetFails
  <2> QED
    BY <1>1, <1>3, <2>1, AfterReplyTyped
<1> QED
    BY <1>4, <1>5, <1>6

(* A step that leaves alone what the loader is about, and the board.       *)
Steady ==
    /\ host'.doing = host.doing /\ host'.done = host.done /\ host'.binary = host.binary
    /\ host'.refused = host.refused /\ host'.docont = host.docont
    /\ stub' = stub /\ memory' = memory

LEMMA SteadyKeeps ==
    ASSUME Steady
    PROVE  /\ PacketOf(host)' = PacketOf(host) /\ Alive' = Alive
           /\ Obeyed' = Obeyed /\ (SentIsHeld(host) => SentIsHeld(host)')
<1>1. PacketOf(host)' = PacketOf(host)
    BY DEF PacketOf, Steady
<1>2. Alive' = Alive
    BY DEF Alive, Steady
<1>3. Answer(PacketOf(host))' = Answer(PacketOf(host))
    BY <1>1 DEF Answer, Steady
<1>4. Holds(host.done + 1, host.done + Taken(host.done, host.binary))'
      = Holds(host.done + 1, host.done + Taken(host.done, host.binary))
    BY DEF Holds, Steady
<1>5. Obeyed' = Obeyed
    BY <1>3, <1>4 DEF Obeyed, Steady
<1>6. SentIsHeld(host) => SentIsHeld(host)'
    BY DEF SentIsHeld, Holds, Steady
<1> QED
    BY <1>1, <1>2, <1>5, <1>6

(* What the loader may send when the answer to its last packet is read.    *)
SendsOn == stub' = stub /\ memory' = memory /\ faults' = faults /\ toHost' = <<>>

LEMMA PutOK ==
    ASSUME NoDigitIsLost, GdbTypes, InertTokens(toStub), NEW before, InertTokens(before),
           NEW h \in Hosts, h.doing = "write" => h.done < Len(Image), PutPacket(h, before), SendsOn,
           SentIsHeld(h)
    PROVE  AliveOK'
<1>1. /\ host' \in Hosts /\ HasMore(host') /\ toStub' \in Seq(Tokens)
      /\ host' = [h EXCEPT !.at = "ack", !.timeouts = 0, !.tries = 1]
      /\ PacketOf(host') = PacketOf(h) /\ toStub' = (toStub \o before) \o <<PacketOf(h)>>
      /\ PacketOf(h) \in Tokens /\ toStub \o before \in Seq(Tokens)
    BY PutTypes DEF GdbTypes, InertTokens
<1>2. /\ host'.at = "ack" /\ host'.timeouts = 0 /\ host'.doing = h.doing /\ host'.done = h.done
      /\ host'.binary = h.binary /\ host'.refused = h.refused /\ host'.docont = h.docont
    BY <1>1 DEF Hosts
<1>3. InertTokens(toStub \o before)
    BY InertBefore
<1> DEFINE s == toStub \o before  p == PacketOf(h)
<1>4. /\ Len(s) \in Nat /\ Len(toStub') = Len(s) + 1 /\ toStub'[Len(s) + 1] = p
      /\ \A i \in 1 .. Len(s) : toStub'[i] = s[i]
    BY <1>1, Pushed
<1>5. \A i \in 1 .. Len(s) : Inert(toStub'[i])
    BY <1>3, <1>4 DEF InertTokens
<1>6. p.kind = "$" /\ p.good
    <2>1. HasMore(host') /\ host'.at # "done" /\ PacketOf(host') = p
        BY <1>1, <1>2
    <2> QED
        BY <1>1, <2>1, PacketIs
<1> HIDE DEF s, p
<1>7. PacketOf(host)' = p
    BY <1>1, <1>2 DEF PacketOf, p
<1>8. ToStubOK'
  <2>1. \A i \in 1 .. Len(toStub') : i = Len(s) + 1 \/ Inert(toStub'[i])
    BY <1>4, <1>5
  <2>2. IsPacket(p, p)
    BY DEF IsPacket
  <2> QED
    BY <1>2, <1>4, <1>6, <1>7, <2>1, <2>2 DEF ToStubOK, Inert, SendsOn
<1>9. ToHostOK'
    BY <1>2 DEF ToHostOK, SendsOn
<1>10. Counted'
  <2>1. AckUnderWay'
    BY <1>4, <1>6 DEF AckUnderWay
  <2> QED
    BY <1>2, <2>1 DEF Counted, SendsOn, GdbTypes
<1>11. SentIsHeld(host)'
    BY <1>2 DEF SentIsHeld, Holds, SendsOn
<1> QED
    BY <1>2, <1>8, <1>9, <1>10, <1>11 DEF AliveOK

(* All the writes are done, or one was refused.                            *)
LEMMA ConcludeOK ==
    ASSUME NoDigitIsLost, GdbTypes, InertTokens(toStub), NEW before, InertTokens(before),
           NEW h \in Hosts, h.doing # "continue", Conclude(h, before), SendsOn,
           ~h.refused => Holds(1, h.done) /\ h.done = Len(Image), h.doing = "write" /\ h.binary => stub.binary
    PROVE  AliveOK'
<1>1. CASE h.docont
  <2> DEFINE g == [h EXCEPT !.doing = "continue"]
  <2>1. g \in Hosts /\ g.doing = "continue" /\ g.done = h.done /\ g.refused = h.refused /\ g.docont
    BY <1>1 DEF Hosts
  <2>2. PutPacket(g, before)
    BY <1>1 DEF Conclude
  <2> HIDE DEF g
  <2>3. SentIsHeld(g)
    BY <2>1 DEF SentIsHeld
  <2> QED
    BY <2>1, <2>2, <2>3, PutOK
<1>2. CASE ~h.docont
  <2>1. host' = [h EXCEPT !.at = "done"] /\ toStub' = toStub \o before
    BY <1>2 DEF Conclude
  <2>2. /\ host'.at = "done" /\ host'.doing = h.doing /\ host'.done = h.done
        /\ host'.binary = h.binary /\ host'.refused = h.refused /\ host'.docont = h.docont
    BY <2>1 DEF Hosts
  <2>3. InertTokens(toStub')
    BY <2>1, InertBefore
  <2>4. \A i \in 1 .. Len(toStub') : Inert(toStub'[i]) /\ toStub'[i].kind # "$" /\ toStub'[i].kind # "-"
    BY <2>3 DEF InertTokens, Inert
  <2>5. ToStubOK'
    BY <2>4 DEF ToStubOK
  <2>6. ToHostOK'
    BY <2>2, <2>4 DEF ToHostOK, SendsOn
  <2>7. Counted'
    BY <2>2 DEF Counted
  <2>8. SentIsHeld(host)'
    BY <2>2 DEF SentIsHeld, Holds, SendsOn
  <2> QED
    BY <2>2, <2>5, <2>6, <2>7, <2>8 DEF AliveOK
<1> QED
    BY <1>1, <1>2

LEMMA GoOnOK ==
    ASSUME NoDigitIsLost, GdbTypes, InertTokens(toStub), NEW before, InertTokens(before),
           NEW h \in Hosts, h.doing # "continue", GoOn(h, before), SendsOn,
           ~h.refused => Holds(1, h.done), h.binary => stub.binary
    PROVE  AliveOK'
<1>1. CASE h.done < Len(Image)
  <2> DEFINE g == [h EXCEPT !.doing = "write"]
  <2>1. g \in Hosts /\ g.doing = "write" /\ g.done = h.done /\ g.refused = h.refused /\ g.binary = h.binary
    BY DEF Hosts
  <2>2. PutPacket(g, before)
    BY <1>1 DEF GoOn
  <2> HIDE DEF g
  <2>3. SentIsHeld(g)
    BY <2>1 DEF SentIsHeld
  <2> QED
    BY <1>1, <2>1, <2>2, <2>3, PutOK
<1>2. CASE ~(h.done < Len(Image))
  <2>1. h.done = Len(Image)
    BY <1>2, ImageIs DEF Hosts
  <2>2. Conclude(h, before)
    BY <1>2 DEF GoOn
  <2> QED
    BY <2>1, <2>2, ConcludeOK
<1> QED
    BY <1>1, <1>2

(* The answer of the stub is read.                                         *)
LEMMA AnswerRead ==
    ASSUME NoDigitIsLost, GdbTypes, AliveOK, Alive, host.at = "reply", NEW before, InertTokens(before),
           InertTokens(toStub), SendsOn, AfterReply(host, stub.last, before)
    PROVE  AliveOK'
<1>1. /\ host \in Hosts /\ SentIsHeld(host) /\ Obeyed /\ HasMore(host) /\ stub \in Stubs
    BY DEF AliveOK, ToHostOK, GdbTypes
<1>2. /\ host.doing \in {"probe", "write"} /\ stub.last = Answer(PacketOf(host))
    BY <1>1 DEF Obeyed, Hosts
<1>3. CASE host.doing = "probe"
  <2> DEFINE g == [host EXCEPT !.binary = stub.last # "empty"]
  <2>1. /\ g \in Hosts /\ g.doing = "probe" /\ g.refused = host.refused /\ g.done = host.done
        /\ g.binary = (stub.last # "empty")
    BY <1>1, <1>3 DEF Hosts
  <2>2. GoOn(g, before)
    BY <1>3 DEF AfterReply
  <2>3. PacketOf(host).op = "X"
    BY <1>1, <1>3, PacketIs
  <2>4. g.binary => stub.binary
    BY <1>2, <2>1, <2>3 DEF Answer
  <2> HIDE DEF g
  <2>5. ~g.refused => Holds(1, g.done)
    BY <1>1, <2>1 DEF SentIsHeld
  <2> QED
    BY <2>1, <2>2, <2>4, <2>5, GoOnOK
<1>4. CASE host.doing = "write" /\ stub.last = "E"
  <2> DEFINE g == [host EXCEPT !.refused = TRUE]
  <2>1. g \in Hosts /\ g.doing = "write" /\ g.refused /\ g.binary = host.binary
    BY <1>1, <1>4 DEF Hosts
  <2>2. Conclude(g, before)
    BY <1>4 DEF AfterReply
  <2> HIDE DEF g
  <2>3. g.doing = "write" /\ g.binary => stub.binary
    BY <1>1, <1>4, <2>1 DEF SentIsHeld
  <2> QED
    BY <2>1, <2>2, <2>3, ConcludeOK
<1>5. CASE host.doing = "write" /\ stub.last # "E"
  <2> DEFINE g == Advanced(host)  n == Taken(host.done, host.binary)
  <2>1. /\ g \in Hosts /\ g.doing = "write" /\ g.refused = host.refused /\ g.binary = host.binary
        /\ g.done = host.done + n /\ n \in 0 .. Len(Image) - host.done
    BY <1>1, <1>5, AdvancedType
  <2>2. GoOn(g, before)
    BY <1>5 DEF AfterReply
  <2>3. PacketOf(host).op = IF host.binary THEN "X" ELSE "M"
    BY <1>1, <1>5, PacketIs
  <2>4. host.binary => stub.binary
    BY <1>1, <1>5 DEF SentIsHeld
  <2>5. stub.last = "OK"
    BY <1>2, <1>5, <2>3, <2>4 DEF Answer
  <2>6. Holds(host.done + 1, host.done + n)
    BY <1>1, <1>5, <2>5 DEF Obeyed
  <2> HIDE DEF g, n
  <2>7. host.done \in Nat /\ n \in Nat
    BY <1>1, <2>1, ImageIs DEF Hosts
  <2>8. Holds(1, host.done) => Holds(1, g.done)
    BY <2>1, <2>6, <2>7 DEF Holds
  <2>9. ~g.refused => Holds(1, g.done)
    BY <1>1, <2>1, <2>8 DEF SentIsHeld
  <2> QED
    BY <2>1, <2>2, <2>4, <2>9, GoOnOK
<1> QED
    BY <1>2, <1>3, <1>4, <1>5

-----------------------------------------------------------------------------
(* The actions of the loader.                                              *)

LEMMA BeginOK ==
    ASSUME NoDigitIsLost, GdbTypes, AliveOK, Alive, Begin
    PROVE  AliveOK'
<1>1. host.at = "start" /\ PutPacket(host, <<Token("+")>>) /\ toHost' = toHost /\ UNCHANGED <<stub, memory, faults>>
    BY DEF Begin
<1>2. /\ host \in Hosts /\ SentIsHeld(host) /\ toHost = <<>> /\ host.doing = "probe"
      /\ \A i \in 1 .. Len(toStub) : Inert(toStub[i])
    BY <1>1 DEF GdbTypes, AliveOK, ToHostOK
<1>3. InertTokens(toStub)
    BY <1>2 DEF InertTokens, GdbTypes
<1>4. SendsOn
    BY <1>1, <1>2 DEF SendsOn
<1> QED
    BY <1>1, <1>2, <1>3, <1>4, PlusInert, PutOK

LEMMA OpenFailsOK ==
    ASSUME GdbTypes, AliveOK, Alive, OpenFails
    PROVE  AliveOK'
<1>1. /\ host.at = "start" /\ host' = [host EXCEPT !.at = "failed"] /\ host \in Hosts
      /\ UNCHANGED <<toStub, toHost, stub, memory, faults>>
    BY DEF OpenFails, GdbTypes
<1>2. Steady /\ host'.at = "failed"
    BY <1>1 DEF Steady, Hosts
<1>3. /\ SentIsHeld(host) /\ toHost = <<>> /\ \A i \in 1 .. Len(toStub) : Inert(toStub[i])
    BY <1>1 DEF AliveOK, ToHostOK
<1>4. SentIsHeld(host)'
    BY <1>2, <1>3, SteadyKeeps
<1>5. ToStubOK' /\ ToHostOK' /\ Counted'
    BY <1>1, <1>2, <1>3 DEF ToStubOK, ToHostOK, Counted, Inert
<1> QED
    BY <1>2, <1>4, <1>5 DEF AliveOK

LEMMA ReadAckOK ==
    ASSUME NoDigitIsLost, GdbTypes, AliveOK, Alive, ReadAck
    PROVE  AliveOK'
<1>1. /\ host.at = "ack" /\ toHost # <<>> /\ toHost' = Tail(toHost) /\ UNCHANGED <<stub, memory, faults>>
      /\ host \in Hosts /\ toHost \in Seq(Tokens) /\ toStub \in Seq(Tokens) /\ faults \in Nat
    BY DEF ReadAck, Read, GdbTypes
<1>2. /\ Len(toHost) \in {1, 2} /\ Len(toHost') = Len(toHost) - 1 /\ Head(toHost) = toHost[1]
      /\ \A i \in 1 .. Len(toHost') : toHost'[i] = toHost[i + 1]
  <2>1. Len(toHost) <= 2
    BY DEF AliveOK, ToHostOK
  <2>2. Len(toHost) \in Nat \ {0}
    BY <1>1, TailOf
  <2>3. Len(toHost) \in {1, 2}
    <3>1. \A n \in Nat \ {0} : n <= 2 => n = 1 \/ n = 2
      OBVIOUS
    <3> QED
      BY <2>1, <2>2, <3>1
  <2> QED
    BY <1>1, <2>3, TailOf
<1>3. SentIsHeld(host) /\ ToStubOK /\ ToHostOK /\ Counted
    BY DEF AliveOK
<1>4. \A i \in 1 .. Len(toStub) : Inert(toStub[i]) /\ toStub[i].kind # "$" /\ toStub[i].kind # "-"
    BY <1>1, <1>3 DEF ToStubOK, Inert
<1> DEFINE t == Head(toHost)
<1>5. CASE t.kind = "+"
  <2>1. /\ toStub' = toStub /\ host' = [host EXCEPT !.at = IF host.doing = "continue" THEN "done" ELSE "reply", !.tries = 1]
    BY <1>5 DEF ReadAck, AfterPut
  <2>2. Len(toHost) = 2 /\ toHost[2].good /\ toHost[2].kind = "$" /\ Obeyed /\ toHost[2].op = stub.last
    BY <1>2, <1>3, <1>5 DEF ToHostOK
  <2>3. host'.at = "reply" /\ host'.tries = 1 /\ Steady
    BY <1>1, <2>1, <2>2 DEF Steady, Hosts, Obeyed
  <2>4. Obeyed' /\ SentIsHeld(host)'
    BY <1>3, <2>2, <2>3, SteadyKeeps
  <2>5. Len(toHost') = 1 /\ toHost'[1] = toHost[2]
    BY <1>2, <2>2
  <2>6. ToStubOK'
    BY <1>4, <2>1 DEF ToStubOK, Inert
  <2>7. ToHostOK'
    <3>1. \A i \in 1 .. Len(toHost') : i = 1 /\ toHost'[i].kind = "$" /\ toHost'[i].op = stub'.last
      BY <1>1, <2>2, <2>5
    <3>2. Len(toHost') <= 2 /\ Len(toHost') # 2
      BY <2>5
    <3> QED
      BY <2>3, <2>4, <2>5, <3>1, <3>2 DEF ToHostOK
  <2>8. ReplyUnderWay'
    BY <2>2, <2>5 DEF ReplyUnderWay
  <2>9. Counted'
    BY <1>1, <2>3, <2>8 DEF Counted
  <2> QED
    BY <2>3, <2>4, <2>6, <2>7, <2>9 DEF AliveOK
<1>6. CASE t.kind = "$"
  <2>1. toStub' = toStub /\ host' = [host EXCEPT !.at = "junk", !.tries = 1]
    BY <1>6 DEF ReadAck
  <2>2. Len(toHost) = 1 /\ Obeyed
    BY <1>2, <1>3, <1>6 DEF ToHostOK
  <2>3. host'.at = "junk" /\ host'.timeouts = host.timeouts /\ Steady
    BY <1>1, <2>1 DEF Steady, Hosts
  <2>4. Obeyed' /\ SentIsHeld(host)'
    BY <1>3, <2>2, <2>3, SteadyKeeps
  <2>5. Len(toHost') = 0
    BY <1>2, <2>2
  <2>6. ToStubOK'
    BY <1>4, <2>1 DEF ToStubOK, Inert
  <2>7. ToHostOK'
    BY <2>3, <2>4, <2>5 DEF ToHostOK
  <2>8. ~AckUnderWay
    BY <1>2, <1>4, <1>6, <2>2 DEF AckUnderWay
  <2>9. Counted'
    BY <1>1, <1>3, <2>3, <2>8 DEF Counted
  <2> QED
    BY <2>3, <2>4, <2>6, <2>7, <2>9 DEF AliveOK
<1>7. CASE t.kind # "+" /\ t.kind # "$"
  <2>1. toStub' = toStub /\ host' = host
    BY <1>7 DEF ReadAck
  <2>2. Steady /\ host'.at = "ack" /\ host'.timeouts = host.timeouts
    BY <1>1, <2>1 DEF Steady
  <2>3. SentIsHeld(host)' /\ Obeyed' = Obeyed
    BY <1>3, <2>2, SteadyKeeps
  <2>4. ToStubOK'
    BY <1>4, <2>1 DEF ToStubOK, Inert
  <2>5. ToHostOK'
    <3>1. \A i \in 1 .. Len(toHost') : i = 1 /\ toHost'[i] = toHost[2] /\ Len(toHost) = 2
      BY <1>2
    <3>2. Len(toHost') <= 2 /\ Len(toHost') # 2
      BY <1>2
    <3>3. Len(toHost) = 2 => /\ Len(toHost') = 1 /\ toHost[2].kind # "+" 
                             /\ toHost[2].kind = "$" => toHost[2].op = stub'.last /\ Obeyed
      BY <1>1, <1>2, <1>3 DEF ToHostOK
    <3>4. \A i \in 1 .. Len(toHost') :
            toHost'[i].kind # "+" /\ (toHost'[i].kind = "$" => i = Len(toHost') /\ toHost'[i].op = stub'.last /\ Obeyed)
      BY <3>1, <3>3
    <3> QED
      BY <2>2, <2>3, <3>2, <3>4 DEF ToHostOK
  <2>6. ~AckUnderWay
    BY <1>2, <1>3, <1>4, <1>7 DEF AckUnderWay, ToHostOK
  <2>7. Counted'
    BY <1>1, <1>3, <2>2, <2>6 DEF Counted
  <2> QED
    BY <2>2, <2>3, <2>4, <2>5, <2>7 DEF AliveOK
<1> QED
    BY <1>5, <1>6, <1>7

LEMMA AckTimeoutOK ==
    ASSUME NoDigitIsLost, GdbTypes, AliveOK, Alive, AckTimeout
    PROVE  AliveOK'
<1>1. /\ host.at = "ack" /\ toHost = <<>> /\ toStub = <<>> /\ toHost' = toHost /\ UNCHANGED <<stub, memory, faults>>
      /\ host \in Hosts /\ HasMore(host) /\ faults \in 0 .. MaxFaults
    BY DEF AckTimeout, Silent, GdbTypes
<1>2. SentIsHeld(host) /\ Counted
    BY DEF AliveOK
<1>3. Len(toStub) = 0 /\ Len(toHost) = 0
    BY <1>1, EmptySeq
<1>4. ~AckUnderWay
    BY <1>3 DEF AckUnderWay
<1>5. host.timeouts < faults /\ host.timeouts \in Nat /\ faults \in Nat /\ MaxFaults \in Nat /\ PutTries \in Nat
      /\ faults <= MaxFaults /\ MaxFaults <= PutTries
    BY <1>1, <1>2, <1>4, GdbAssumption DEF Counted, Hosts
<1>6. ~PutGivesUp(host)
    BY <1>5 DEF PutGivesUp
<1>7. toStub' = Append(toStub, PacketOf(host)) /\ host' = [host EXCEPT !.timeouts = @ + 1]
    BY <1>6 DEF AckTimeout, Send, SentAgain
<1>8. host'.at = "ack" /\ host'.timeouts = host.timeouts + 1 /\ Steady
    BY <1>1, <1>7 DEF Steady, Hosts
<1>9. PacketOf(host) \in Tokens /\ PacketOf(host).kind = "$" /\ PacketOf(host).good
    BY <1>1, PacketIs
<1>10. Len(toStub') = 1 /\ toStub'[1] = PacketOf(host)
    BY <1>1, <1>3, <1>7, <1>9, Pushed DEF GdbTypes
<1>11. SentIsHeld(host)' /\ PacketOf(host)' = PacketOf(host)
    BY <1>2, <1>8, SteadyKeeps
<1>12. ToStubOK'
    BY <1>1, <1>8, <1>9, <1>10, <1>11 DEF ToStubOK, IsPacket
<1>13. ToHostOK'
    BY <1>1, <1>3, <1>8 DEF ToHostOK
<1>14. Counted'
  <2>1. AckUnderWay'
    BY <1>9, <1>10 DEF AckUnderWay
  <2>2. host'.timeouts <= faults'
    BY <1>1, <1>5, <1>8
  <2> QED
    BY <1>8, <2>1, <2>2 DEF Counted
<1> QED
    BY <1>8, <1>11, <1>12, <1>13, <1>14 DEF AliveOK

(* A bad answer, or none at all: every try is paid for by a fault.         *)
LEMMA GetFailsOK ==
    ASSUME GdbTypes, AliveOK, Alive, host.at \in {"reply", "junk"}, InertTokens(toStub), SendsOn,
           ~ReplyUnderWay, GetFails
    PROVE  AliveOK'
<1>1. /\ host \in Hosts /\ faults \in 0 .. MaxFaults /\ SentIsHeld(host) /\ Obeyed /\ Counted
      /\ host.tries \in Nat /\ faults \in Nat /\ MaxFaults \in Nat /\ MAX_TRIES \in Nat /\ MaxFaults < MAX_TRIES
      /\ faults <= MaxFaults
    BY GdbAssumption DEF GdbTypes, AliveOK, ToHostOK, Hosts
<1>2. host.at = "reply" => host.tries <= faults
    BY <1>1 DEF Counted
<1>3. /\ toStub \in Seq(Tokens) /\ \A i \in 1 .. Len(toStub) : Inert(toStub[i])
    BY DEF InertTokens
<1>4. /\ Token("-") \in Tokens /\ Token("-").kind = "-" /\ Token("+") \in Tokens /\ Token("+").kind = "+"
    BY TokenType
<1>5. CASE TriesLeft
  <2>1. toStub' = Append(toStub, Token("-")) /\ host' = [host EXCEPT !.tries = @ + 1]
    BY <1>5 DEF GetFails, Send
  <2>2. host'.at = host.at /\ host'.tries = host.tries + 1 /\ host'.timeouts = host.timeouts /\ Steady
    BY <1>1, <2>1 DEF Steady, Hosts, SendsOn
  <2>3. SentIsHeld(host)' /\ Obeyed'
    BY <1>1, <2>2, SteadyKeeps
  <2>4. /\ Len(toStub') = Len(toStub) + 1 /\ Len(toStub) \in Nat /\ toStub'[Len(toStub) + 1].kind = "-"
        /\ \A i \in 1 .. Len(toStub) : toStub'[i] = toStub[i]
    BY <1>3, <1>4, <2>1, Pushed
  <2>5. \A i \in 1 .. Len(toStub') : i = Len(toStub) + 1 \/ Inert(toStub'[i])
    BY <1>3, <2>4
  <2>6. ToStubOK'
    BY <2>3, <2>4, <2>5 DEF ToStubOK, Inert, SendsOn
  <2>7. ToHostOK'
    BY <2>2, <2>3 DEF ToHostOK, SendsOn
  <2>8. ReplyUnderWay'
    BY <2>4 DEF ReplyUnderWay
  <2>9. Counted'
    BY <1>1, <1>2, <2>2, <2>8 DEF Counted, SendsOn
  <2> QED
    BY <2>2, <2>3, <2>6, <2>7, <2>9 DEF AliveOK
<1>6. CASE ~TriesLeft
  <2>1. host.at = "junk"
    BY <1>1, <1>2, <1>6 DEF TriesLeft
  <2>2. toStub' = toStub \o <<Token("-"), Token("+")>> /\ host' = [host EXCEPT !.at = "ack"]
    BY <1>6, <2>1 DEF GetFails
  <2>3. host'.at = "ack" /\ host'.timeouts = host.timeouts /\ Steady
    BY <1>1, <2>2 DEF Steady, Hosts, SendsOn
  <2>4. SentIsHeld(host)' /\ Obeyed'
    BY <1>1, <2>3, SteadyKeeps
  <2>5. /\ Len(toStub') = Len(toStub) + 2 /\ Len(toStub) \in Nat /\ toStub'[Len(toStub) + 1].kind = "-"
        /\ toStub'[Len(toStub) + 2].kind = "+" /\ \A i \in 1 .. Len(toStub) : toStub'[i] = toStub[i]
    BY <1>3, <1>4, <2>2, PushedTwo
  <2>6. \A i \in 1 .. Len(toStub') : i = Len(toStub) + 1 \/ Inert(toStub'[i])
    BY <1>3, <2>5 DEF Inert
  <2>7. ToStubOK'
    BY <2>4, <2>5, <2>6 DEF ToStubOK, Inert, SendsOn
  <2>8. ToHostOK'
    BY <2>3 DEF ToHostOK, SendsOn
  <2>9. Counted'
    <3>1. host.timeouts < faults /\ host.timeouts \in Int
      BY <1>1, <2>1 DEF Counted, Hosts
    <3> QED
      BY <1>1, <2>3, <3>1 DEF Counted, SendsOn
  <2> QED
    BY <2>3, <2>4, <2>7, <2>8, <2>9 DEF AliveOK
<1> QED
    BY <1>5, <1>6

LEMMA ReplyTimeoutOK ==
    ASSUME GdbTypes, AliveOK, Alive, ReplyTimeout
    PROVE  AliveOK'
<1>1. /\ host.at \in {"reply", "junk"} /\ toHost = <<>> /\ toStub = <<>> /\ GetFails
      /\ UNCHANGED <<toHost, stub, memory, faults>>
    BY DEF ReplyTimeout, Silent
<1>2. Len(toStub) = 0 /\ Len(toHost) = 0
    BY <1>1, EmptySeq
<1>3. InertTokens(toStub) /\ ~ReplyUnderWay /\ SendsOn
    BY <1>1, <1>2 DEF InertTokens, ReplyUnderWay, SendsOn, GdbTypes
<1> QED
    BY <1>1, <1>3, GetFailsOK

LEMMA ReadReplyOK ==
    ASSUME NoDigitIsLost, GdbTypes, AliveOK, Alive, ReadReply
    PROVE  AliveOK'
<1>1. /\ host.at \in {"reply", "junk"} /\ toHost # <<>> /\ toHost' = Tail(toHost) /\ UNCHANGED <<stub, memory, faults>>
      /\ host \in Hosts /\ toHost \in Seq(Tokens) /\ toStub \in Seq(Tokens)
    BY DEF ReadReply, Read, GdbTypes
<1>2. SentIsHeld(host) /\ ToStubOK /\ ToHostOK /\ Counted /\ Obeyed
    BY <1>1 DEF AliveOK, ToHostOK
<1>3. Len(toHost) \in Nat \ {0} /\ Head(toHost) = toHost[1] /\ Tail(toHost) \in Seq(Tokens) /\ Len(Tail(toHost)) = Len(toHost) - 1
    BY <1>1, TailOf
<1>4. Len(toHost) = 1 /\ toHost[1].kind = "$" /\ toHost[1].op = stub.last
  <2>1. 1 \in 1 .. Len(toHost)
    BY <1>3
  <2>2. toHost[1].kind = "$"
    BY <1>1, <1>2, <2>1 DEF ToHostOK
  <2> QED
    BY <1>2, <2>1, <2>2 DEF ToHostOK
<1>5. Len(toHost') = 0 /\ toHost' \in Seq(Tokens)
    BY <1>1, <1>3, <1>4
<1>6. toHost' = <<>> /\ SendsOn
    BY <1>1, <1>5, EmptySeq DEF SendsOn
<1>7. InertTokens(toStub) /\ \A i \in 1 .. Len(toStub) : Inert(toStub[i])
    BY <1>1, <1>2 DEF InertTokens, ToStubOK
<1> DEFINE t == Head(toHost)
<1>8. CASE t.good /\ host.at = "reply"
  <2>1. AfterReply(host, stub.last, <<Token("+")>>)
    BY <1>3, <1>4, <1>8 DEF ReadReply
  <2> QED
    BY <1>6, <1>7, <1>8, <2>1, PlusInert, AnswerRead
<1>9. CASE t.good /\ host.at = "junk"
  <2>1. toStub' = Append(toStub, Token("+")) /\ host' = [host EXCEPT !.at = "ack"]
    BY <1>3, <1>4, <1>9 DEF ReadReply, Send
  <2>2. host'.at = "ack" /\ host'.timeouts = host.timeouts /\ Steady
    BY <1>1, <2>1 DEF Steady, Hosts
  <2>3. SentIsHeld(host)'
    BY <1>2, <2>2, SteadyKeeps
  <2>4. toStub' = toStub \o <<Token("+")>>
    BY <1>1, <2>1, TokenType, Pushed
  <2>5. InertTokens(toStub')
    BY <1>7, <2>4, PlusInert, InertBefore
  <2>6. \A i \in 1 .. Len(toStub') : Inert(toStub'[i]) /\ toStub'[i].kind # "$" /\ toStub'[i].kind # "-"
    BY <2>5 DEF InertTokens, Inert
  <2>7. ToStubOK'
    BY <2>6 DEF ToStubOK
  <2>8. ToHostOK'
    BY <1>6, <2>2 DEF ToHostOK
  <2>9. Counted'
    <3>1. host.timeouts < faults /\ host.timeouts \in Int /\ faults \in Int
      BY <1>1, <1>2, <1>9 DEF Counted, Hosts, GdbTypes
    <3> QED
      BY <1>1, <2>2, <3>1 DEF Counted
  <2> QED
    BY <2>2, <2>3, <2>7, <2>8, <2>9 DEF AliveOK
<1>10. CASE ~t.good
  <2>1. GetFails
    BY <1>3, <1>4, <1>10 DEF ReadReply
  <2>2. ~ReplyUnderWay
    BY <1>3, <1>4, <1>7, <1>10 DEF ReplyUnderWay, Inert
  <2> QED
    BY <1>1, <1>6, <1>7, <2>1, <2>2, GetFailsOK
<1>11. t.good \in BOOLEAN
    BY <1>1, TailOf DEF Tokens
<1> QED
    BY <1>1, <1>8, <1>9, <1>10, <1>11

-----------------------------------------------------------------------------
(* The stub and the line.                                                  *)

(* A line to the stub one token shorter, or with its head spoilt.          *)
LEMMA StubLineShrinks ==
    ASSUME Steady, host'.at = host.at, ToStubOK, toStub \in Seq(Tokens), toStub # <<>>,
           \/ toStub' = Tail(toStub)
           \/ toStub' = <<Damaged(Head(toStub))>> \o Tail(toStub),
           toHost' # <<>> => \A i \in 1 .. Len(toStub') : Inert(toStub'[i])
    PROVE  ToStubOK'
<1>1. PacketOf(host)' = PacketOf(host) /\ Obeyed' = Obeyed
    BY SteadyKeeps
<1>2. /\ Tail(toStub) \in Seq(Tokens) /\ Len(toStub) \in Nat \ {0} /\ Len(Tail(toStub)) = Len(toStub) - 1
      /\ Head(toStub) = toStub[1] /\ toStub[1] \in Tokens
      /\ \A i \in 1 .. Len(Tail(toStub)) : Tail(toStub)[i] = toStub[i + 1]
    BY TailOf
<1>3. CASE toStub' = Tail(toStub)
  <2>1. \A i \in 1 .. Len(toStub') : i + 1 \in 1 .. Len(toStub) /\ toStub'[i] = toStub[i + 1]
    BY <1>2, <1>3
  <2>2. \A i \in 1 .. Len(toStub') : toStub'[i].kind = "$" => host'.at = "ack" /\ IsPacket(toStub'[i], PacketOf(host))
    BY <2>1 DEF ToStubOK
  <2>3. \A i \in 1 .. Len(toStub') : toStub'[i].kind = "-" => Obeyed
    BY <2>1 DEF ToStubOK
  <2>4. ASSUME NEW i \in 1 .. Len(toStub'), NEW j \in 1 .. Len(toStub'), ~Inert(toStub'[i]), ~Inert(toStub'[j])
        PROVE  i = j
    <3>1. i + 1 = j + 1
      BY <2>1, <2>4 DEF ToStubOK
    <3>2. i \in Int /\ j \in Int
      OBVIOUS
    <3> QED
      BY <3>1, <3>2
  <2>5. \A i, j \in 1 .. Len(toStub') : ~Inert(toStub'[i]) /\ ~Inert(toStub'[j]) => i = j
    BY <2>4
  <2> QED
    BY <1>1, <2>2, <2>3, <2>5 DEF ToStubOK, Inert, IsPacket
<1>4. CASE toStub' = <<Damaged(Head(toStub))>> \o Tail(toStub)
  <2> DEFINE d == Damaged(Head(toStub))
  <2>1. /\ d \in Tokens
        /\ toStub[1].kind = "$" => d.kind = "$" /\ IsPacket(d, toStub[1])
        /\ toStub[1].kind # "$" => d.kind = "noise"
    BY <1>2, DamagedType
  <2>2. Len(toStub') = Len(toStub) /\ toStub'[1] = d /\ \A i \in 2 .. Len(toStub) : toStub'[i] = toStub[i]
    BY <1>4, <2>1, HeadChanged
  <2>3. \A i \in 1 .. Len(toStub) : i = 1 \/ i \in 2 .. Len(toStub)
    BY <1>2
  <2>4. /\ \A i \in 1 .. Len(toStub) : toStub[i].kind = "$" => host.at = "ack" /\ IsPacket(toStub[i], PacketOf(host))
        /\ \A i \in 1 .. Len(toStub) : toStub[i].kind = "-" => Obeyed
        /\ \A i, j \in 1 .. Len(toStub) : ~Inert(toStub[i]) /\ ~Inert(toStub[j]) => i = j
        /\ 1 \in 1 .. Len(toStub)
    BY <1>2 DEF ToStubOK
  <2> HIDE DEF d
  <2>5. \A i \in 1 .. Len(toStub') :
            /\ ~Inert(toStub'[i]) => ~Inert(toStub[i])
            /\ toStub'[i].kind = "-" => toStub[i].kind = "-"
            /\ toStub'[i].kind = "$" => toStub[i].kind = "$" /\ IsPacket(toStub'[i], toStub[i])
    BY <2>1, <2>2, <2>3 DEF Inert, IsPacket
  <2>6. \A i \in 1 .. Len(toStub') : toStub'[i].kind = "$" => host'.at = "ack" /\ IsPacket(toStub'[i], PacketOf(host))
    BY <2>2, <2>4, <2>5 DEF IsPacket
  <2> QED
    BY <1>1, <2>2, <2>4, <2>5, <2>6 DEF ToStubOK, Inert, IsPacket
<1> QED
    BY <1>3, <1>4

LEMMA FaultOK ==
    ASSUME GdbTypes, AliveOK, Alive, Fault
    PROVE  AliveOK'
<1>1. /\ faults' = faults + 1 /\ host' = host /\ stub' = stub /\ memory' = memory /\ faults \in Nat
      /\ host \in Hosts /\ toStub \in Seq(Tokens) /\ toHost \in Seq(Tokens)
    BY DEF Fault, GdbTypes
<1>2. Steady /\ host'.at = host.at
    BY <1>1 DEF Steady
<1>3. SentIsHeld(host) /\ ToStubOK /\ ToHostOK /\ Counted /\ (host.at = "start" => host.doing = "probe" /\ host.done = 0)
    BY DEF AliveOK
<1>4. SentIsHeld(host)' /\ Obeyed' = Obeyed /\ PacketOf(host)' = PacketOf(host)
    BY <1>2, <1>3, SteadyKeeps
<1>5. Counted'
  <2>1. host.timeouts \in Nat /\ host.tries \in Nat
    BY <1>1 DEF Hosts
  <2> QED
    BY <1>1, <1>3, <2>1 DEF Counted
<1>6. CASE /\ toStub # <<>> /\ toStub' \in {Tail(toStub), <<Damaged(Head(toStub))>> \o Tail(toStub)}
           /\ toHost' = toHost
  <2>1. \/ toStub' = Tail(toStub)
        \/ toStub' = <<Damaged(Head(toStub))>> \o Tail(toStub)
    BY <1>6
  <2>2. (\A i \in 1 .. Len(toStub) : Inert(toStub[i])) => \A i \in 1 .. Len(toStub') : Inert(toStub'[i])
    <3>1. /\ Len(toStub) \in Nat \ {0} /\ Len(Tail(toStub)) = Len(toStub) - 1 /\ Head(toStub) = toStub[1] /\ toStub[1] \in Tokens
          /\ \A i \in 1 .. Len(Tail(toStub)) : Tail(toStub)[i] = toStub[i + 1]
      BY <1>1, <1>6, TailOf
    <3>2. CASE toStub' = Tail(toStub)
      BY <3>1, <3>2
    <3>3. CASE toStub' = <<Damaged(Head(toStub))>> \o Tail(toStub)
      <4> DEFINE d == Damaged(Head(toStub))
      <4>1. d \in Tokens /\ (Inert(toStub[1]) => Inert(d))
        BY <3>1, DamagedType DEF Inert
      <4>2. Len(toStub') = Len(toStub) /\ toStub'[1] = d /\ \A i \in 2 .. Len(toStub) : toStub'[i] = toStub[i]
        BY <1>1, <1>6, <3>3, <4>1, HeadChanged
      <4> HIDE DEF d
      <4>3. \A i \in 1 .. Len(toStub) : i = 1 \/ i \in 2 .. Len(toStub)
        BY <3>1
      <4> QED
        BY <3>1, <4>1, <4>2, <4>3
    <3> QED
      BY <2>1, <3>2, <3>3
  <2>3. toHost' # <<>> => \A i \in 1 .. Len(toStub') : Inert(toStub'[i])
    BY <1>3, <1>6, <2>2 DEF ToStubOK
  <2>4. ToStubOK'
    BY <1>1, <1>2, <1>3, <1>6, <2>1, <2>3, StubLineShrinks
  <2>5. ToHostOK'
    BY <1>1, <1>3, <1>4, <1>6, <2>2 DEF ToHostOK
  <2> QED
    BY <1>1, <1>3, <1>4, <1>5, <2>4, <2>5 DEF AliveOK
<1>7. CASE /\ toHost # <<>> /\ toHost' \in {Tail(toHost), <<Damaged(Head(toHost))>> \o Tail(toHost)}
           /\ toStub' = toStub
  <2>1. ToStubOK'
    BY <1>1, <1>3, <1>4, <1>7 DEF ToStubOK, IsPacket, Inert
  <2>2. /\ Len(toHost) \in Nat \ {0} /\ Len(Tail(toHost)) = Len(toHost) - 1 /\ Head(toHost) = toHost[1] /\ toHost[1] \in Tokens
        /\ \A i \in 1 .. Len(Tail(toHost)) : Tail(toHost)[i] = toHost[i + 1]
    BY <1>1, <1>7, TailOf
  <2>3. Len(toHost) = 1 \/ Len(toHost) = 2
    <3>1. Len(toHost) <= 2
      BY <1>3 DEF ToHostOK
    <3>2. \A n \in Nat \ {0} : n <= 2 => n = 1 \/ n = 2
      OBVIOUS
    <3> QED
      BY <2>2, <3>1, <3>2
  <2>4. host.at \notin {"start", "done", "failed"}
    BY <1>3, <1>7 DEF ToHostOK
  <2>5. CASE toHost' = Tail(toHost)
    <3>1. CASE Len(toHost) = 1
      <4>1. Len(toHost') = 0
        BY <2>2, <2>5, <3>1
      <4>2. ToHostOK'
        BY <1>1, <1>3, <1>4, <2>4, <4>1 DEF ToHostOK
      <4> QED
        BY <1>1, <1>3, <1>4, <1>5, <2>1, <4>2 DEF AliveOK
    <3>2. CASE Len(toHost) = 2
      <4>1. Len(toHost') = 1 /\ toHost'[1] = toHost[2]
        BY <2>2, <2>5, <3>2
      <4>2. toHost[2].kind = "$" /\ toHost[2].op = stub.last /\ Obeyed
        BY <1>3, <3>2 DEF ToHostOK
      <4>3. \A i \in 1 .. Len(toHost') : i = 1 /\ toHost'[i].kind = "$" /\ toHost'[i].op = stub'.last
        BY <1>1, <4>1, <4>2
      <4>4. Len(toHost') <= 2 /\ Len(toHost') # 2
        BY <4>1
      <4>5. ToHostOK'
        BY <1>1, <1>4, <2>4, <4>1, <4>2, <4>3, <4>4 DEF ToHostOK
      <4> QED
        BY <1>1, <1>3, <1>4, <1>5, <2>1, <4>5 DEF AliveOK
    <3> QED
      BY <2>3, <3>1, <3>2
  <2>6. CASE toHost' = <<Damaged(Head(toHost))>> \o Tail(toHost)
    <3> DEFINE d == Damaged(Head(toHost))
    <3>1. /\ d \in Tokens
          /\ toHost[1].kind = "$" => d.kind = "$" /\ IsPacket(d, toHost[1])
          /\ toHost[1].kind # "$" => d.kind = "noise"
      BY <2>2, DamagedType
    <3>2. Len(toHost') = Len(toHost) /\ toHost'[1] = d /\ \A i \in 2 .. Len(toHost) : toHost'[i] = toHost[i]
      BY <1>1, <1>7, <2>6, <3>1, HeadChanged
    <3>3. \A i \in 1 .. Len(toHost) : i = 1 \/ i \in 2 .. Len(toHost)
      BY <2>2
    <3> HIDE DEF d
    <3>4. \A i \in 1 .. Len(toHost') :
            /\ toHost'[i].kind = "$" <=> toHost[i].kind = "$"
            /\ toHost'[i].kind = "$" => toHost'[i].op = toHost[i].op
            /\ toHost'[i].kind = "+" => i # 1 /\ toHost[i].kind = "+"
      BY <3>1, <3>2, <3>3 DEF IsPacket
    <3>5. ToHostOK'
      <4>1. \A i \in 1 .. Len(toHost') : toHost'[i].kind # "+"
        BY <1>3, <3>2, <3>4 DEF ToHostOK
      <4>2. \A i \in 1 .. Len(toHost') : toHost'[i].kind = "$" => i = Len(toHost') /\ toHost'[i].op = stub'.last /\ Obeyed
        BY <1>1, <1>3, <3>2, <3>4 DEF ToHostOK
      <4>3. Len(toHost') <= 2 /\ (Len(toHost') = 2 => toHost'[2].kind = "$")
        BY <1>3, <3>2, <3>4 DEF ToHostOK
      <4>4. host'.at \in {"junk", "reply"} => Obeyed /\ \A i \in 1 .. Len(toHost') : toHost'[i].kind = "$"
        BY <1>1, <1>3, <3>2, <3>4 DEF ToHostOK
      <4> QED
        BY <1>1, <1>4, <2>4, <4>1, <4>2, <4>3, <4>4 DEF ToHostOK
    <3> QED
      BY <1>1, <1>3, <1>4, <1>5, <2>1, <3>5 DEF AliveOK
  <2> QED
    BY <1>7, <2>5, <2>6
<1> QED
    BY <1>6, <1>7 DEF Fault

LEMMA AnswerIs ==
    ASSUME NEW p PROVE Answer(p) \in {"empty", "E", "OK"}
BY DEF Answer

(* The packet of the loader writes the bytes of the image in their places. *)
LEMMA WritesTheImage ==
    ASSUME NoDigitIsLost, GdbTypes, HasMore(host), host.at # "done", NEW t \in Tokens, IsPacket(t, PacketOf(host))
    PROVE  /\ Written(memory, t) \in [Addresses -> ImageBytes \cup {Blank}]
           /\ \A k \in Addresses : Written(memory, t)[k] \in {memory[k], Image[k]}
           /\ \A k \in Addresses : memory[k] = Image[k] => Written(memory, t)[k] = Image[k]
           /\ host.doing = "write" =>
                \A k \in host.done + 1 .. host.done + Taken(host.done, host.binary) : Written(memory, t)[k] = Image[k]
<1>1. host \in Hosts /\ memory \in [Addresses -> ImageBytes \cup {Blank}]
    BY DEF GdbTypes
<1>2. t.bytes = PacketOf(host).bytes /\ t.from = PacketOf(host).from
    BY DEF IsPacket
<1>3. Addresses = 1 .. Len(Image) /\ Len(Image) \in Nat /\ \A k \in Addresses : Image[k] \in ImageBytes
    BY ImageIs
<1>4. CASE host.doing = "write"
  <2> DEFINE n == Taken(host.done, host.binary)  d == host.done
  <2>1. /\ t.from = d + 1 /\ n \in 0 .. Len(Image) - d /\ Len(t.bytes) = n /\ d \in 0 .. Len(Image)
        /\ \A k \in 1 .. n : t.bytes[k] = Image[d + k]
    BY <1>1, <1>2, <1>4, PacketIs DEF Hosts
  <2> HIDE DEF n, d
  <2>2. ASSUME NEW k \in Addresses
        PROVE  Written(memory, t)[k] = IF k \in d + 1 .. d + n THEN Image[k] ELSE memory[k]
    <3>1. CASE k \in d + 1 .. d + n
      <4>1. k - (d + 1) + 1 \in 1 .. n /\ d + (k - (d + 1) + 1) = k /\ k >= d + 1 /\ k < d + 1 + n
        BY <1>3, <2>1, <3>1
      <4>2. t.bytes[k - (d + 1) + 1] = Image[k]
        BY <2>1, <4>1
      <4> QED
        BY <2>1, <3>1, <4>1, <4>2 DEF Written
    <3>2. CASE k \notin d + 1 .. d + n
      <4>1. ~(k >= d + 1 /\ k < d + 1 + n)
        BY <1>3, <2>1, <3>2
      <4> QED
        BY <2>1, <3>2, <4>1 DEF Written
    <3> QED
      BY <3>1, <3>2
  <2>3. d + 1 .. d + n \subseteq Addresses
    BY <1>3, <2>1
  <2>4. Written(memory, t) = [k \in Addresses |-> Written(memory, t)[k]]
    BY DEF Written
  <2>5. \A k \in Addresses : Written(memory, t)[k] \in ImageBytes \cup {Blank}
    BY <1>1, <1>3, <2>2
  <2>6. Written(memory, t) \in [Addresses -> ImageBytes \cup {Blank}]
    BY <2>4, <2>5
  <2> QED
    BY <2>2, <2>3, <2>6 DEF n, d
<1>5. CASE host.doing # "write"
  <2>1. t.bytes = <<>> /\ t.from = 1
    BY <1>1, <1>2, <1>5, PacketIs
  <2>2. Len(t.bytes) = 0
    BY <2>1, EmptySeq
  <2>3. \A k \in Addresses : ~(k >= 1 /\ k < 1 + 0)
    BY <1>3
  <2>4. Written(memory, t) = [k \in Addresses |-> memory[k]]
    BY <2>1, <2>2, <2>3 DEF Written
  <2> QED
    BY <1>1, <1>5, <2>4
<1> QED
    BY <1>4, <1>5

(* What the stub does of a good packet, while it listens.                  *)
LEMMA ObeyIs ==
    ASSUME stub \in Stubs, Alive, NEW t, Obey(t)
    PROVE  \/ /\ t.op = "c" /\ stub' = [stub EXCEPT !.runs = TRUE] /\ toHost' = Append(toHost, Token("+"))
              /\ memory' = memory
           \/ /\ t.op # "c" /\ stub' = [stub EXCEPT !.last = Answer(t)]
              /\ toHost' = toHost \o <<Token("+"), Packet(Answer(t), 1, <<>>)>>
              /\ memory' = IF Answer(t) = "OK" THEN Written(memory, t) ELSE memory
<1>1. CASE t.op = "c"
    BY <1>1 DEF Obey
<1>2. CASE t.op = "X" /\ ~stub.binary
  <2>1. Answer(t) = "empty"
    BY <1>2 DEF Answer
  <2>2. /\ stub' = [stub EXCEPT !.last = "empty"] /\ toHost' = toHost \o <<Token("+"), Packet("empty", 1, <<>>)>>
        /\ memory' = memory
    BY <1>2 DEF Obey
  <2> QED
    BY <1>2, <2>1, <2>2
<1>3. CASE t.op # "c" /\ ~(t.op = "X" /\ ~stub.binary) /\ stub.fails /\ t.bytes # <<>>
  <2>1. Answer(t) = "E"
    BY <1>3 DEF Answer
  <2>2. /\ stub' = [stub EXCEPT !.last = "E"] /\ toHost' = toHost \o <<Token("+"), Packet("E", 1, <<>>)>>
        /\ memory' = memory
    BY <1>3 DEF Obey
  <2> QED
    BY <1>3, <2>1, <2>2
<1>4. CASE t.op # "c" /\ ~(t.op = "X" /\ ~stub.binary) /\ ~(stub.fails /\ t.bytes # <<>>)
  <2>1. Answer(t) = "OK"
    BY <1>4 DEF Answer
  <2>2. /\ stub' = [stub EXCEPT !.last = "OK"] /\ toHost' = toHost \o <<Token("+"), Packet("OK", 1, <<>>)>>
        /\ memory' = Written(memory, t)
    BY <1>4 DEF Obey
  <2> QED
    BY <1>4, <2>1, <2>2
<1> QED
    BY <1>1, <1>2, <1>3, <1>4

(* What the stub does with the next token.                                 *)
LEMMA StubIs ==
    ASSUME GdbTypes, AliveOK, Stub
    PROVE  /\ toStub # <<>> /\ toStub' = Tail(toStub) /\ host' = host /\ faults' = faults
           /\ \/ UNCHANGED <<stub, toHost, memory>> /\ (Alive => Inert(Head(toStub)))
              \/ Alive /\ Head(toStub).kind = "$" /\ Head(toStub).good /\ Obey(Head(toStub))
              \/ /\ Alive /\ Head(toStub).kind = "$" /\ ~Head(toStub).good
                 /\ toHost' = Append(toHost, Token("-")) /\ UNCHANGED <<stub, memory>>
              \/ /\ Alive /\ Head(toStub).kind = "-" /\ stub.last # "none"
                 /\ toHost' = Append(toHost, Packet(stub.last, 1, <<>>)) /\ UNCHANGED <<stub, memory>>
<1> DEFINE t == Head(toStub)
<1>1. toStub # <<>> /\ toStub' = Tail(toStub) /\ host' = host /\ faults' = faults
    BY DEF Stub
<1>2. t \in Tokens /\ t = toStub[1] /\ 1 \in 1 .. Len(toStub)
    BY <1>1, TailOf DEF GdbTypes
<1>3. t.kind \in {"+", "-", "noise", "$"} /\ t.good \in BOOLEAN
    BY <1>2 DEF Tokens
<1>4. CASE ~Alive
    BY <1>1, <1>4 DEF Stub, Alive
<1>5. CASE Alive /\ t.kind = "$" /\ t.good
    BY <1>1, <1>5 DEF Stub, Alive
<1>6. CASE Alive /\ t.kind = "$" /\ ~t.good
    BY <1>1, <1>6 DEF Stub, Alive
<1>7. CASE Alive /\ t.kind = "-"
  <2>1. stub.last # "none"
    BY <1>2, <1>7, AnswerIs DEF AliveOK, ToStubOK, Obeyed
  <2> QED
    BY <1>1, <1>7, <2>1 DEF Stub, Alive
<1>8. CASE Alive /\ t.kind \in {"+", "noise"}
  <2>1. UNCHANGED <<stub, toHost, memory>>
    BY <1>8 DEF Stub, Alive
  <2> QED
    BY <1>1, <1>8, <2>1 DEF Inert
<1> QED
    BY <1>3, <1>4, <1>5, <1>6, <1>7, <1>8

LEMMA PacketType ==
    ASSUME NEW op \in {"empty", "E", "OK"}
    PROVE  /\ Packet(op, 1, <<>>) \in Tokens /\ Packet(op, 1, <<>>).kind = "$"
           /\ Packet(op, 1, <<>>).op = op /\ Packet(op, 1, <<>>).good
<1>1. <<>> \in Seq(ImageBytes)
    BY EmptySeq
<1> QED
    BY <1>1 DEF Packet, Tokens

LEMMA StubOK ==
    ASSUME NoDigitIsLost, GdbTypes, AliveOK, Alive, Stub
    PROVE  AliveOK'
<1> DEFINE t == Head(toStub)
<1>1. /\ toStub # <<>> /\ toStub' = Tail(toStub) /\ host' = host /\ faults' = faults /\ faults \in Nat
      /\ host \in Hosts /\ HasMore(host) /\ stub \in Stubs /\ toStub \in Seq(Tokens) /\ toHost \in Seq(Tokens)
    BY StubIs DEF GdbTypes
<1>2. /\ Tail(toStub) \in Seq(Tokens) /\ Len(toStub) \in Nat \ {0} /\ Len(Tail(toStub)) = Len(toStub) - 1
      /\ t = toStub[1] /\ t \in Tokens /\ 1 \in 1 .. Len(toStub)
      /\ \A i \in 1 .. Len(Tail(toStub)) : Tail(toStub)[i] = toStub[i + 1]
    BY <1>1, TailOf
<1>3. SentIsHeld(host) /\ ToStubOK /\ ToHostOK /\ Counted /\ (host.at = "start" => host.doing = "probe" /\ host.done = 0)
    BY DEF AliveOK
<1>4. \A i \in 1 .. Len(toStub') : i + 1 \in 1 .. Len(toStub) /\ i + 1 # 1 /\ toStub'[i] = toStub[i + 1]
    BY <1>1, <1>2
<1>5. ~Inert(t) => /\ toHost = <<>> /\ host.at \notin {"start", "done", "failed"}
                   /\ \A i \in 2 .. Len(toStub) : Inert(toStub[i])
                   /\ \A i \in 1 .. Len(toStub') : Inert(toStub'[i]) /\ toStub'[i].kind # "$" /\ toStub'[i].kind # "-"
  <2> SUFFICES ASSUME ~Inert(t)
               PROVE  /\ toHost = <<>> /\ host.at \notin {"start", "done", "failed"}
                      /\ \A i \in 2 .. Len(toStub) : Inert(toStub[i])
                      /\ \A i \in 1 .. Len(toStub') : Inert(toStub'[i]) /\ toStub'[i].kind # "$" /\ toStub'[i].kind # "-"
    OBVIOUS
  <2>1. toHost = <<>> /\ host.at \notin {"start", "done", "failed"}
    BY <1>2, <1>3 DEF ToStubOK, ToHostOK
  <2>2. \A i \in 2 .. Len(toStub) : i \in 1 .. Len(toStub) /\ i # 1
    BY <1>2
  <2>3. \A i \in 2 .. Len(toStub) : Inert(toStub[i])
    BY <1>2, <1>3, <2>2 DEF ToStubOK
  <2>4. \A i \in 1 .. Len(toStub') : i + 1 \in 2 .. Len(toStub)
    BY <1>1, <1>2
  <2>5. \A i \in 1 .. Len(toStub') : Inert(toStub'[i])
    BY <1>4, <2>3, <2>4
  <2> QED
    BY <2>1, <2>3, <2>5 DEF Inert
<1>6. CASE UNCHANGED <<stub, toHost, memory>> /\ Inert(t)
  <2>1. Steady /\ host'.at = host.at
    BY <1>1, <1>6 DEF Steady
  <2>2. SentIsHeld(host)' /\ Obeyed' = Obeyed
    BY <1>3, <2>1, SteadyKeeps
  <2>3. (\A i \in 1 .. Len(toStub) : Inert(toStub[i])) => \A i \in 1 .. Len(toStub') : Inert(toStub'[i])
    BY <1>4
  <2>4. toHost' # <<>> => \A i \in 1 .. Len(toStub') : Inert(toStub'[i])
    BY <1>3, <1>6, <2>3 DEF ToStubOK
  <2>5. ToStubOK'
    BY <1>1, <1>3, <2>1, <2>4, StubLineShrinks
  <2>6. ToHostOK'
    BY <1>1, <1>3, <1>6, <2>2, <2>3 DEF ToHostOK
  <2>7. \A i \in 1 .. Len(toStub) : ~Inert(toStub[i]) => i - 1 \in 1 .. Len(toStub') /\ toStub'[i - 1] = toStub[i]
    <3> SUFFICES ASSUME NEW i \in 1 .. Len(toStub), ~Inert(toStub[i])
                 PROVE  i - 1 \in 1 .. Len(toStub') /\ toStub'[i - 1] = toStub[i]
      OBVIOUS
    <3>1. i # 1
      BY <1>2, <1>6
    <3>2. i - 1 \in 1 .. Len(toStub') /\ (i - 1) + 1 = i
      BY <1>1, <1>2, <3>1
    <3> QED
      BY <1>4, <3>2
  <2>8. AckUnderWay => AckUnderWay'
    BY <1>6, <2>7 DEF AckUnderWay, Inert
  <2>9. ReplyUnderWay => ReplyUnderWay'
    BY <1>6, <2>7 DEF ReplyUnderWay, Inert
  <2>10. Counted'
    BY <1>1, <1>3, <2>8, <2>9 DEF Counted
  <2> QED
    BY <1>1, <1>3, <2>2, <2>5, <2>6, <2>10 DEF AliveOK
<1>7. CASE t.kind = "$" /\ t.good /\ Obey(t)
  <2>1. host.at = "ack" /\ IsPacket(t, PacketOf(host))
    BY <1>2, <1>3, <1>7 DEF ToStubOK
  <2>2. toHost = <<>> /\ \A i \in 1 .. Len(toStub') : Inert(toStub'[i]) /\ toStub'[i].kind # "$" /\ toStub'[i].kind # "-"
    BY <1>5, <1>7 DEF Inert
  <2>3. CASE t.op = "c"
    <3>1. stub' = [stub EXCEPT !.runs = TRUE]
      BY <1>1, <1>7, <2>3, ObeyIs
    <3>2. ~Alive'
      BY <1>1, <3>1 DEF Alive, Stubs
    <3> QED
      BY <3>2 DEF AliveOK
  <2>4. CASE t.op # "c"
    <3> DEFINE r == Answer(t)
    <3>1. /\ stub' = [stub EXCEPT !.last = r] /\ toHost' = toHost \o <<Token("+"), Packet(r, 1, <<>>)>>
          /\ memory' = IF r = "OK" THEN Written(memory, t) ELSE memory
      BY <1>1, <1>7, <2>4, ObeyIs
    <3>2. r \in {"empty", "E", "OK"}
      BY AnswerIs
    <3>3. stub'.last = r /\ stub'.binary = stub.binary /\ stub'.fails = stub.fails
      BY <1>1, <3>1 DEF Stubs
    <3>4. host.doing # "continue"
      <4>1. t.op = PacketOf(host).op
        BY <2>1 DEF IsPacket
      <4> QED
        BY <1>1, <2>1, <2>4, <4>1, PacketIs
    <3>5. Answer(PacketOf(host))' = r
      <4>1. PacketOf(host)' = PacketOf(host)
        BY <1>1 DEF PacketOf
      <4> QED
        BY <2>1, <3>3, <4>1 DEF Answer, IsPacket
    <3>6. /\ \A k \in Addresses : memory[k] = Image[k] => memory'[k] = Image[k]
          /\ host.doing = "write" /\ r = "OK" =>
                \A k \in host.done + 1 .. host.done + Taken(host.done, host.binary) : memory'[k] = Image[k]
      BY <1>1, <1>2, <2>1, <3>1, WritesTheImage
    <3>7. Obeyed'
      BY <1>1, <3>3, <3>4, <3>5, <3>6 DEF Obeyed, Holds
    <3>8. SentIsHeld(host)'
      <4>1. 1 .. host.done \subseteq Addresses
        BY <1>1, ImageIs DEF Hosts
      <4>2. Holds(1, host.done) => Holds(1, host.done)'
        BY <1>1, <3>6, <4>1 DEF Holds
      <4> QED
        BY <1>1, <1>3, <3>3, <4>2 DEF SentIsHeld
    <3>9. /\ Token("+") \in Tokens /\ Token("+").kind = "+"
          /\ Packet(r, 1, <<>>) \in Tokens /\ Packet(r, 1, <<>>).kind = "$"
          /\ Packet(r, 1, <<>>).op = r /\ Packet(r, 1, <<>>).good
      BY <3>2, TokenType, PacketType
    <3> HIDE DEF r
    <3>10. Len(toHost') = 2 /\ toHost'[1] = Token("+") /\ toHost'[2] = Packet(r, 1, <<>>)
      <4>1. Len(toHost) = 0
        BY <2>2, EmptySeq
      <4> QED
        BY <1>1, <3>1, <3>9, <4>1, PushedTwo
    <3>11. ToStubOK'
      BY <2>2 DEF ToStubOK
    <3>12. ToHostOK'
      <4>1. \A i \in 1 .. Len(toHost') : i = 1 \/ i = 2
        BY <3>10
      <4>2. \A i \in 1 .. Len(toHost') : toHost'[i].kind = "$" => i = Len(toHost') /\ toHost'[i].op = stub'.last
        BY <3>3, <3>9, <3>10, <4>1
      <4>3. \A i \in 1 .. Len(toHost') : toHost'[i].kind = "+" => i = 1
        BY <3>9, <3>10, <4>1
      <4>4. host'.at = "ack" /\ Len(toHost') <= 2
        BY <1>1, <2>1, <3>10
      <4> QED
        BY <3>7, <3>9, <3>10, <4>2, <4>3, <4>4 DEF ToHostOK
    <3>13. Counted'
      <4>1. AckUnderWay'
        BY <3>9, <3>10 DEF AckUnderWay
      <4> QED
        BY <1>1, <1>3, <2>1, <4>1 DEF Counted
    <3> QED
      BY <1>1, <2>1, <3>8, <3>11, <3>12, <3>13 DEF AliveOK
  <2> QED
    BY <2>3, <2>4
<1>8. CASE t.kind = "$" /\ ~t.good /\ toHost' = Append(toHost, Token("-")) /\ UNCHANGED <<stub, memory>>
  <2>1. host.at = "ack"
    BY <1>2, <1>3, <1>8 DEF ToStubOK
  <2>2. /\ toHost = <<>> /\ \A i \in 2 .. Len(toStub) : Inert(toStub[i])
        /\ \A i \in 1 .. Len(toStub') : Inert(toStub'[i]) /\ toStub'[i].kind # "$" /\ toStub'[i].kind # "-"
    BY <1>5, <1>8 DEF Inert
  <2>3. Steady
    BY <1>1, <1>8 DEF Steady
  <2>4. SentIsHeld(host)'
    BY <1>3, <2>3, SteadyKeeps
  <2>5. Len(toHost) = 0
    BY <2>2, EmptySeq
  <2>6. Len(toHost') = 1 /\ toHost'[1].kind = "-"
    BY <1>1, <1>8, <2>5, TokenType, Pushed
  <2>7. ToStubOK'
    BY <2>2 DEF ToStubOK
  <2>8. ToHostOK'
    BY <1>1, <2>1, <2>6 DEF ToHostOK
  <2>9. ~AckUnderWay
    <3>1. \A i \in 1 .. Len(toStub) : i = 1 \/ i \in 2 .. Len(toStub)
      BY <1>2
    <3> QED
      BY <1>2, <1>8, <2>2, <2>5, <3>1 DEF AckUnderWay, Inert
  <2>10. Counted'
    BY <1>1, <1>3, <2>1, <2>9 DEF Counted
  <2> QED
    BY <1>1, <2>1, <2>4, <2>7, <2>8, <2>10 DEF AliveOK
<1>9. CASE /\ t.kind = "-" /\ stub.last # "none"
           /\ toHost' = Append(toHost, Packet(stub.last, 1, <<>>)) /\ UNCHANGED <<stub, memory>>
  <2>1. Obeyed
    BY <1>2, <1>3, <1>9 DEF ToStubOK
  <2>2. /\ toHost = <<>> /\ host.at \notin {"start", "done", "failed"} /\ \A i \in 2 .. Len(toStub) : Inert(toStub[i])
        /\ \A i \in 1 .. Len(toStub') : Inert(toStub'[i]) /\ toStub'[i].kind # "$" /\ toStub'[i].kind # "-"
    BY <1>5, <1>9 DEF Inert
  <2>3. Steady
    BY <1>1, <1>9 DEF Steady
  <2>4. SentIsHeld(host)' /\ Obeyed'
    BY <1>3, <2>1, <2>3, SteadyKeeps
  <2>5. Len(toHost) = 0
    BY <2>2, EmptySeq
  <2>6. stub.last \in {"empty", "E", "OK"}
    BY <1>1, <1>9 DEF Stubs
  <2>7. Len(toHost') = 1 /\ toHost'[1] = Packet(stub.last, 1, <<>>)
    BY <1>1, <1>9, <2>5, <2>6, PacketType, Pushed
  <2>8. toHost'[1].kind = "$" /\ toHost'[1].op = stub'.last /\ toHost'[1].good
    BY <1>9, <2>6, <2>7, PacketType
  <2>9. ToStubOK'
    BY <2>2 DEF ToStubOK
  <2>10. ToHostOK'
    <3>1. \A i \in 1 .. Len(toHost') : i = 1 /\ i = Len(toHost')
      BY <2>7
    <3>2. Len(toHost') <= 2 /\ Len(toHost') # 2
      BY <2>7
    <3> QED
      BY <1>1, <2>2, <2>4, <2>8, <3>1, <3>2 DEF ToHostOK
  <2>11. ~AckUnderWay
    <3>1. \A i \in 1 .. Len(toStub) : i = 1 \/ i \in 2 .. Len(toStub)
      BY <1>2
    <3> QED
      BY <1>2, <1>9, <2>2, <2>5, <3>1 DEF AckUnderWay, Inert
  <2>12. ReplyUnderWay'
    BY <2>7, <2>8 DEF ReplyUnderWay
  <2>13. Counted'
    BY <1>1, <1>3, <2>11, <2>12 DEF Counted
  <2> QED
    BY <1>1, <1>3, <2>2, <2>4, <2>9, <2>10, <2>13 DEF AliveOK
<1> QED
    BY <1>6, <1>7, <1>8, <1>9, StubIs

(* Characters nobody asked for, and their passing over, change no more.    *)
LEMMA StepsOfGdb ==
    ASSUME [GdbNext]_gdbVars
    PROVE  Loader \/ Stub \/ StubDies \/ Fault \/ UNCHANGED protocolVars
BY DEF GdbNext, Talk, PassOver, gdbVars

LEMMA AliveStep ==
    ASSUME NoDigitIsLost, GdbTypes, AliveOK, [GdbNext]_gdbVars
    PROVE  AliveOK'
<1>1. CASE ~Alive
  <2>1. ~Alive'
    <3>1. stub.dead \/ stub.runs
      BY <1>1 DEF Alive
    <3>2. CASE Loader \/ Fault \/ UNCHANGED protocolVars
      BY <3>1, <3>2 DEF Loader, Fault, OpenFails, Begin, ReadAck, ReadReply, AckTimeout, ReplyTimeout, protocolVars, Alive
    <3>3. CASE Stub
      BY <1>1, <3>1, <3>3, StubIs DEF Alive
    <3>4. CASE StubDies
      <4>1. stub' = [stub EXCEPT !.dead = TRUE] /\ stub \in Stubs
        BY <3>4 DEF StubDies, GdbTypes
      <4> QED
        BY <4>1 DEF Alive, Stubs
    <3> QED
      BY <3>2, <3>3, <3>4, StepsOfGdb
  <2> QED
    BY <2>1 DEF AliveOK
<1>2. CASE Alive
  <2>1. CASE UNCHANGED protocolVars
    <3>1. Steady
      BY <2>1 DEF Steady, protocolVars
    <3>2. PacketOf(host)' = PacketOf(host) /\ Obeyed' = Obeyed /\ (SentIsHeld(host) => SentIsHeld(host)')
      BY <3>1, SteadyKeeps
    <3> QED
      BY <1>2, <2>1, <3>2
      DEF AliveOK, ToStubOK, ToHostOK, Counted, AckUnderWay, ReplyUnderWay, Inert, IsPacket, protocolVars
  <2>2. CASE StubDies
    <3>1. ~Alive'
      BY <2>2 DEF StubDies, Alive, GdbTypes, Stubs
    <3> QED
      BY <3>1 DEF AliveOK
  <2> QED
    BY <1>2, <2>1, <2>2, BeginOK, OpenFailsOK, ReadAckOK, ReadReplyOK, AckTimeoutOK, ReplyTimeoutOK, StubOK, FaultOK,
       StepsOfGdb DEF Loader
<1> QED
    BY <1>1, <1>2

-----------------------------------------------------------------------------
(* Types, memory and the program that is started.                          *)

LEMMA LoaderTyped ==
    ASSUME NoDigitIsLost, GdbTypes, Loader
    PROVE  /\ host' \in Hosts /\ HasMore(host') /\ toStub' \in Seq(Tokens) /\ toHost' \in Seq(Tokens)
           /\ stub' = stub /\ memory' = memory /\ faults' = faults
<1>1. /\ host \in Hosts /\ HasMore(host) /\ toStub \in Seq(Tokens) /\ toHost \in Seq(Tokens)
    BY DEF GdbTypes
<1>2. toHost # <<>> => Tail(toHost) \in Seq(Tokens)
    BY <1>1, TailOf
<1>3. CASE OpenFails
  <2>1. host' \in Hosts /\ host'.doing = host.doing /\ host'.done = host.done /\ host'.at = "failed" /\ host.at = "start"
    BY <1>1, <1>3 DEF OpenFails, Hosts
  <2> QED
    BY <1>1, <1>3, <2>1 DEF OpenFails, HasMore
<1>4. CASE Begin
  <2>1. PutPacket(host, <<Token("+")>>) /\ host.at = "start"
    BY <1>4 DEF Begin
  <2>2. host.doing = "write" => host.done < Len(Image)
    BY <1>1, <2>1 DEF HasMore
  <2> QED
    BY <1>1, <1>4, <2>1, <2>2, PlusInert, PutTypes DEF Begin
<1>5. CASE ReadAck
  <2> DEFINE t == Head(toHost)
  <2>1. host.at = "ack" /\ toHost # <<>> /\ toHost' = Tail(toHost)
    BY <1>5 DEF ReadAck, Read
  <2>2. CASE t.kind = "+"
    <3>1. AfterPut(host)
      BY <1>5, <2>2 DEF ReadAck
    <3> QED
      BY <1>1, <1>2, <1>5, <2>1, <3>1, AfterPutTyped DEF ConcludeTypes, ReadAck
  <2>3. CASE t.kind = "$"
    <3>1. host' = [host EXCEPT !.at = "junk", !.tries = 1] /\ toStub' = toStub
      BY <1>5, <2>3 DEF ReadAck
    <3>2. 1 \in 1 .. MAX_TRIES
      BY GdbAssumption
    <3>3. host' \in Hosts /\ host'.doing = host.doing /\ host'.done = host.done
      BY <1>1, <3>1, <3>2 DEF Hosts
    <3> QED
      BY <1>1, <1>2, <1>5, <2>1, <3>1, <3>3 DEF ReadAck, HasMore
  <2>4. CASE t.kind # "+" /\ t.kind # "$"
    BY <1>1, <1>2, <1>5, <2>1, <2>4 DEF ReadAck
  <2> QED
    BY <2>2, <2>3, <2>4
<1>6. CASE ReadReply
  <2> DEFINE t == Head(toHost)
  <2>1. host.at \in {"reply", "junk"} /\ toHost # <<>> /\ toHost' = Tail(toHost)
    BY <1>6 DEF ReadReply, Read
  <2>2. t.good \in BOOLEAN
    BY <1>1, <2>1, TailOf DEF Tokens
  <2>3. CASE t.kind = "$" /\ t.good /\ host.at = "reply"
    <3>1. AfterReply(host, t.op, <<Token("+")>>)
      BY <1>6, <2>3 DEF ReadReply
    <3> QED
      BY <1>1, <1>2, <1>6, <2>1, <3>1, PlusInert, AfterReplyTyped DEF ConcludeTypes, ReadReply
  <2>4. CASE t.kind = "$" /\ t.good /\ host.at = "junk"
    <3>1. toStub' = Append(toStub, Token("+")) /\ host' = [host EXCEPT !.at = "ack"]
      BY <1>6, <2>4 DEF ReadReply, Send
    <3>2. host' \in Hosts /\ host'.doing = host.doing /\ host'.done = host.done /\ host'.at = "ack"
      BY <1>1, <3>1 DEF Hosts
    <3> QED
      BY <1>1, <1>2, <1>6, <2>1, <2>4, <3>1, <3>2, TokenType, Pushed DEF ReadReply, HasMore
  <2>5. CASE t.kind = "$" /\ ~t.good
    <3>1. GetFails
      BY <1>6, <2>5 DEF ReadReply
    <3> QED
      BY <1>2, <1>6, <2>1, <3>1, GetFailsTyped DEF ConcludeTypes, ReadReply
  <2>6. CASE t.kind # "$"
    BY <1>1, <1>2, <1>6, <2>1, <2>6 DEF ReadReply
  <2> QED
    BY <2>1, <2>2, <2>3, <2>4, <2>5, <2>6
<1>7. CASE AckTimeout
  <2>1. host.at = "ack" /\ toHost' = toHost
    BY <1>7 DEF AckTimeout
  <2>2. CASE PutGivesUp(host)
    <3>1. AfterPut(host)
      BY <1>7, <2>2 DEF AckTimeout
    <3> QED
      BY <1>1, <1>7, <2>1, <3>1, AfterPutTyped DEF ConcludeTypes, AckTimeout
  <2>3. CASE ~PutGivesUp(host)
    <3>1. toStub' = Append(toStub, PacketOf(host)) /\ host' = [host EXCEPT !.timeouts = @ + 1]
      BY <1>7, <2>3 DEF AckTimeout, Send, SentAgain
    <3>2. host.timeouts + 1 \in 0 .. PutTries
      BY <1>1, <2>3, GdbAssumption DEF Hosts, PutGivesUp
    <3>3. host' \in Hosts /\ host'.doing = host.doing /\ host'.done = host.done /\ host'.at = "ack"
      BY <1>1, <2>1, <3>1, <3>2 DEF Hosts
    <3>4. PacketOf(host) \in Tokens
      BY <1>1, <2>1, PacketIs
    <3> QED
      BY <1>1, <1>7, <2>1, <3>1, <3>3, <3>4, Pushed DEF AckTimeout, HasMore
  <2> QED
    BY <2>2, <2>3
<1>8. CASE ReplyTimeout
    BY <1>1, <1>8, GetFailsTyped DEF ReplyTimeout, ConcludeTypes
<1> QED
    BY <1>3, <1>4, <1>5, <1>6, <1>7, <1>8 DEF Loader

(* What the loader never takes back.                                       *)
KeepsWord(h) == host'.docont = h.docont /\ (h.refused => host'.refused)

LEMMA ConcludeKeeps ==
    ASSUME NEW h \in Hosts, NEW before
    PROVE  /\ PutPacket(h, before) => KeepsWord(h)
           /\ Conclude(h, before) => KeepsWord(h)
           /\ GoOn(h, before) => KeepsWord(h)
<1>1. ASSUME NEW g \in Hosts, PutPacket(g, before) PROVE KeepsWord(g)
    BY <1>1 DEF PutPacket, KeepsWord, Hosts
<1>2. ASSUME Conclude(h, before) PROVE KeepsWord(h)
  <2>1. CASE h.docont
    <3> DEFINE g == [h EXCEPT !.doing = "continue"]
    <3>1. g \in Hosts /\ g.docont = h.docont /\ g.refused = h.refused /\ PutPacket(g, before)
      BY <1>2, <2>1 DEF Conclude, Hosts
    <3> HIDE DEF g
    <3> QED
      BY <1>1, <3>1 DEF KeepsWord
  <2>2. CASE ~h.docont
    BY <1>2, <2>2 DEF Conclude, KeepsWord, Hosts
  <2> QED
    BY <2>1, <2>2
<1>3. ASSUME GoOn(h, before) PROVE KeepsWord(h)
  <2>1. CASE h.done < Len(Image)
    <3> DEFINE g == [h EXCEPT !.doing = "write"]
    <3>1. g \in Hosts /\ g.docont = h.docont /\ g.refused = h.refused /\ PutPacket(g, before)
      BY <1>3, <2>1 DEF GoOn, Hosts
    <3> HIDE DEF g
    <3> QED
      BY <1>1, <3>1 DEF KeepsWord
  <2>2. CASE ~(h.done < Len(Image))
    BY <1>2, <1>3, <2>2 DEF GoOn
  <2> QED
    BY <2>1, <2>2
<1> QED
    BY <1>1, <1>2, <1>3

LEMMA AfterReplyKeeps ==
    ASSUME NEW h \in Hosts, NEW before, NEW reply, AfterReply(h, reply, before)
    PROVE  KeepsWord(h)
<1>1. CASE h.doing = "probe"
  <2> DEFINE g == [h EXCEPT !.binary = reply # "empty"]
  <2>1. g \in Hosts /\ g.docont = h.docont /\ g.refused = h.refused /\ GoOn(g, before)
    BY <1>1 DEF AfterReply, Hosts
  <2> HIDE DEF g
  <2> QED
    BY <2>1, ConcludeKeeps DEF KeepsWord
<1>2. CASE h.doing = "write" /\ reply = "E"
  <2> DEFINE g == [h EXCEPT !.refused = TRUE]
  <2>1. g \in Hosts /\ g.docont = h.docont /\ g.refused /\ Conclude(g, before)
    BY <1>2 DEF AfterReply, Hosts
  <2> HIDE DEF g
  <2> QED
    BY <2>1, ConcludeKeeps DEF KeepsWord
<1>3. CASE h.doing # "probe" /\ ~(h.doing = "write" /\ reply = "E")
  <2> DEFINE g == Advanced(h)
  <2>1. g \in Hosts /\ g.docont = h.docont /\ g.refused = h.refused
    BY AdvancedType
  <2>2. GoOn(g, before)
    BY <1>3 DEF AfterReply
  <2> HIDE DEF g
  <2> QED
    BY <2>1, <2>2, ConcludeKeeps DEF KeepsWord
<1> QED
    BY <1>1, <1>2, <1>3

LEMMA LoaderKeeps ==
    ASSUME GdbTypes, Loader
    PROVE  KeepsWord(host)
<1>1. host \in Hosts
    BY DEF GdbTypes
<1>2. ASSUME GetFails PROVE KeepsWord(host)
    BY <1>1, <1>2, AfterReplyKeeps DEF GetFails, KeepsWord, Hosts
<1>3. ASSUME AfterPut(host) PROVE KeepsWord(host)
    BY <1>1, <1>3 DEF AfterPut, KeepsWord, Hosts
<1>4. CASE OpenFails
    BY <1>1, <1>4 DEF OpenFails, KeepsWord, Hosts
<1>5. CASE Begin
    BY <1>1, <1>5, ConcludeKeeps DEF Begin
<1>6. CASE ReadAck
  <2>1. \/ AfterPut(host)
        \/ host' = [host EXCEPT !.at = "junk", !.tries = 1]
        \/ host' = host
    BY <1>6 DEF ReadAck
  <2> QED
    BY <1>1, <1>3, <2>1 DEF KeepsWord, Hosts
<1>7. CASE ReadReply
  <2>1. \/ AfterReply(host, Head(toHost).op, <<Token("+")>>)
        \/ host' = [host EXCEPT !.at = "ack"]
        \/ GetFails
        \/ host' = host
    BY <1>7 DEF ReadReply
  <2> QED
    BY <1>1, <1>2, <2>1, AfterReplyKeeps DEF KeepsWord, Hosts
<1>8. CASE AckTimeout
    BY <1>1, <1>3, <1>8 DEF AckTimeout, SentAgain, KeepsWord, Hosts
<1>9. CASE ReplyTimeout
    BY <1>2, <1>9 DEF ReplyTimeout
<1> QED
    BY <1>4, <1>5, <1>6, <1>7, <1>8, <1>9 DEF Loader

LEMMA MemoryIsImage ==
    ASSUME memory \in [Addresses -> ImageBytes \cup {Blank}], Holds(1, Len(Image))
    PROVE  memory = Image
<1>1. Image \in [Addresses -> ImageBytes]
    BY ImageIs, LenProperties
<1>2. \A k \in Addresses : memory[k] = Image[k]
    BY ImageIs DEF Holds
<1> QED
    BY <1>1, <1>2

LEMMA StubStep ==
    ASSUME NoDigitIsLost, GdbInv, Stub
    PROVE  GdbTypes' /\ InPlace' /\ RunsTheImage'
<1> DEFINE t == Head(toStub)
<1>1. /\ GdbTypes /\ AliveOK /\ toStub # <<>> /\ toStub' = Tail(toStub) /\ host' = host /\ faults' = faults
      /\ host \in Hosts /\ HasMore(host) /\ stub \in Stubs /\ toStub \in Seq(Tokens) /\ toHost \in Seq(Tokens)
      /\ memory \in [Addresses -> ImageBytes \cup {Blank}] /\ faults \in 0 .. MaxFaults
    BY StubIs DEF GdbInv, GdbTypes
<1>2. Tail(toStub) \in Seq(Tokens) /\ t \in Tokens /\ t = toStub[1] /\ 1 \in 1 .. Len(toStub)
    BY <1>1, TailOf
<1>3. \A u \in Tokens : Append(toHost, u) \in Seq(Tokens)
    BY <1>1, Pushed
<1>4. Token("-") \in Tokens /\ Token("+") \in Tokens
    BY TokenType
<1>5. CASE UNCHANGED <<stub, toHost, memory>>
    BY <1>1, <1>2, <1>5 DEF GdbTypes, GdbInv, InPlace, RunsTheImage
<1>6. CASE Alive /\ t.kind = "$" /\ t.good /\ Obey(t)
  <2>1. ToStubOK /\ SentIsHeld(host)
    BY <1>1, <1>6 DEF AliveOK
  <2>2. host.at = "ack" /\ IsPacket(t, PacketOf(host))
    BY <1>2, <1>6, <2>1 DEF ToStubOK
  <2>3. CASE t.op = "c"
    <3>1. stub' = [stub EXCEPT !.runs = TRUE] /\ toHost' = Append(toHost, Token("+")) /\ memory' = memory
      BY <1>1, <1>6, <2>3, ObeyIs
    <3>2. stub' \in Stubs
      BY <1>1, <3>1 DEF Stubs
    <3>3. host.doing = "continue"
      <4>1. PacketOf(host).op = "c"
        BY <2>2, <2>3 DEF IsPacket
      <4> QED
        BY <1>1, <2>2, <4>1, PacketIs
    <3>4. host.docont /\ (~host.refused => memory = Image)
      BY <1>1, <2>1, <3>3, MemoryIsImage DEF SentIsHeld
    <3> QED
      BY <1>1, <1>2, <1>3, <1>4, <3>1, <3>2, <3>4 DEF GdbTypes, GdbInv, InPlace, RunsTheImage
  <2>4. CASE t.op # "c"
    <3> DEFINE r == Answer(t)
    <3>1. /\ stub' = [stub EXCEPT !.last = r] /\ toHost' = toHost \o <<Token("+"), Packet(r, 1, <<>>)>>
          /\ memory' = IF r = "OK" THEN Written(memory, t) ELSE memory
      BY <1>1, <1>6, <2>4, ObeyIs
    <3>2. r \in {"empty", "E", "OK"}
      BY AnswerIs
    <3> HIDE DEF r
    <3>3. stub' \in Stubs /\ ~stub'.runs
      BY <1>1, <1>6, <3>1, <3>2 DEF Stubs, Alive
    <3>4. toHost' \in Seq(Tokens)
      BY <1>1, <1>4, <3>1, <3>2, PacketType, PushedTwo
    <3>5. /\ Written(memory, t) \in [Addresses -> ImageBytes \cup {Blank}]
          /\ \A k \in Addresses : Written(memory, t)[k] \in {memory[k], Image[k]}
      BY <1>1, <1>2, <2>2, WritesTheImage
    <3>6. memory' \in [Addresses -> ImageBytes \cup {Blank}]
      BY <1>1, <3>1, <3>5
    <3>7. \A k \in Addresses : memory'[k] \in {memory[k], Image[k]}
      BY <3>1, <3>5
    <3>8. InPlace'
      BY <3>7 DEF GdbInv, InPlace
    <3> QED
      BY <1>1, <1>2, <3>3, <3>4, <3>6, <3>8 DEF GdbTypes, RunsTheImage
  <2> QED
    BY <2>3, <2>4
<1>7. CASE toHost' = Append(toHost, Token("-")) /\ UNCHANGED <<stub, memory>>
    BY <1>1, <1>2, <1>3, <1>4, <1>7 DEF GdbTypes, GdbInv, InPlace, RunsTheImage
<1>8. CASE stub.last # "none" /\ toHost' = Append(toHost, Packet(stub.last, 1, <<>>)) /\ UNCHANGED <<stub, memory>>
  <2>1. stub.last \in {"empty", "E", "OK"}
    BY <1>1, <1>8 DEF Stubs
  <2>2. Packet(stub.last, 1, <<>>) \in Tokens
    BY <2>1, PacketType
  <2> QED
    BY <1>1, <1>2, <1>3, <1>8, <2>2 DEF GdbTypes, GdbInv, InPlace, RunsTheImage
<1> QED
    BY <1>1, <1>5, <1>6, <1>7, <1>8, StubIs

LEMMA FaultTyped ==
    ASSUME GdbTypes, Fault
    PROVE  toStub' \in Seq(Tokens) /\ toHost' \in Seq(Tokens) /\ faults' \in 0 .. MaxFaults
<1>1. ASSUME NEW s \in Seq(Tokens), s # <<>>
      PROVE  Tail(s) \in Seq(Tokens) /\ <<Damaged(Head(s))>> \o Tail(s) \in Seq(Tokens)
  <2>1. Tail(s) \in Seq(Tokens) /\ Head(s) \in Tokens
    BY <1>1, TailOf
  <2>2. Damaged(Head(s)) \in Tokens
    BY <2>1, DamagedType
  <2> QED
    BY <1>1, <2>1, <2>2, HeadChanged
<1>2. faults' \in 0 .. MaxFaults
    BY GdbAssumption DEF Fault, GdbTypes
<1>3. toStub \in Seq(Tokens) /\ toHost \in Seq(Tokens)
    BY DEF GdbTypes
<1> QED
    BY <1>1, <1>2, <1>3 DEF Fault

LEMMA GdbSteps ==
    ASSUME NoDigitIsLost, GdbInv, [GdbNext]_gdbVars
    PROVE  GdbInv'
<1>1. GdbTypes /\ InPlace /\ RunsTheImage /\ AliveOK
    BY DEF GdbInv
<1>2. AliveOK'
    BY <1>1, AliveStep
<1>3. CASE Loader
  <2>1. /\ host' \in Hosts /\ HasMore(host') /\ toStub' \in Seq(Tokens) /\ toHost' \in Seq(Tokens)
        /\ stub' = stub /\ memory' = memory /\ faults' = faults
    BY <1>1, <1>3, LoaderTyped
  <2>2. KeepsWord(host)
    BY <1>1, <1>3, LoaderKeeps
  <2>3. GdbTypes' /\ InPlace'
    BY <1>1, <2>1 DEF GdbTypes, InPlace
  <2>4. RunsTheImage'
    BY <1>1, <2>1, <2>2 DEF RunsTheImage, KeepsWord
  <2> QED
    BY <1>2, <2>3, <2>4 DEF GdbInv
<1>4. CASE Stub
    BY <1>2, <1>4, StubStep DEF GdbInv
<1>5. CASE StubDies
  <2>1. stub' = [stub EXCEPT !.dead = TRUE] /\ UNCHANGED <<host, toStub, toHost, memory, faults>> /\ stub \in Stubs
    BY <1>1, <1>5 DEF StubDies, GdbTypes
  <2>2. stub' \in Stubs /\ stub'.runs = stub.runs
    BY <2>1 DEF Stubs
  <2> QED
    BY <1>1, <1>2, <2>1, <2>2 DEF GdbInv, GdbTypes, InPlace, RunsTheImage
<1>6. CASE Fault
  <2>1. UNCHANGED <<host, stub, memory>>
    BY <1>6 DEF Fault
  <2> QED
    BY <1>1, <1>2, <1>6, <2>1, FaultTyped DEF GdbInv, GdbTypes, InPlace, RunsTheImage
<1>7. CASE UNCHANGED protocolVars
    BY <1>1, <1>2, <1>7 DEF GdbInv, GdbTypes, InPlace, RunsTheImage, protocolVars
<1> QED
    BY <1>3, <1>4, <1>5, <1>6, <1>7, StepsOfGdb

LEMMA InitGdb == GdbInit => GdbInv
<1> SUFFICES ASSUME GdbInit PROVE GdbInv
    OBVIOUS
<1>1. PICK docont \in BOOLEAN :
        host = [at |-> "start", doing |-> "probe", done |-> 0, binary |-> TRUE, refused |-> FALSE,
                timeouts |-> 0, tries |-> 1, docont |-> docont]
    BY DEF GdbInit
<1>2. /\ toStub = <<>> /\ toHost = <<>> /\ faults = 0 /\ memory = [k \in Addresses |-> Blank]
      /\ stub \in [last : {"none"}, binary : BOOLEAN, fails : BOOLEAN, runs : {FALSE}, dead : {FALSE}]
    BY DEF GdbInit
<1>3. host \in Hosts
  <2>1. 0 \in 0 .. Len(Image) /\ 0 \in 0 .. PutTries /\ 1 \in 1 .. MAX_TRIES
    BY ImageIs, GdbAssumption
  <2> QED
    BY <1>1, <2>1 DEF Hosts
<1>4. /\ host.at = "start" /\ host.doing = "probe" /\ host.done = 0 /\ ~host.refused
    BY <1>1
<1>5. stub \in Stubs /\ ~stub.runs
    BY <1>2 DEF Stubs
<1>6. toStub \in Seq(Tokens) /\ toHost \in Seq(Tokens) /\ Len(toStub) = 0 /\ Len(toHost) = 0
    BY <1>2, EmptySeq
<1>7. memory \in [Addresses -> ImageBytes \cup {Blank}] /\ InPlace
    BY <1>2 DEF InPlace
<1>8. faults \in 0 .. MaxFaults
    BY <1>2, GdbAssumption
<1>9. GdbTypes
    BY <1>3, <1>4, <1>5, <1>6, <1>7, <1>8 DEF GdbTypes, HasMore
<1>10. SentIsHeld(host) /\ ToStubOK /\ ToHostOK /\ Counted
    BY <1>2, <1>4, <1>6 DEF SentIsHeld, Holds, ToStubOK, ToHostOK, Counted
<1> QED
    BY <1>4, <1>5, <1>7, <1>9, <1>10 DEF GdbInv, AliveOK, RunsTheImage

LEMMA StubGets == GdbInv => StubGetsImage
<1> SUFFICES ASSUME GdbInv PROVE StubGetsImage
    OBVIOUS
<1>1. GdbTypeOK
    BY DEF GdbInv, GdbTypes, Hosts, GdbTypeOK
<1> QED
    BY <1>1 DEF GdbInv, StubGetsImage

(* Whatever tokens the line loses or spoils, fewer than getpkt tries.      *)
THEOREM StubGetsTheImage ==
    ASSUME NoDigitIsLost
    PROVE  GdbSpec => []StubGetsImage
<1>1. GdbInit => GdbInv
    BY InitGdb
<1>2. GdbInv /\ [GdbNext]_gdbVars => GdbInv'
    BY GdbSteps
<1>3. GdbInv => StubGetsImage
    BY StubGets
<1> QED
    BY <1>1, <1>2, <1>3, PTL DEF GdbSpec

-----------------------------------------------------------------------------
(* The tools together.                                                     *)

(* Each tool, whichever is chosen, does what it does alone.                *)
LEMMA ToolsAlone ==
    /\ HostInit => GdbInit /\ UpdaterInit
    /\ [HostNext]_hostVars => [GdbNext]_gdbVars /\ [UpdaterNext]_updaterVars
<1>1. HostInit => GdbInit /\ UpdaterInit
    BY DEF HostInit
<1>2. [HostNext]_hostVars => [GdbNext]_gdbVars /\ [UpdaterNext]_updaterVars
    BY DEF HostNext, hostVars, FwEnvTool, GdbTool, UpdaterTool
<1> QED
    BY <1>1, <1>2

(* What the loader sends or the updater writes is what the board has when  *)
(* it starts it or reports it, for any image none of whose packets loses a *)
(* digit of its length.                                                    *)
THEOREM ImagesAreWhole ==
    ASSUME NoDigitIsLost
    PROVE  HostSpec => []ImagesArrive
<1>1. HostInit => GdbInv /\ UpdaterInv
    BY ToolsAlone, InitGdb, InitUpdater
<1>2. GdbInv /\ UpdaterInv /\ [HostNext]_hostVars => (GdbInv /\ UpdaterInv)'
    BY ToolsAlone, GdbSteps, UpdaterStep
<1>3. GdbInv /\ UpdaterInv => ImagesArrive
    BY StubGets, UpdaterReports DEF ImagesArrive
<1> QED
    BY <1>1, <1>2, <1>3, PTL DEF HostSpec
=============================================================================
