------------------------------- MODULE SetEnv -------------------------------
(***************************************************************************)
(* The environment of the boot loader, which setenv edits in place, and    *)
(* the settings that follow it: console devices, baud rate, addresses.     *)
(* text is the data of env_ptr; a string is a sequence of tokens, one for  *)
(* a name or a value as a whole, except that "=", " " and NUL are tokens.  *)
(***************************************************************************)
EXTENDS Integers, SequencesExt

CONSTANTS
    EnvSize,                \* ENV_SIZE, in tokens
    Sessions, EnvValues,    \* the names (with or without "=") that one session
                            \* sets, and values
    Devices,                \* the device list: name, in, out and start
    BaudRates,
    DefaultEntries          \* default_environment, a sequence of <<name, value>>

ASSUME SetEnvAssumption == EnvSize \in Nat \ {0} /\ Devices # <<>>

VARIABLES
    names,                  \* those of this session
    text, stdio,            \* stdio_devices, the names of the devices
    devinit,                \* GD_FLG_DEVINIT
    baud, macs,             \* gd->baudrate; the MAC of each Ethernet device
    board,                  \* bi_ip_addr, load_addr, BootFile
    stopped,                \* by an exception
    expected,               \* what the commands should have left
    irregular               \* a variable was lost or a name held "="

setEnvVars == <<names, text, stdio, devinit, baud, macs, board, stopped, expected, irregular>>

NUL == "NUL"
Zero == <<"0">>
Undefined == <<"undefined">>

Files == {"stdin", "stdout", "stderr"}
WriteOnce == {<<"ethaddr">>, <<"serial#">>}
EthIndex == [n \in {<<"ethaddr">>, <<"eth1addr">>} |-> IF n = <<"ethaddr">> THEN 0 ELSE 1]
BoardNames == {<<"ipaddr">>, <<"loadaddr">>, <<"bootfile">>}

(* What envmatch compares of a name: a name=value pair names the variable  *)
(* before the "=".                                                         *)
Named(n) == IF Contains(n, "=") THEN SubSeq(n, 1, SelectInSeq(n, LAMBDA c : c = "=") - 1) ELSE n

(* The first of the two NULs that end the text.                            *)
End(d) == CHOOSE i \in 1 .. EnvSize - 1 :
              d[i] = NUL /\ d[i + 1] = NUL /\ \A j \in 1 .. i - 1 : d[j] # NUL \/ d[j + 1] # NUL
Ended(d) == \E i \in 1 .. EnvSize - 1 : d[i] = NUL /\ d[i + 1] = NUL

Starts(d) == IF d[1] = NUL THEN {} ELSE {i \in 1 .. End(d) : i = 1 \/ d[i - 1] = NUL}
Nxt(d, i) == CHOOSE j \in i .. EnvSize : d[j] = NUL /\ \A k \in i .. j - 1 : d[k] # NUL

Entries(d, n) == {i \in Starts(d) : IsPrefix(Named(n) \o <<"=">>, SubSeq(d, i, Nxt(d, i)))}
Defined(d, n) == Entries(d, n) # {}
First(S) == CHOOSE i \in S : \A j \in S : i <= j

getenv(d, n) ==
    LET S == Entries(d, n) IN
    IF S = {} THEN Undefined ELSE SubSeq(d, First(S) + Len(Named(n)) + 1, Nxt(d, First(S)) - 1)

(* getenv_r: what the buffer holds, and the number returned. The number is *)
(* one more than len when the value has no room.                           *)
getenv_r(d, n, len) ==
    LET v == Append(getenv(d, n), NUL) IN
    [buf |-> IF Len(v) < len THEN v ELSE IF Len(v) = len THEN Append(v, NUL) ELSE SubSeq(v, 1, len),
     n |-> IF Len(v) <= len THEN Len(v) ELSE len + 1]

(* do_printenv without arguments: all entries in order.                    *)
printenv(d) == {SubSeq(d, i, Nxt(d, i) - 1) : i \in Starts(d)}

(* Mutant: the last definition leaves one NUL behind it.                   *)
ErasedOneNul(d, i) ==
    LET nxt == Nxt(d, i)  size == nxt + 1 - i  end == End(d) IN
    IF d[nxt + 1] = NUL THEN [d EXCEPT ![IF i > 1 THEN i - 1 ELSE i] = NUL]
    ELSE [j \in 1 .. EnvSize |-> IF j \in i .. end - size THEN d[j + size] ELSE d[j]]

(* The entry at i is deleted, and all after it are moved there.            *)
Erased(d, i) ==
    LET nxt == Nxt(d, i)  size == nxt + 1 - i  end == End(d) IN
    IF d[nxt + 1] = NUL
    THEN LET env == IF i > 1 THEN i - 1 ELSE i IN [d EXCEPT ![env] = NUL, ![env + 1] = NUL]
    ELSE [j \in 1 .. EnvSize |->
             IF j \in i .. end - size THEN d[j + size] ELSE IF j = end - size + 1 THEN NUL ELSE d[j]]

Remaining(d, n) == IF Defined(d, n) THEN Erased(d, First(Entries(d, n))) ELSE d

(* Where a new definition goes.                                            *)
AppendAt(d) == IF End(d) > 1 THEN End(d) + 1 ELSE 1

Definition(n, args) ==
    n \o <<"=">> \o FoldLeft(LAMBDA s, a : IF s = <<>> THEN a ELSE s \o <<" ">> \o a, <<>>, args)

(* "name" + "=" + "val" + "\0\0"                                           *)
Needed(n, args) == Len(Definition(n, args)) + 2

Overflows(d, n, args) == Needed(n, args) > EnvSize - (AppendAt(d) - 1)

Appended(d, n, args) ==
    LET new == Definition(n, args) \o <<NUL, NUL>>  at == AppendAt(d) IN
    [j \in 1 .. EnvSize |-> IF j \in at .. at + Len(new) - 1 THEN new[j - at + 1] ELSE d[j]]

(* console_assign and console_setfile: the first device of that name, if   *)
(* it has the direction and starts.                                        *)
HasDirection(file, dev) == IF file = "stdin" THEN dev.in ELSE dev.out
Assignable(file, name, starts) ==
    \E i \in DOMAIN Devices :
        /\ Devices[i].name = name /\ \A j \in 1 .. i - 1 : Devices[j].name # name
        /\ HasDirection(file, Devices[i]) /\ (Devices[i].start => starts)

IsFile(n) == n \in {<<f>> : f \in Files}

(* Which device a call reaches. fgetc, ftstc, fputc, fputs, fprintf take   *)
(* a file, and nothing happens for a number that is none; getc and tstc    *)
(* are for stdin, putc, puts and printf for stdout, all of them directly   *)
(* for the serial line until the devices are there.                        *)
Nobody == "nobody"
OfFile(f) == IF f \in Files THEN stdio[f] ELSE Nobody
InputOf == IF devinit THEN OfFile("stdin") ELSE "serial"
OutputOf == IF devinit THEN OfFile("stdout") ELSE "serial"

(* What a command does before anything is deleted, only to a variable that *)
(* exists.                                                                 *)
Refused(n, args, starts) ==
    /\ Defined(text, n)
    /\ \/ n \in WriteOnce
       \/ IsFile(n) /\ IF args = <<>> THEN TRUE ELSE ~Assignable(n[1], args[1][1], starts)
       \/ n = <<"baudrate">> /\ args # <<>> /\ args[1] \notin BaudRates

(* The rate is read from argv[2] whether there is one or not: NULL is no   *)
(* address of this board's memory.                                         *)
ReadsNull(n, args) == Defined(text, n) /\ n = <<"baudrate">> /\ args = <<>>

Switched(n, args) ==
    IF Defined(text, n) /\ IsFile(n) THEN [stdio EXCEPT ![n[1]] = args[1][1]] ELSE stdio

(* eth_set_enetaddr, for names eth<n>addr; without a value it is 0.        *)
NewMacs(n, args) ==
    IF n \in DOMAIN EthIndex THEN [macs EXCEPT ![EthIndex[n]] = IF args = <<>> THEN Zero ELSE args[1]] ELSE macs

(* The part of _do_setenv up to the deletion, for a command that goes on.  *)
Preparation(n, args) ==
    /\ ~ReadsNull(n, args)
    /\ \E starts \in BOOLEAN : ~Refused(n, args, starts)
    /\ stdio' = Switched(n, args)
    /\ baud' = IF Defined(text, n) /\ n = <<"baudrate">> THEN args[1] ELSE baud
    /\ macs' = NewMacs(n, args)

SetEnvRefused ==
    \E n \in names, args \in {<<>>} \cup {<<v>> : v \in EnvValues} :
        /\ \E starts \in BOOLEAN : Refused(n, args, starts)
        /\ UNCHANGED setEnvVars

SetEnvException ==
    /\ \E n \in names : ReadsNull(n, <<>>)
    /\ stopped' = TRUE
    /\ UNCHANGED <<names, text, stdio, devinit, baud, macs, board, expected, irregular>>

SetEnvDelete ==
    \E n \in names :
        /\ Preparation(n, <<>>)
        /\ text' = Remaining(text, n)
        /\ expected' = [expected EXCEPT ![Named(n)] = Undefined]
        /\ irregular' = (irregular \/ Contains(n, "="))
        /\ UNCHANGED <<names, devinit, board, stopped>>

(* The old definition is gone when there is no room for the new one.       *)
SetEnvOverflow ==
    \E n \in names, args \in {<<v>> : v \in EnvValues} :
        /\ Preparation(n, args)
        /\ Overflows(Remaining(text, n), n, args)
        /\ text' = Remaining(text, n)
        /\ expected' = [expected EXCEPT ![Named(n)] = Undefined]
        /\ irregular' = TRUE
        /\ UNCHANGED <<names, devinit, board, stopped>>

SetEnv ==
    \E n \in names, args \in {<<v>> : v \in EnvValues} \cup {<<v, w>> : v, w \in EnvValues} :
        /\ Preparation(n, args)
        /\ ~Overflows(Remaining(text, n), n, args)
        /\ text' = Appended(Remaining(text, n), n, args)
        /\ board' = IF n \in BoardNames THEN [board EXCEPT ![n] = args[1]] ELSE board
        /\ expected' = [expected EXCEPT ![Named(n)] =
                            SubSeq(Definition(n, args), Len(Named(n)) + 2, Len(Definition(n, args)))]
        /\ irregular' = (irregular \/ Contains(n, "="))
        /\ UNCHANGED <<names, devinit, stopped>>

(* console_init_r: the first device of each direction, named in the        *)
(* environment.                                                            *)
FirstDevice(file) == SelectInSeq(Devices, LAMBDA dev : HasDirection(file, dev))
FirstDevices == [f \in Files |-> Devices[FirstDevice(f)].name]

DefaultText ==
    FoldLeft(LAMBDA d, e : Appended(d, e[1], <<e[2]>>), [i \in 1 .. EnvSize |-> NUL], DefaultEntries)
(* setenv of the three names, once the devices are chosen.                 *)
InitialText ==
    FoldLeft(LAMBDA d, f : Appended(Remaining(d, <<f>>), <<f>>, <<<<FirstDevices[f]>>>>),
             DefaultText, <<"stdin", "stdout", "stderr">>)

AllNames == {Named(x) : x \in names} \cup {<<f>> : f \in Files} \cup {e[1] : e \in ToSet(DefaultEntries)}

SetEnvInit ==
    /\ names \in Sessions
    /\ text = DefaultText /\ stdio = [f \in Files |-> Nobody] /\ devinit = FALSE
    /\ baud = getenv(text, <<"baudrate">>)
    /\ macs = [i \in 0 .. 1 |-> Zero]
    /\ board = [n \in BoardNames |-> IF Defined(text, n) THEN getenv(text, n) ELSE Zero]
    /\ expected = [n \in AllNames |-> getenv(InitialText, n)]
    /\ irregular = FALSE /\ stopped = FALSE

console_init_r ==
    /\ ~devinit /\ devinit' = TRUE
    /\ stdio' = FirstDevices /\ text' = InitialText
    /\ UNCHANGED <<names, baud, macs, board, stopped, expected, irregular>>

(* Commands are read once the console is there.                            *)
SetEnvNext ==
    \/ console_init_r
    \/ devinit /\ ~stopped /\ (SetEnvRefused \/ SetEnvException \/ SetEnvDelete \/ SetEnvOverflow \/ SetEnv)

SetEnvSpec == SetEnvInit /\ [][SetEnvNext]_setEnvVars

-----------------------------------------------------------------------------
(* The text stays inside its buffer and ends in two NULs, whatever was     *)
(* deleted and appended.                                                   *)
EnvEnds == Ended(text)

(* Every variable has the value the commands gave it, nothing else is      *)
(* defined, and printenv shows each definition once.                       *)
EnvIsMap ==
    /\ \A n \in DOMAIN expected : getenv(text, n) = expected[n]
    /\ Cardinality(printenv(text)) = Cardinality(Starts(text))
    /\ Cardinality(Starts(text)) = Cardinality({n \in DOMAIN expected : expected[n] # Undefined})

(* A value shorter than the buffer is copied with its NUL, and nothing is  *)
(* written behind the buffer unless value and NUL fill it exactly.         *)
GetenvRFits ==
    \A n \in DOMAIN expected, len \in 1 .. 4 :
        Defined(text, n) /\ Len(getenv(text, n)) + 1 < len =>
            LET r == getenv_r(text, n, len) IN
            Len(r.buf) <= len /\ r.n = Len(r.buf) /\ r.buf = Append(expected[n], NUL)

(* A console is the device its variable names, and an address the one its  *)
(* variable holds, unless a variable was lost in an overflow.              *)
SettingsFollow ==
    ~irregular =>
        /\ \A f \in Files : IsPrefix(<<stdio[f]>>, getenv(text, <<f>>))
        /\ \A n \in DOMAIN EthIndex : Defined(text, n) => IsPrefix(macs[EthIndex[n]], getenv(text, n))
        /\ \A n \in BoardNames : Defined(text, n) => IsPrefix(board[n], getenv(text, n))
        /\ IsPrefix(baud, getenv(text, <<"baudrate">>))

(* What is read and printed goes through the devices the variables name,   *)
(* which have that direction; until the devices are there it goes through  *)
(* the serial line (console.c).                                            *)
CallsReachDevices ==
    LET Can(name, file) == \E i \in DOMAIN Devices : Devices[i].name = name /\ HasDirection(file, Devices[i]) IN
    /\ Can(InputOf, "stdin") /\ Can(OutputOf, "stdout") /\ OfFile("other") = Nobody
    /\ devinit => /\ Can(OfFile("stderr"), "stderr")
                  /\ ~irregular => /\ IsPrefix(<<InputOf>>, getenv(text, <<"stdin">>))
                                   /\ IsPrefix(<<OutputOf>>, getenv(text, <<"stdout">>))

(* setenv keeps the text, what getenv reads from it and what the board     *)
(* took over from it in agreement.                                         *)
EnvironmentAgrees == EnvEnds /\ CallsReachDevices /\ (devinit => EnvIsMap /\ GetenvRFits /\ SettingsFollow)
=============================================================================
